-------------------------------- MODULE Sync --------------------------------
(***************************************************************************)
(* One order copied from the instance that owns it to another one, and the *)
(* payments seen on either side (plugins/sync/src).  The owner's events    *)
(* are written to its outbox after the fact, published by a sweep, and     *)
(* applied by the consumers of the other instance: check whether the event *)
(* was processed, apply it, mark it processed, acknowledge the message,    *)
(* each in a transaction of its own.  A message that fails is given back   *)
(* to the queue and after MaxTry attempts to the dead-letter queue.        *)
(*                                                                         *)
(* A queue hands out its messages in any order: the handlers of a process  *)
(* run concurrently and a message given back comes later.  What a handler  *)
(* waits before it gives its message back is part of that.                 *)
(*                                                                         *)
(* Left out: products, administrators and reservations, the routing keys,  *)
(* messages that do not parse, an order's lines, and the guard that        *)
(* refuses a user's edit of a replica.  A payment is the fact that         *)
(* addPaymentToOrder was called, whatever the order answered.              *)
(***************************************************************************)
EXTENDS Integers, FiniteSets

CONSTANTS
    Move,           \* the states the order takes after it was placed
    Fact,           \* the payments recorded for the order
    Witnessed,      \* those seen by the instance that has the replica
    OwnerHandler, ReplicaHandler,   \* the messages an instance handles at a time
    MaxTry,         \* maxRetry, of a row of the outbox and of a message
    MaxCopies,      \* bound: copies of one message under way
    MaxFault        \* bound: crashes, failed calls and lost messages

Event == {"created"} \cup Move \cup Fact
Handler == OwnerHandler \cup ReplicaHandler

ASSUME SyncAssumption ==
    /\ "Cancelled" \in Move
    /\ "created" \notin Move \cup Fact /\ Move \cap Fact = {}
    /\ Witnessed \subseteq Fact
    /\ OwnerHandler \cap ReplicaHandler = {} /\ IsFiniteSet(Handler)
    /\ MaxTry \in Nat \ {0} /\ MaxCopies \in Nat \ {0} /\ MaxFault \in Nat

VARIABLES
    ostate,     \* the states the owner's order has taken since it was a cart
    bus,        \* events published in the owner's process, not yet in its outbox
    outbox,     \* SyncOutboxEntry, by event
    snapshot,   \* did order.created find the order cancelled when it was written?
    copies,     \* messages in the queue of the event's receiver, by event
    handler,    \* what a handler of a consumer does
    tries,      \* retryCounts: failed attempts the receiver's process remembers
    dead,       \* events in the dead-letter queue
    marked,     \* SyncProcessedEvent
    known,      \* does the other instance have the order's customer?
    replicas,   \* orders of the other instance stamped with this sourceOrderId
    rcancelled, \* is the replica cancelled?
    shown,      \* the owner's payments the replica's paymentStatus was written from
    paid,       \* the witnessed payments added to the owner's order
    skipped,    \* history: order.created was applied without a customer
    lost,       \* history: events that left no trace
    faults

vars == <<ostate, bus, outbox, snapshot, copies, handler, tries, dead, marked, known,
          replicas, rcancelled, shown, paid, skipped, lost, faults>>
ownerVars == <<ostate, bus, snapshot>>
queueVars == <<outbox, copies, dead, lost>>
effectVars == <<replicas, rcancelled, shown, paid, skipped>>

NoRow == [status |-> "none", tries |-> 0]
Idle == [pc |-> "idle", event |-> "created", seen |-> "nothing"]
PC == {"idle", "check", "apply", "locked", "mark", "ack"}

Receivers(e) == IF e \in Witnessed THEN OwnerHandler ELSE ReplicaHandler

\* Every variable keeps its type: no attempt is counted beyond MaxTry, and a handler works only on
\* messages of its own instance.
TypeOK ==
    /\ ostate \subseteq {"placed"} \cup Move
    /\ bus \subseteq Event /\ snapshot \in BOOLEAN
    /\ outbox \in [Event -> [status: {"none", "pending", "delivered", "failed"}, tries: 0..MaxTry]]
    /\ copies \in [Event -> Nat]
    /\ handler \in [Handler -> [pc: PC, event: Event, seen: {"nothing", "replica", "stranger", "fresh"}]]
    /\ \A h \in Handler : handler[h].pc # "idle" => h \in Receivers(handler[h].event)
    /\ tries \in [Event -> 0..(MaxTry - 1)]
    /\ dead \subseteq Event /\ marked \subseteq Event /\ lost \subseteq Event
    /\ known \in BOOLEAN /\ replicas \in Nat /\ rcancelled \in BOOLEAN
    /\ shown \subseteq Fact \ Witnessed /\ paid \subseteq Witnessed
    /\ skipped \in BOOLEAN /\ faults \in 0..MaxFault

\* A payment the owner never records is as good as lost, and fewer faults than the bound may come.
Init ==
    /\ ostate = {} /\ bus = {} /\ snapshot = FALSE
    /\ outbox = [e \in Event |-> NoRow] /\ copies = [e \in Event |-> 0]
    /\ handler = [h \in Handler |-> Idle] /\ tries = [e \in Event |-> 0]
    /\ dead = {} /\ marked = {} /\ lost \in SUBSET Fact
    /\ known \in BOOLEAN /\ replicas = 0 /\ rcancelled = FALSE
    /\ shown = {} /\ paid = {} /\ skipped = FALSE /\ faults \in 0..MaxFault

-----------------------------------------------------------------------------
(* The owner *)

\* The order is placed: onOrderPlaced announces it once.
Place ==
    /\ ostate = {}
    /\ ostate' = {"placed"} /\ bus' = {"created"}
    /\ UNCHANGED <<snapshot, queueVars, handler, tries, marked, known, effectVars, faults>>

\* A cancelled order moves no more.
Transition(m) ==
    /\ "placed" \in ostate /\ ostate \cap {m, "Cancelled"} = {}
    /\ ostate' = ostate \cup {m} /\ bus' = bus \cup {m}
    /\ UNCHANGED <<snapshot, queueVars, handler, tries, marked, known, effectVars, faults>>

\* A payment of the owner's order is authorized or settled there.
PayOwn(f) ==
    /\ "placed" \in ostate /\ outbox[f] = NoRow /\ f \notin bus \cup lost
    /\ bus' = bus \cup {f}
    /\ UNCHANGED <<ostate, snapshot, queueVars, handler, tries, marked, known, effectVars, faults>>

\* recordWitnessedPayment on the replica: the fact goes to the outbox in its own transaction.
Witness(f) ==
    /\ replicas > 0 /\ outbox[f] = NoRow
    /\ outbox' = [outbox EXCEPT ![f].status = "pending"]
    /\ UNCHANGED <<ownerVars, copies, dead, lost, handler, tries, marked, known, effectVars, faults>>

\* toOrderCreatedEntry reads the order anew: was it cancelled meanwhile?
CreatedCancelled == "Cancelled" \in ostate

\* registerOutboxProducer: a subscriber of the event writes its row.
Produce(e) ==
    /\ e \in bus
    /\ bus' = bus \ {e}
    /\ outbox' = [outbox EXCEPT ![e].status = "pending"]
    /\ snapshot' = IF e = "created" THEN CreatedCancelled ELSE snapshot
    /\ UNCHANGED <<ostate, copies, dead, lost, handler, tries, marked, known, effectVars, faults>>

\* The subscriber fails, which is logged, or its process stops first.
LoseBus(e) ==
    /\ e \in bus /\ faults < MaxFault
    /\ bus' = bus \ {e} /\ lost' = lost \cup {e}
    /\ faults' = faults + 1
    /\ UNCHANGED <<ostate, snapshot, outbox, copies, dead, handler, tries, marked, known, effectVars>>

-----------------------------------------------------------------------------
(* processOutbox: the row is claimed, published and marked under its row lock *)

Claimable(e) == outbox[e].status = "pending" /\ outbox[e].tries < MaxTry /\ copies[e] < MaxCopies

\* The broker has the message.
Publish(e) ==
    /\ Claimable(e)
    /\ outbox' = [outbox EXCEPT ![e].status = "delivered"]
    /\ copies' = [copies EXCEPT ![e] = @ + 1]
    /\ UNCHANGED <<ownerVars, dead, lost, handler, tries, marked, known, effectVars, faults>>

\* publish does not wait for the broker's confirmation: the row is marked delivered and the
\* message never reaches the broker.
PublishUnconfirmed(e) ==
    /\ Claimable(e) /\ faults < MaxFault
    /\ outbox' = [outbox EXCEPT ![e].status = "delivered"]
    /\ lost' = lost \cup {e} /\ faults' = faults + 1
    /\ UNCHANGED <<ownerVars, copies, dead, handler, tries, marked, known, effectVars>>

\* An error, or a timeout after which the message may still reach the broker.
PublishFails(e) ==
    /\ Claimable(e) /\ faults < MaxFault /\ faults' = faults + 1
    /\ outbox' = [outbox EXCEPT ![e] =
          [status |-> IF @.tries + 1 >= MaxTry THEN "failed" ELSE "pending", tries |-> @.tries + 1]]
    /\ \E sent \in {0, 1} : copies' = [copies EXCEPT ![e] = @ + sent]
    /\ UNCHANGED <<ownerVars, dead, lost, handler, tries, marked, known, effectVars>>

\* The process stops after the message was sent: the row is still pending.
PublishAgain(e) ==
    /\ Claimable(e) /\ faults < MaxFault
    /\ copies' = [copies EXCEPT ![e] = @ + 1]
    /\ faults' = faults + 1
    /\ UNCHANGED <<ownerVars, outbox, dead, lost, handler, tries, marked, known, effectVars>>

-----------------------------------------------------------------------------
(* A consumer: subscribe's callback around handleOrderCreated, handleOrderUpdated and
   handlePaymentRecorded *)

At(h, pc) == handler[h].pc = pc
Go(h, pc) == handler' = [handler EXCEPT ![h].pc = pc]

Deliver(h, e) ==
    /\ At(h, "idle") /\ copies[e] > 0 /\ h \in Receivers(e)
    /\ copies' = [copies EXCEPT ![e] = @ - 1]
    /\ handler' = [handler EXCEPT ![h] = [Idle EXCEPT !.pc = "check", !.event = e]]
    /\ UNCHANGED <<ownerVars, outbox, dead, lost, tries, marked, known, effectVars, faults>>

AfterCheck(e) == IF e \in marked THEN "ack" ELSE "apply"

\* isAlreadyProcessed.
Check(h) ==
    /\ At(h, "check")
    /\ Go(h, AfterCheck(handler[h].event))
    /\ UNCHANGED <<ownerVars, queueVars, tries, marked, known, effectVars, faults>>

LockFreeAlways == TRUE
LockFree == \A h \in Handler : ~At(h, "locked")

\* applyCreate under the lock of the order's replica: what the transaction finds.
LockReplica(h) ==
    /\ At(h, "apply") /\ handler[h].event = "created" /\ LockFree
    /\ handler' = [handler EXCEPT ![h].pc = "locked",
          ![h].seen = IF replicas > 0 THEN "replica" ELSE IF known THEN "fresh" ELSE "stranger"]
    /\ UNCHANGED <<ownerVars, queueVars, tries, marked, known, effectVars, faults>>

\* An order without a local customer is not created, and that is no failure.
CreateReplica(h) ==
    /\ At(h, "locked")
    /\ IF handler[h].seen = "fresh"
       THEN replicas' = replicas + 1 /\ rcancelled' = (rcancelled \/ snapshot)
       ELSE UNCHANGED <<replicas, rcancelled>>
    /\ skipped' = (skipped \/ handler[h].seen = "stranger")
    /\ Go(h, "mark")
    /\ UNCHANGED <<ownerVars, queueVars, tries, marked, known, shown, paid, faults>>

AppliesAlways(e) == e # "created"
\* An update and an own payment need the replica; without one they throw.
Applies(e) == e # "created" /\ (e \in Witnessed \/ replicas > 0)

\* applyUpdate and applyPaymentRecorded: of the owner's later states the replica can only take
\* Cancelled, the others are refused and logged.
Apply(h) ==
    LET e == handler[h].event IN
    /\ At(h, "apply") /\ Applies(e)
    /\ rcancelled' = (rcancelled \/ (e = "Cancelled" /\ replicas > 0))
    /\ shown' = IF e \in Fact \ Witnessed /\ replicas > 0 THEN shown \cup {e} ELSE shown
    /\ paid' = IF e \in Witnessed THEN paid \cup {e} ELSE paid
    /\ Go(h, "mark")
    /\ UNCHANGED <<ownerVars, queueVars, tries, marked, known, replicas, skipped, faults>>

\* tryMarkProcessed.
Mark(h) ==
    /\ At(h, "mark")
    /\ marked' = marked \cup {handler[h].event}
    /\ Go(h, "ack")
    /\ UNCHANGED <<ownerVars, queueVars, tries, known, effectVars, faults>>

Ack(h) ==
    /\ At(h, "ack")
    /\ tries' = [tries EXCEPT ![handler[h].event] = 0]
    /\ handler' = [handler EXCEPT ![h] = Idle]
    /\ UNCHANGED <<ownerVars, queueVars, marked, known, effectVars, faults>>

NotCounted(e) == tries[e]
\* The attempts made of an event, the one that just failed included.
Attempts(e) == tries[e] + 1

GivesUpLate(e) == tries[e] + 1 > MaxTry
GivesUp(e) == Attempts(e) >= MaxTry

\* The handler throws: its transaction is rolled back, its message given back or dead-lettered.
GiveBack(h) ==
    LET e == handler[h].event IN
    /\ IF GivesUp(e)
       THEN /\ dead' = dead \cup {e} /\ UNCHANGED copies
            /\ tries' = [tries EXCEPT ![e] = 0]
       ELSE /\ copies' = [copies EXCEPT ![e] = @ + 1] /\ UNCHANGED dead
            /\ tries' = [tries EXCEPT ![e] = Attempts(e)]
    /\ handler' = [handler EXCEPT ![h] = Idle]
    /\ UNCHANGED <<ownerVars, outbox, lost, marked, known, effectVars>>

\* There is no replica (yet).
MissReplica(h) ==
    /\ At(h, "apply") /\ handler[h].event # "created" /\ ~Applies(handler[h].event)
    /\ GiveBack(h)
    /\ UNCHANGED faults

\* Any of its transactions fails.
Fail(h) ==
    /\ handler[h].pc \in {"check", "apply", "locked", "mark"}
    /\ faults < MaxFault /\ faults' = faults + 1
    /\ GiveBack(h)

\* A consumer's process stops, busy or idle, and starts again: the messages it had are given back
\* and its attempts, kept in memory alone, forgotten.
Crash(side) ==
    LET open(e) == {h \in side : ~At(h, "idle") /\ handler[h].event = e} IN
    /\ faults < MaxFault
    /\ handler' = [h \in Handler |-> IF h \in side THEN Idle ELSE handler[h]]
    /\ copies' = [e \in Event |-> copies[e] + Cardinality(open(e))]
    /\ tries' = [e \in Event |-> IF Receivers(e) = side THEN 0 ELSE tries[e]]
    /\ faults' = faults + 1
    /\ UNCHANGED <<ownerVars, outbox, dead, lost, marked, known, effectVars>>

\* The customer is imported at the other instance.
CustomerArrives ==
    /\ ~known /\ known' = TRUE
    /\ UNCHANGED <<ownerVars, queueVars, handler, tries, marked, effectVars, faults>>

-----------------------------------------------------------------------------
Step(h) == Check(h) \/ LockReplica(h) \/ CreateReplica(h) \/ Apply(h) \/ Mark(h) \/ Ack(h) \/ MissReplica(h)

Next ==
    \/ Place \/ CustomerArrives
    \/ \E m \in Move : Transition(m)
    \/ \E f \in Fact \ Witnessed : PayOwn(f)
    \/ \E f \in Witnessed : Witness(f)
    \/ \E e \in Event :
        \/ Produce(e) \/ LoseBus(e)
        \/ Publish(e) \/ PublishUnconfirmed(e) \/ PublishFails(e) \/ PublishAgain(e)
        \/ \E h \in Handler : Deliver(h, e)
    \/ \E h \in Handler : Step(h) \/ Fail(h)
    \/ Crash(OwnerHandler) \/ Crash(ReplicaHandler)

\* A subscriber runs, the sweep is a scheduled task of every instance that takes every row it can
\* claim, the broker hands out what it has to a consumer that takes it, and a callback goes on.
Fairness ==
    /\ \A e \in Event :
        /\ WF_vars(Produce(e))
        /\ WF_vars(Publish(e))
        /\ WF_vars(\E h \in Handler : Deliver(h, e))
    /\ \A h \in Handler : WF_vars(Step(h))

Spec == Init /\ [][Next]_vars
FairSpec == Spec /\ Fairness

-----------------------------------------------------------------------------
(* Properties *)

\* However often order.created is delivered, and by whatever handlers at once, the other instance
\* builds one replica (applyCreateLocked's lock around its search and its insert).
OneReplica == replicas <= 1

Handled(e) == \E h \in Handler : ~At(h, "idle") /\ handler[h].event = e
UnderWay(e) ==
    e \in bus \/ outbox[e].status \in {"pending", "failed"} \/ copies[e] > 0 \/ Handled(e) \/ e \in dead

HasEffect(e) ==
    \/ e = "created" /\ (replicas > 0 \/ skipped)
    \/ e = "Cancelled" /\ rcancelled
    \/ e \in Move \ {"Cancelled"} /\ replicas > 0
    \/ e \in shown \cup paid

Recorded == (ostate \ {"placed"}) \cup (IF ostate = {} THEN {} ELSE {"created"})
                \cup {f \in Fact : outbox[f] # NoRow \/ f \in bus}

\* No event of the order is dropped silently (docs/sync.md): each is still to be sent or applied,
\* is kept for an operator (a failed row, the dead-letter queue), or has reached the other
\* instance: a message that overtakes order.created, fails half-way or loses its consumer between
\* two transactions is applied again, not skipped.  The exceptions are named: an event that never
\* reached the outbox or the broker (`lost`), an order without a local customer (`skipped`).
NothingDropped == \A e \in Recorded : UnderWay(e) \/ HasEffect(e) \/ e \in lost

Quiet(e) == e \notin bus /\ outbox[e].status # "pending" /\ copies[e] = 0 /\ ~Handled(e)

\* No message goes round forever: every event comes to rest, delivered, failed or dead-lettered,
\* although failing messages are given back to the queue (retryCounts).
EveryMessageEnds == \A e \in Event : []<>Quiet(e)

=============================================================================
