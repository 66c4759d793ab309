----------------------------- MODULE SyncProofs -----------------------------
(***************************************************************************)
(* Proofs about Sync: every variable keeps its type, and however many      *)
(* handlers and copies of order.created there are, the other instance      *)
(* builds one replica; no event recorded for the order is dropped.         *)
(***************************************************************************)
EXTENDS Sync, FiniteSetTheorems, TLAPS

Seen == {"nothing", "replica", "stranger", "fresh"}
Handling == [pc: PC, event: Event, seen: Seen]
OutboxRow == [status: {"none", "pending", "delivered", "failed"}, tries: 0..MaxTry]

-----------------------------------------------------------------------------
(* Types *)

LEMMA InitTyped == Init => TypeOK
<1> SUFFICES ASSUME Init PROVE TypeOK
  OBVIOUS
<1> USE SyncAssumption DEF SyncAssumption, Init
<1>1. outbox \in [Event -> OutboxRow]
  BY DEF NoRow, OutboxRow
<1>2. handler \in [Handler -> Handling] /\ \A h \in Handler : handler[h].pc = "idle"
  BY DEF Idle, Handling, PC, Seen, Event
<1>3. tries \in [Event -> 0..(MaxTry - 1)] /\ copies \in [Event -> Nat]
  OBVIOUS
<1>4. lost \subseteq Event /\ faults \in 0..MaxFault
  BY DEF Event
<1>5. known \in BOOLEAN /\ snapshot \in BOOLEAN /\ rcancelled \in BOOLEAN /\ skipped \in BOOLEAN
  OBVIOUS
<1> QED BY <1>1, <1>2, <1>3, <1>4, <1>5 DEF TypeOK, OutboxRow, Handling, Seen

\* The owner's part leaves the handlers and what they do alone.
LEMMA OwnerTyped ==
  ASSUME TypeOK,
         \/ Place \/ CustomerArrives
         \/ \E m \in Move : Transition(m)
         \/ \E f \in Fact \ Witnessed : PayOwn(f)
         \/ \E f \in Witnessed : Witness(f)
         \/ \E e \in Event : Produce(e) \/ LoseBus(e)
  PROVE  TypeOK'
<1> USE SyncAssumption DEF SyncAssumption, TypeOK, Event, ownerVars, queueVars, effectVars
<1>1. CASE Place
  BY <1>1 DEF Place, Receivers
<1>2. CASE CustomerArrives
  BY <1>2 DEF CustomerArrives, Receivers
<1>3. ASSUME NEW m \in Move, Transition(m) PROVE TypeOK'
  BY <1>3 DEF Transition, Receivers
<1>4. ASSUME NEW f \in Fact \ Witnessed, PayOwn(f) PROVE TypeOK'
  BY <1>4 DEF PayOwn, Receivers
<1>5. ASSUME NEW f \in Witnessed, Witness(f) PROVE TypeOK'
  BY <1>5 DEF Witness, Receivers
<1>6. ASSUME NEW e \in Event, Produce(e) PROVE TypeOK'
  <2>1. snapshot' \in BOOLEAN
    <3>1. CASE e = "created"
      <4>1. snapshot' = CreatedCancelled
        BY <1>6, <3>1, Zenon DEF Produce
      <4>2. CASE "Cancelled" \in ostate
        <5>1. snapshot' = TRUE
          BY <4>1, <4>2, Zenon DEF CreatedCancelled
        <5> QED BY <5>1
      <4>3. CASE "Cancelled" \notin ostate
        <5>1. CreatedCancelled = FALSE
          BY <4>3, SMT DEF CreatedCancelled
        <5> QED BY <4>1, <5>1
      <4> QED BY <4>2, <4>3
    <3>2. CASE e # "created"
      <4>1. snapshot' = snapshot
        BY <1>6, <3>2, Zenon DEF Produce
      <4> QED BY <4>1
    <3> QED BY <3>1, <3>2
  <2>2. /\ bus' \subseteq Event
        /\ outbox' \in [Event -> OutboxRow]
    BY <1>6 DEF Produce, OutboxRow
  <2> QED BY <1>6, <2>1, <2>2 DEF Produce, OutboxRow, Receivers
<1>7. ASSUME NEW e \in Event, LoseBus(e) PROVE TypeOK'
  BY <1>7 DEF LoseBus, Receivers
<1> QED BY <1>1, <1>2, <1>3, <1>4, <1>5, <1>6, <1>7

LEMMA SweepTyped ==
  ASSUME TypeOK, NEW e \in Event,
         Publish(e) \/ PublishUnconfirmed(e) \/ PublishFails(e) \/ PublishAgain(e)
  PROVE  TypeOK'
<1> USE SyncAssumption DEF SyncAssumption, TypeOK, ownerVars, queueVars, effectVars, Claimable
<1>1. CASE Publish(e)
  BY <1>1 DEF Publish, Receivers
<1>2. CASE PublishUnconfirmed(e)
  BY <1>2 DEF PublishUnconfirmed, Receivers
<1>3. CASE PublishFails(e)
  BY <1>3 DEF PublishFails, Receivers
<1>4. CASE PublishAgain(e)
  BY <1>4 DEF PublishAgain, Receivers
<1> QED BY <1>1, <1>2, <1>3, <1>4

\* A handler that goes on keeps its message.
LEMMA GoTyped ==
  ASSUME TypeOK, NEW h \in Handler, NEW pc \in PC, handler[h].pc # "idle", Go(h, pc)
  PROVE  /\ handler' \in [Handler -> Handling]
         /\ \A g \in Handler : handler'[g].pc # "idle" => g \in Receivers(handler'[g].event)
  BY DEF TypeOK, Go, Handling, Seen, Receivers

\* So does one that ends.
LEMMA EndTyped ==
  ASSUME TypeOK, NEW h \in Handler, handler' = [handler EXCEPT ![h] = Idle]
  PROVE  /\ handler' \in [Handler -> Handling]
         /\ \A g \in Handler : handler'[g].pc # "idle" => g \in Receivers(handler'[g].event)
  BY DEF TypeOK, Idle, Handling, Seen, Receivers, PC, Event

LEMMA GiveBackTyped ==
  ASSUME TypeOK, NEW h \in Handler, GiveBack(h), faults' \in 0..MaxFault
  PROVE  TypeOK'
<1> DEFINE e == handler[h].event
<1>1. e \in Event
  BY DEF TypeOK
<1>2. /\ handler' \in [Handler -> Handling]
      /\ \A g \in Handler : handler'[g].pc # "idle" => g \in Receivers(handler'[g].event)
  BY EndTyped DEF GiveBack
<1>3. tries' \in [Event -> 0..(MaxTry - 1)]
  BY <1>1, SyncAssumption DEF GiveBack, GivesUp, Attempts, TypeOK, SyncAssumption
<1>4. copies' \in [Event -> Nat] /\ dead' \subseteq Event
  BY <1>1 DEF GiveBack, TypeOK
<1> QED
  BY <1>2, <1>3, <1>4
  DEF GiveBack, TypeOK, Handling, Seen, ownerVars, queueVars, effectVars, Receivers

LEMMA StepTyped ==
  ASSUME TypeOK, NEW h \in Handler, Step(h) \/ Fail(h)
  PROVE  TypeOK'
<1>0. handler[h].event \in Event /\ handler[h].pc \in PC
  BY DEF TypeOK
<1> USE DEF ownerVars, queueVars, effectVars
<1>1. CASE Check(h)
  <2>1. AfterCheck(handler[h].event) \in PC
    BY DEF AfterCheck, PC
  <2> QED BY <1>1, <2>1, GoTyped DEF Check, At, TypeOK, Handling, Seen, Receivers
<1>2. CASE LockReplica(h)
  <2>1. /\ handler' \in [Handler -> Handling]
        /\ \A g \in Handler : handler'[g].pc # "idle" => g \in Receivers(handler'[g].event)
    <3>1. PICK seen \in Seen :
            handler' = [handler EXCEPT ![h].pc = "locked", ![h].seen = seen]
      BY <1>2 DEF LockReplica, Seen
    <3>2. handler \in [Handler -> Handling]
      BY DEF TypeOK, Handling, Seen
    <3>3. handler' \in [Handler -> Handling]
      BY <3>1, <3>2 DEF Handling, PC
    <3>4. \A g \in Handler : handler'[g].event = handler[g].event
      BY <3>1, <3>2
    <3>5. \A g \in Handler : handler'[g].pc # "idle" => handler[g].pc # "idle"
      <4>1. \A g \in Handler : g # h => handler'[g] = handler[g]
        BY <3>1, <3>2
      <4> QED BY <1>2, <4>1 DEF LockReplica, At
    <3> QED BY <3>3, <3>4, <3>5 DEF TypeOK
  <2> QED BY <1>2, <2>1 DEF LockReplica, TypeOK, Handling, Seen, Receivers
<1>3. CASE CreateReplica(h)
  <2>1. "mark" \in PC
    BY DEF PC
  <2> QED BY <1>3, <2>1, GoTyped DEF CreateReplica, At, TypeOK, Handling, Seen, Receivers
<1>4. CASE Apply(h)
  <2>1. "mark" \in PC
    BY DEF PC
  <2>2. /\ handler' \in [Handler -> Handling]
        /\ \A g \in Handler : handler'[g].pc # "idle" => g \in Receivers(handler'[g].event)
    BY <1>4, <2>1, GoTyped DEF Apply, At
  <2>3. /\ shown' \subseteq Fact \ Witnessed /\ paid' \subseteq Witnessed /\ rcancelled' \in BOOLEAN
    BY <1>4, <1>0 DEF Apply, TypeOK
  <2> QED BY <1>4, <2>2, <2>3 DEF Apply, TypeOK, Handling, Seen, Receivers
<1>5. CASE Mark(h)
  <2>1. "ack" \in PC
    BY DEF PC
  <2> QED BY <1>5, <1>0, <2>1, GoTyped DEF Mark, At, TypeOK, Handling, Seen, Receivers
<1>6. CASE Ack(h)
  <2>1. tries' \in [Event -> 0..(MaxTry - 1)]
    BY <1>6, <1>0, SyncAssumption DEF Ack, TypeOK, SyncAssumption
  <2> QED BY <1>6, <2>1, EndTyped DEF Ack, TypeOK, Handling, Seen, Receivers
<1>7. CASE MissReplica(h)
  BY <1>7, GiveBackTyped DEF MissReplica, TypeOK
<1>8. CASE Fail(h)
  <2>1. faults' \in 0..MaxFault
    BY <1>8, SyncAssumption DEF Fail, TypeOK, SyncAssumption
  <2> QED BY <1>8, <2>1, GiveBackTyped DEF Fail
<1> QED BY <1>1, <1>2, <1>3, <1>4, <1>5, <1>6, <1>7, <1>8 DEF Step

LEMMA DeliverTyped ==
  ASSUME TypeOK, NEW e \in Event, NEW h \in Handler, Deliver(h, e)
  PROVE  TypeOK'
<1>1. /\ handler' \in [Handler -> Handling]
      /\ \A g \in Handler : handler'[g].pc # "idle" => g \in Receivers(handler'[g].event)
  BY DEF Deliver, TypeOK, Handling, Seen, PC, Idle, Receivers
<1>2. copies' \in [Event -> Nat]
  BY DEF Deliver, TypeOK
<1> QED
  BY <1>1, <1>2 DEF Deliver, TypeOK, Handling, Seen, ownerVars, queueVars, effectVars, Receivers

LEMMA CrashTyped ==
  ASSUME TypeOK, NEW side \in SUBSET Handler, Crash(side)
  PROVE  TypeOK'
<1>1. /\ handler' \in [Handler -> Handling]
      /\ \A g \in Handler : handler'[g].pc # "idle" => g \in Receivers(handler'[g].event)
  BY DEF Crash, TypeOK, Handling, Seen, PC, Idle, Receivers, Event
<1>2. copies' \in [Event -> Nat]
  <2>1. ASSUME NEW e \in Event
        PROVE  Cardinality({h \in side : ~At(h, "idle") /\ handler[h].event = e}) \in Nat
    <3>1. IsFiniteSet(side)
      BY SyncAssumption, FS_Subset DEF SyncAssumption
    <3>2. IsFiniteSet({h \in side : ~At(h, "idle") /\ handler[h].event = e})
      BY <3>1, FS_Subset
    <3> QED BY <3>2, FS_CardinalityType
  <2> QED BY <2>1 DEF Crash, TypeOK
<1>3. tries' \in [Event -> 0..(MaxTry - 1)] /\ faults' \in 0..MaxFault
  BY SyncAssumption DEF Crash, TypeOK, SyncAssumption
<1> QED
  BY <1>1, <1>2, <1>3
  DEF Crash, TypeOK, Handling, Seen, ownerVars, queueVars, effectVars, Receivers

LEMMA StutterTyped == TypeOK /\ UNCHANGED vars => TypeOK'
  BY DEF TypeOK, vars, Receivers

LEMMA NextTyped == TypeOK /\ [Next]_vars => TypeOK'
<1> SUFFICES ASSUME TypeOK, [Next]_vars PROVE TypeOK'
  OBVIOUS
<1>1. CASE \E e \in Event : Publish(e) \/ PublishUnconfirmed(e) \/ PublishFails(e) \/ PublishAgain(e)
  BY <1>1, SweepTyped
<1>2. CASE \E e \in Event, h \in Handler : Deliver(h, e)
  BY <1>2, DeliverTyped
<1>3. CASE \E h \in Handler : Step(h) \/ Fail(h)
  BY <1>3, StepTyped
<1>4. CASE Crash(OwnerHandler) \/ Crash(ReplicaHandler)
  BY <1>4, CrashTyped DEF Handler
<1>5. CASE UNCHANGED vars
  BY <1>5, StutterTyped
<1> QED BY <1>1, <1>2, <1>3, <1>4, <1>5, OwnerTyped DEF Next

\* Every variable of the synchronisation keeps its type, for any moves, payments, handlers and
\* bounds: attempts stay below MaxTry and a handler works on messages of its own instance.
THEOREM SyncTyped == Spec => []TypeOK
<1>1. Init => TypeOK
  BY InitTyped
<1>2. TypeOK /\ [Next]_vars => TypeOK'
  BY NextTyped
<1> QED BY <1>1, <1>2, PTL DEF Spec

-----------------------------------------------------------------------------
(* One replica *)

Building(h) == At(h, "locked") /\ handler[h].seen = "fresh"

\* The lock of the replica has one holder, and while a holder has found no replica there is none.
OneBuilder ==
    /\ \A g, h \in Handler : At(g, "locked") /\ At(h, "locked") => g = h
    /\ \A h \in Handler : Building(h) => replicas = 0
    /\ OneReplica

\* A step that takes no lock, and leaves what its holder found and the replica alone.
LEMMA NoBuilder ==
  ASSUME TypeOK, OneBuilder, replicas' = replicas,
         \A h \in Handler : At(h, "locked")' => At(h, "locked") /\ handler'[h] = handler[h]
  PROVE  OneBuilder'
  BY DEF OneBuilder, Building, OneReplica, At

LEMMA GiveBackBuilds ==
  ASSUME TypeOK, OneBuilder, NEW h \in Handler, GiveBack(h)
  PROVE  OneBuilder'
<1>1. \A g \in Handler : At(g, "locked")' => At(g, "locked") /\ handler'[g] = handler[g]
  BY DEF GiveBack, TypeOK, At, Idle
<1> QED BY <1>1, NoBuilder DEF GiveBack, effectVars

LEMMA GoBuilds ==
  ASSUME TypeOK, OneBuilder, NEW h \in Handler, NEW pc \in PC \ {"locked"}, Go(h, pc),
         replicas' = replicas
  PROVE  OneBuilder'
<1>1. \A g \in Handler : At(g, "locked")' => At(g, "locked") /\ handler'[g] = handler[g]
  BY DEF Go, TypeOK, At
<1> QED BY <1>1, NoBuilder

LEMMA StepBuilds ==
  ASSUME TypeOK, OneBuilder, NEW h \in Handler, Step(h) \/ Fail(h)
  PROVE  OneBuilder'
<1> USE DEF effectVars
<1>1. CASE Check(h)
  BY <1>1, GoBuilds DEF Check, AfterCheck, PC
<1>2. CASE LockReplica(h)
  <2>1. \A g \in Handler : ~At(g, "locked")
    BY <1>2 DEF LockReplica, LockFree
  <2>2. \A g \in Handler : At(g, "locked")' => g = h
    BY <1>2, <2>1 DEF LockReplica, At, TypeOK
  <2>3. handler'[h].seen = "fresh" => ~(replicas > 0)
    BY <1>2 DEF LockReplica, TypeOK
  <2>4. replicas' = replicas /\ replicas \in Nat
    BY <1>2 DEF LockReplica, TypeOK
  <2>5. Building(h)' => replicas' = 0
    BY <2>3, <2>4 DEF Building
  <2> QED BY <2>2, <2>4, <2>5 DEF OneBuilder, OneReplica, Building
<1>3. CASE CreateReplica(h)
  <2>1. \A g \in Handler : ~At(g, "locked")'
    BY <1>3 DEF CreateReplica, Go, At, TypeOK, OneBuilder
  <2>2. handler[h].seen = "fresh" => replicas = 0
    BY <1>3 DEF CreateReplica, OneBuilder, Building
  <2>3. replicas' <= 1
    BY <1>3, <2>2 DEF CreateReplica, OneBuilder, OneReplica, TypeOK
  <2> QED BY <2>1, <2>3 DEF OneBuilder, OneReplica, Building
<1>4. CASE Apply(h)
  BY <1>4, GoBuilds DEF Apply, PC
<1>5. CASE Mark(h)
  BY <1>5, GoBuilds DEF Mark, PC
<1>6. CASE Ack(h)
  <2>1. \A g \in Handler : At(g, "locked")' => At(g, "locked") /\ handler'[g] = handler[g]
    BY <1>6 DEF Ack, TypeOK, At, Idle
  <2> QED BY <1>6, <2>1, NoBuilder DEF Ack
<1>7. CASE MissReplica(h)
  BY <1>7, GiveBackBuilds DEF MissReplica
<1>8. CASE Fail(h)
  BY <1>8, GiveBackBuilds DEF Fail
<1> QED BY <1>1, <1>2, <1>3, <1>4, <1>5, <1>6, <1>7, <1>8 DEF Step

LEMMA DeliverBuilds ==
  ASSUME TypeOK, OneBuilder, NEW e \in Event, NEW h \in Handler, Deliver(h, e)
  PROVE  OneBuilder'
<1>1. \A g \in Handler : At(g, "locked")' => At(g, "locked") /\ handler'[g] = handler[g]
  BY DEF Deliver, TypeOK, At, Idle
<1> QED BY <1>1, NoBuilder DEF Deliver, effectVars

LEMMA CrashBuilds ==
  ASSUME TypeOK, OneBuilder, NEW side \in SUBSET Handler, Crash(side)
  PROVE  OneBuilder'
<1>1. \A g \in Handler : At(g, "locked")' => At(g, "locked") /\ handler'[g] = handler[g]
  BY DEF Crash, TypeOK, At, Idle
<1> QED BY <1>1, NoBuilder DEF Crash, effectVars

\* Steps of the owner, of its sweep and of the customer import.
LEMMA OthersBuild ==
  ASSUME TypeOK, OneBuilder, UNCHANGED <<handler, replicas>>
  PROVE  OneBuilder'
  BY DEF OneBuilder, Building, OneReplica, At

LEMMA NextBuilds == TypeOK /\ OneBuilder /\ [Next]_vars => OneBuilder'
<1> SUFFICES ASSUME TypeOK, OneBuilder, [Next]_vars PROVE OneBuilder'
  OBVIOUS
<1>1. CASE \E e \in Event, h \in Handler : Deliver(h, e)
  BY <1>1, DeliverBuilds
<1>2. CASE \E h \in Handler : Step(h) \/ Fail(h)
  BY <1>2, StepBuilds
<1>3. CASE Crash(OwnerHandler) \/ Crash(ReplicaHandler)
  BY <1>3, CrashBuilds DEF Handler
<1>4. CASE \/ Place \/ CustomerArrives
           \/ \E m \in Move : Transition(m)
           \/ \E f \in Fact \ Witnessed : PayOwn(f)
           \/ \E f \in Witnessed : Witness(f)
           \/ \E e \in Event : Produce(e) \/ LoseBus(e)
  <2>1. UNCHANGED <<handler, replicas>>
    BY <1>4 DEF Place, CustomerArrives, Transition, PayOwn, Witness, Produce, LoseBus, effectVars
  <2> QED BY <2>1, OthersBuild
<1>5. CASE \E e \in Event : Publish(e) \/ PublishUnconfirmed(e) \/ PublishFails(e) \/ PublishAgain(e)
  <2>1. UNCHANGED <<handler, replicas>>
    BY <1>5 DEF Publish, PublishUnconfirmed, PublishFails, PublishAgain, effectVars
  <2> QED BY <2>1, OthersBuild
<1>6. CASE UNCHANGED vars
  BY <1>6, OthersBuild DEF vars
<1> QED BY <1>1, <1>2, <1>3, <1>4, <1>5, <1>6 DEF Next

\* However many handlers, copies of order.created, failures and crashes there are, the other
\* instance builds one replica of the order (applyCreateLocked).
THEOREM ReplicaIsBuiltOnce == Spec => []OneReplica
<1>1. Init => OneBuilder
  BY DEF Init, OneBuilder, Building, OneReplica, At, Idle
<1>2. TypeOK /\ OneBuilder /\ [Next]_vars => OneBuilder'
  BY NextBuilds
<1>3. OneBuilder => OneReplica
  BY DEF OneBuilder
<1> QED BY <1>1, <1>2, <1>3, SyncTyped, PTL DEF Spec

-----------------------------------------------------------------------------
(* Nothing dropped *)

\* The events that have reached the other instance.
Reached == {e \in Event : HasEffect(e)}

\* What a handler that holds the replica's lock has found is still so.
Found(h) == At(h, "locked") =>
    /\ handler[h].event = "created" /\ handler[h].seen \in {"replica", "stranger", "fresh"}
    /\ handler[h].seen = "replica" => replicas > 0

\* An event is published once there is an order, and one marked processed, or applied by a handler that has still to mark or acknowledge it,
\* has reached the other instance.
AppliedFirst ==
    /\ ostate = {} => bus = {}
    /\ marked \subseteq Reached
    /\ \A h \in Handler : Found(h) /\ (handler[h].pc \in {"mark", "ack"} => handler[h].event \in Reached)

Accounted(e) == UnderWay(e) \/ e \in Reached \cup lost

\* Nothing that reached the other instance is undone, and a found replica stays.
EffectsStay ==
    /\ replicas' \in Nat /\ replicas <= replicas'
    /\ Reached \subseteq Reached'
\* No step lets go of an event.
AccountedStay == \A e \in Event : Accounted(e) => Accounted(e)'
\* An event that is recorded by a step is under way after it.
RecordedAnew == \A e \in Recorded' : e \in Recorded \/ UnderWay(e)'

LEMMA RecordedEvents ==
  ASSUME NEW e
  PROVE  e \in Recorded <=> \/ e \in ostate /\ e # "placed"
                            \/ e = "created" /\ ostate # {}
                            \/ e \in Fact /\ (outbox[e] # NoRow \/ e \in bus)
  BY DEF Recorded

LEMMA RecordedEventsNext ==
  ASSUME NEW e
  PROVE  e \in Recorded' <=> \/ e \in ostate' /\ e # "placed"
                             \/ e = "created" /\ ostate' # {}
                             \/ e \in Fact /\ (outbox'[e] # NoRow \/ e \in bus')
  BY DEF Recorded

\* The owner's steps and the sweep's leave the handlers and the other instance alone.
LEMMA FarSide ==
  ASSUME TypeOK, AppliedFirst, UNCHANGED <<handler, marked, effectVars>>,
         ostate' = {} => bus' = {}
  PROVE  EffectsStay /\ AppliedFirst'
<1>1. Reached' = Reached
  BY DEF Reached, HasEffect, effectVars
<1>2. replicas' = replicas /\ replicas \in Nat
  BY DEF effectVars, TypeOK
<1>3. \A h \in Handler : Found(h)' = Found(h)
  BY <1>2 DEF Found, At
<1> QED BY <1>1, <1>2, <1>3 DEF EffectsStay, AppliedFirst

LEMMA OwnerKeeps ==
  ASSUME TypeOK, AppliedFirst,
         \/ Place \/ CustomerArrives
         \/ \E m \in Move : Transition(m)
         \/ \E f \in Fact \ Witnessed : PayOwn(f)
         \/ \E f \in Witnessed : Witness(f)
         \/ \E e \in Event : Produce(e) \/ LoseBus(e)
  PROVE  AppliedFirst' /\ EffectsStay /\ AccountedStay /\ RecordedAnew
<1>1. UNCHANGED <<handler, marked, effectVars>>
  BY DEF Place, CustomerArrives, Transition, PayOwn, Witness, Produce, LoseBus
<1>2. EffectsStay /\ AppliedFirst'
  <2>1. ostate' = {} => bus' = {}
    BY DEF Place, CustomerArrives, Transition, PayOwn, Witness, Produce, LoseBus, ownerVars,
           AppliedFirst
  <2> QED BY <1>1, <2>1, FarSide
<1>3. UNCHANGED <<handler, copies, dead>>
  BY DEF Place, CustomerArrives, Transition, PayOwn, Witness, Produce, LoseBus, queueVars
<1>4. \A e \in Event : Handled(e)' = Handled(e)
  BY <1>3 DEF Handled, At
<1>5. ASSUME NEW e \in Event,
             e \in bus \/ outbox[e].status \in {"pending", "failed"} \/ e \in lost
      PROVE  e \in bus' \/ outbox'[e].status \in {"pending", "failed"} \/ e \in lost'
  <2>1. CASE Place
    BY <1>5, <2>1 DEF Place, queueVars, AppliedFirst
  <2>2. CASE CustomerArrives \/ \E m \in Move : Transition(m)
    BY <1>5, <2>2 DEF CustomerArrives, Transition, ownerVars, queueVars
  <2>3. CASE \E f \in Fact \ Witnessed : PayOwn(f)
    BY <1>5, <2>3 DEF PayOwn, queueVars
  <2>4. CASE \E f \in Witnessed : Witness(f)
    BY <1>5, <2>4 DEF Witness, ownerVars, TypeOK
  <2>5. CASE \E f \in Event : Produce(f) \/ LoseBus(f)
    BY <1>5, <2>5 DEF Produce, LoseBus, TypeOK
  <2> QED BY <2>1, <2>2, <2>3, <2>4, <2>5
<1>6. AccountedStay
  BY <1>2, <1>3, <1>4, <1>5 DEF AccountedStay, Accounted, UnderWay, EffectsStay
<1>7. ASSUME NEW e \in Recorded', e \notin Recorded PROVE UnderWay(e)'
  <2> USE RecordedEvents, RecordedEventsNext
  <2>1. CASE Place
    BY <1>7, <2>1 DEF Place, queueVars, UnderWay
  <2>2. ASSUME NEW m \in Move, Transition(m) PROVE UnderWay(e)'
    BY <1>7, <2>2 DEF Transition, queueVars, UnderWay
  <2>3. ASSUME NEW f \in Fact \ Witnessed, PayOwn(f) PROVE UnderWay(e)'
    BY <1>7, <2>3 DEF PayOwn, queueVars, UnderWay
  <2>4. ASSUME NEW f \in Witnessed, Witness(f) PROVE UnderWay(e)'
    <3>1. f \in Event /\ outbox'[f].status = "pending" /\ \A g \in Event : g # f => outbox'[g] = outbox[g]
      BY <2>4, SyncAssumption DEF Witness, TypeOK, Event
    <3> QED BY <1>7, <2>4, <3>1 DEF Witness, ownerVars, UnderWay, Event
  <2>5. ASSUME NEW f \in Event, Produce(f) PROVE UnderWay(e)'
    <3>1. outbox'[f].status = "pending" /\ \A g \in Event : g # f => outbox'[g] = outbox[g]
      BY <2>5 DEF Produce, TypeOK
    <3> QED BY <1>7, <2>5, <3>1 DEF Produce, UnderWay, Event
  <2>6. ASSUME NEW f \in Event, LoseBus(f) PROVE UnderWay(e)'
    BY <1>7, <2>6 DEF LoseBus, UnderWay
  <2>7. CASE CustomerArrives
    BY <1>7, <2>7 DEF CustomerArrives, ownerVars, queueVars
  <2> QED BY <2>1, <2>2, <2>3, <2>4, <2>5, <2>6, <2>7
<1> QED BY <1>2, <1>6, <1>7 DEF RecordedAnew

\* The sweep moves an event from its row to the queue, or loses it.
LEMMA SweepKeeps ==
  ASSUME TypeOK, AppliedFirst, NEW e \in Event,
         Publish(e) \/ PublishUnconfirmed(e) \/ PublishFails(e) \/ PublishAgain(e)
  PROVE  AppliedFirst' /\ EffectsStay /\ AccountedStay /\ RecordedAnew
<1>1. UNCHANGED <<handler, marked, effectVars, ostate, bus, dead>>
  BY DEF Publish, PublishUnconfirmed, PublishFails, PublishAgain, ownerVars
<1>2. EffectsStay /\ AppliedFirst'
  BY <1>1, FarSide DEF AppliedFirst
<1>3. outbox[e].status = "pending" /\ \A f \in Event : f # e => outbox'[f] = outbox[f]
  BY DEF Publish, PublishUnconfirmed, PublishFails, PublishAgain, Claimable, TypeOK
<1>4. \A f \in Event : copies[f] <= copies'[f] /\ (f \in lost => f \in lost')
  BY DEF Publish, PublishUnconfirmed, PublishFails, PublishAgain, TypeOK
<1>5. outbox'[e].status \in {"pending", "failed"} \/ copies'[e] > 0 \/ e \in lost'
  BY DEF Publish, PublishUnconfirmed, PublishFails, PublishAgain, Claimable, TypeOK
<1>6. ASSUME NEW f \in Event, Accounted(f) PROVE Accounted(f)'
  <2>1. Handled(f)' = Handled(f) /\ (f \in Reached => f \in Reached')
    BY <1>1, <1>2 DEF Handled, At, EffectsStay
  <2>2. CASE f = e
    BY <1>5, <2>2 DEF Accounted, UnderWay
  <2>3. CASE f # e
    <3>1. copies[f] > 0 => copies'[f] > 0
      BY <1>4 DEF TypeOK, Publish, PublishUnconfirmed, PublishFails, PublishAgain
    <3> QED BY <1>1, <1>3, <1>4, <1>6, <2>1, <2>3, <3>1 DEF Accounted, UnderWay
  <2> QED BY <2>2, <2>3
<1>7. RecordedAnew
  <2>1. outbox[e] # NoRow
    BY <1>3 DEF NoRow
  <2>2. ASSUME NEW f \in Recorded' PROVE f \in Recorded
    BY <1>1, <1>3, <2>1, <2>2, RecordedEvents, RecordedEventsNext DEF Event
  <2> QED BY <2>2 DEF RecordedAnew
<1> QED BY <1>2, <1>6, <1>7 DEF AccountedStay

\* A consumer's steps record nothing.
LEMMA ConsumerRecords ==
  ASSUME UNCHANGED <<ostate, bus, outbox>>
  PROVE  RecordedAnew
  BY DEF RecordedAnew, Recorded

LEMMA DeliverKeeps ==
  ASSUME TypeOK, AppliedFirst, NEW e \in Event, NEW h \in Handler, Deliver(h, e)
  PROVE  AppliedFirst' /\ EffectsStay /\ AccountedStay /\ RecordedAnew
<1>1. /\ UNCHANGED <<ostate, bus, outbox, dead, lost, marked, effectVars>>
      /\ handler' = [handler EXCEPT ![h] = [Idle EXCEPT !.pc = "check", !.event = e]]
      /\ copies' = [copies EXCEPT ![e] = @ - 1] /\ At(h, "idle")
  BY DEF Deliver, ownerVars
<1>2. /\ \A g \in Handler : g # h => handler'[g] = handler[g]
      /\ handler'[h].pc = "check" /\ handler'[h].event = e
  BY <1>1 DEF TypeOK, Idle
<1>3. Reached' = Reached
  BY <1>1 DEF Reached, HasEffect, effectVars
<1>4. AppliedFirst'
  BY <1>1, <1>2, <1>3 DEF AppliedFirst, Found, At, effectVars
<1>5. EffectsStay
  BY <1>1, <1>3 DEF EffectsStay, effectVars, TypeOK
<1>6. ASSUME NEW f \in Event, Accounted(f) PROVE Accounted(f)'
  <2>1. CASE f = e
    BY <1>2, <2>1 DEF Accounted, UnderWay, Handled, At
  <2>2. CASE f # e
    <3>1. Handled(f) => Handled(f)'
      BY <1>1, <1>2 DEF Handled, At
    <3>2. copies'[f] = copies[f]
      BY <1>1, <2>2 DEF TypeOK
    <3> QED BY <1>1, <1>3, <1>6, <3>1, <3>2 DEF Accounted, UnderWay
  <2> QED BY <2>1, <2>2
<1> QED BY <1>1, <1>4, <1>5, <1>6, ConsumerRecords DEF AccountedStay

\* A message given back is in its queue again, or in the dead-letter queue.
LEMMA GiveBackKeeps ==
  ASSUME TypeOK, AppliedFirst, NEW h \in Handler, GiveBack(h)
  PROVE  AppliedFirst' /\ EffectsStay /\ AccountedStay /\ RecordedAnew
<1> DEFINE e == handler[h].event
<1>1. /\ UNCHANGED <<ostate, bus, outbox, lost, marked, effectVars>>
      /\ handler' = [handler EXCEPT ![h] = Idle]
  BY DEF GiveBack, ownerVars
<1>2. /\ \A g \in Handler : g # h => handler'[g] = handler[g]
      /\ handler'[h].pc = "idle" /\ e \in Event
  BY <1>1 DEF TypeOK, Idle
<1>3. Reached' = Reached
  BY <1>1 DEF Reached, HasEffect, effectVars
<1>4. AppliedFirst'
  BY <1>1, <1>2, <1>3 DEF AppliedFirst, Found, At, effectVars
<1>5. EffectsStay
  BY <1>1, <1>3 DEF EffectsStay, effectVars, TypeOK
<1>6. e \in dead' \/ copies'[e] > 0
  BY <1>2 DEF GiveBack, TypeOK
<1>7. \A f \in Event : f \in dead => f \in dead'
  BY DEF GiveBack
<1>8. ASSUME NEW f \in Event, Accounted(f) PROVE Accounted(f)'
  <2>1. CASE f = e
    BY <1>6, <2>1 DEF Accounted, UnderWay
  <2>2. CASE f # e
    <3>1. Handled(f) => Handled(f)'
      BY <1>2, <2>2 DEF Handled, At
    <3>2. copies'[f] = copies[f]
      BY <1>2, <2>2 DEF TypeOK, GiveBack
    <3> QED BY <1>1, <1>3, <1>7, <1>8, <3>1, <3>2 DEF Accounted, UnderWay
  <2> QED BY <2>1, <2>2
<1> QED BY <1>1, <1>4, <1>5, <1>8, ConsumerRecords DEF AccountedStay

\* A handler that goes on keeps its message under way; it may mark or apply it on the way.
LEMMA GoKeeps ==
  ASSUME TypeOK, AppliedFirst, NEW h \in Handler, handler[h].pc # "idle",
         handler'[h].pc # "idle", handler'[h].event = handler[h].event,
         \A g \in Handler : g # h => handler'[g] = handler[g],
         EffectsStay, Found(h)',
         handler'[h].pc \in {"mark", "ack"} => handler'[h].event \in Reached',
         marked' \subseteq Reached',
         UNCHANGED <<ostate, bus, outbox, dead, lost, copies>>
  PROVE  AppliedFirst' /\ AccountedStay /\ RecordedAnew
<1>1. ASSUME NEW f \in Event, Accounted(f) PROVE Accounted(f)'
  <2>1. Handled(f) => Handled(f)'
    BY DEF Handled, At
  <2> QED BY <1>1, <2>1 DEF Accounted, UnderWay, EffectsStay
<1>2. ASSUME NEW g \in Handler, g # h
      PROVE  Found(g)' /\ (handler'[g].pc \in {"mark", "ack"} => handler'[g].event \in Reached')
  <2>1. handler[g].event \in Event /\ handler'[g] = handler[g]
    BY <1>2 DEF TypeOK
  <2>2. replicas > 0 => replicas' > 0
    BY DEF EffectsStay, TypeOK
  <2> QED BY <2>1, <2>2 DEF AppliedFirst, Found, At, EffectsStay
<1>3. ostate' = {} => bus' = {}
  BY DEF AppliedFirst
<1>4. ASSUME NEW g \in Handler
      PROVE  Found(g)' /\ (handler'[g].pc \in {"mark", "ack"} => handler'[g].event \in Reached')
  <2>1. CASE g = h
    BY <2>1 DEF Found, At
  <2> QED BY <1>2, <2>1
<1>5. AppliedFirst'
  BY <1>3, <1>4 DEF AppliedFirst
<1> QED BY <1>1, <1>5, ConsumerRecords DEF AccountedStay

\* What the handlers do: an effect comes before the mark, the mark or an effect before the end.
LEMMA StepKeeps ==
  ASSUME TypeOK, AppliedFirst, NEW h \in Handler, Step(h) \/ Fail(h)
  PROVE  AppliedFirst' /\ EffectsStay /\ AccountedStay /\ RecordedAnew
<1> DEFINE e == handler[h].event
<1>0. e \in Event /\ handler[h] \in Handling /\ replicas \in Nat /\ handler \in [Handler -> Handling]
  BY DEF TypeOK, Handling, Seen
<1>1. CASE MissReplica(h) \/ Fail(h)
  BY <1>1, GiveBackKeeps DEF MissReplica, Fail
<1>2. CASE Check(h)
  <2>1. UNCHANGED <<ostate, bus, outbox, dead, lost, copies, marked, effectVars>>
    BY <1>2 DEF Check, ownerVars, queueVars
  <2>2. Reached' = Reached
    BY <2>1 DEF Reached, HasEffect, effectVars
  <2>3. /\ handler'[h].pc = AfterCheck(e) /\ handler'[h].event = e
        /\ \A g \in Handler : g # h => handler'[g] = handler[g]
    BY <1>0, <1>2 DEF Check, Go, Handling
  <2>4. Found(h)' /\ (handler'[h].pc \in {"mark", "ack"} => handler'[h].event \in Reached')
    BY <2>2, <2>3 DEF Found, At, AfterCheck, AppliedFirst
  <2>5. EffectsStay
    BY <1>0, <2>1, <2>2 DEF EffectsStay, effectVars
  <2>6. handler[h].pc # "idle" /\ handler'[h].pc # "idle"
    BY <1>2, <2>3 DEF Check, At, AfterCheck
  <2>7. marked' \subseteq Reached'
    BY <2>1, <2>2 DEF AppliedFirst
  <2> QED BY ONLY TypeOK, AppliedFirst, h \in Handler, <2>1, <2>3, <2>4, <2>5, <2>6, <2>7, GoKeeps
<1>3. CASE LockReplica(h)
  <2>1. UNCHANGED <<ostate, bus, outbox, dead, lost, copies, marked, effectVars>>
    BY <1>3 DEF LockReplica, ownerVars, queueVars
  <2>2. Reached' = Reached
    BY <2>1 DEF Reached, HasEffect, effectVars
  <2> DEFINE seen == IF replicas > 0 THEN "replica" ELSE IF known THEN "fresh" ELSE "stranger"
  <2>3. /\ handler' = [handler EXCEPT ![h].pc = "locked", ![h].seen = seen]
        /\ seen \in {"replica", "stranger", "fresh"} /\ (seen = "replica" => replicas > 0)
    BY <1>3 DEF LockReplica
  <2>. HIDE DEF seen
  <2>4. /\ handler'[h].pc = "locked" /\ handler'[h].event = e /\ handler'[h].seen = seen
        /\ \A g \in Handler : g # h => handler'[g] = handler[g]
    BY <1>0, <2>3 DEF Handling
  <2>5. e = "created" /\ handler[h].pc # "idle" /\ replicas' = replicas
    BY <1>3, <2>1 DEF LockReplica, At, effectVars
  <2>6. Found(h)'
    BY <2>3, <2>4, <2>5 DEF Found, At
  <2>7. EffectsStay
    BY <1>0, <2>1, <2>2 DEF EffectsStay, effectVars
  <2>8. marked' \subseteq Reached'
    BY <2>1, <2>2 DEF AppliedFirst
  <2> QED BY ONLY TypeOK, AppliedFirst, h \in Handler, <2>1, <2>4, <2>5, <2>6, <2>7, <2>8, GoKeeps
<1>4. CASE CreateReplica(h)
  <2>1. /\ UNCHANGED <<ostate, bus, outbox, dead, lost, copies, marked, shown, paid>>
        /\ handler[h].pc = "locked"
    BY <1>4 DEF CreateReplica, ownerVars, queueVars, At
  <2>2. /\ handler'[h].pc = "mark" /\ handler'[h].event = e
        /\ \A g \in Handler : g # h => handler'[g] = handler[g]
    BY <1>0, <1>4 DEF CreateReplica, Go, Handling
  <2>3. replicas' = (IF handler[h].seen = "fresh" THEN replicas + 1 ELSE replicas)
    BY <1>4, Zenon DEF CreateReplica
  <2>4. /\ rcancelled => rcancelled'
        /\ skipped \/ handler[h].seen = "stranger" => skipped'
    BY <1>4, Zenon DEF CreateReplica
  <2>5. /\ replicas' \in Nat /\ replicas <= replicas'
        /\ handler[h].seen = "fresh" => replicas' > 0
    BY <1>0, <2>3
  <2>6. Reached \subseteq Reached'
    BY <1>0, <2>1, <2>5, <2>4 DEF Reached, HasEffect
  <2>7. e = "created" /\ (replicas' > 0 \/ skipped')
    BY <1>0, <2>1, <2>5, <2>4 DEF AppliedFirst, Found, At
  <2>8. handler'[h].event \in Reached' /\ Found(h)'
    BY <2>2, <2>7 DEF Reached, HasEffect, Event, Found, At
  <2>9. EffectsStay /\ marked' \subseteq Reached'
    BY <2>1, <2>5, <2>6 DEF EffectsStay, AppliedFirst
  <2> QED BY ONLY TypeOK, AppliedFirst, h \in Handler, <2>1, <2>2, <2>8, <2>9, GoKeeps
<1>5. CASE Apply(h)
  <2>1. /\ UNCHANGED <<ostate, bus, outbox, dead, lost, copies, marked, replicas, skipped>>
        /\ handler[h].pc = "apply" /\ Applies(e)
    BY <1>5 DEF Apply, ownerVars, queueVars, At
  <2>2. /\ handler'[h].pc = "mark" /\ handler'[h].event = e
        /\ \A g \in Handler : g # h => handler'[g] = handler[g]
    BY <1>0, <1>5 DEF Apply, Go, Handling
  <2>3. /\ rcancelled => rcancelled'
        /\ shown \subseteq shown' /\ paid \subseteq paid'
    BY <1>5 DEF Apply
  <2>4. Reached \subseteq Reached'
    BY <1>0, <2>1, <2>3 DEF Reached, HasEffect
  <2>5. e # "created" /\ (e \notin Witnessed => replicas' > 0)
    BY <2>1 DEF Applies
  <2>6. e = "Cancelled" /\ replicas > 0 => rcancelled'
    BY <1>5, Zenon DEF Apply
  <2>7. /\ e \in Witnessed => e \in paid'
        /\ e \in Fact \ Witnessed => e \in shown'
    BY <1>5, <2>1 DEF Apply, Applies
  <2>8. HasEffect(e)'
    <3>1. CASE e \in Fact
      <4>1. e \in shown' \cup paid'
        BY <2>7, <3>1
      <4> QED BY <2>2, <4>1 DEF HasEffect
    <3>2. CASE e \in Move
      <4>1. e \notin Witnessed
        BY <3>2, SyncAssumption
      <4> QED BY <2>1, <2>2, <2>5, <2>6, <3>2, <4>1 DEF HasEffect
    <3> QED BY <1>0, <2>5, <3>1, <3>2 DEF Event
  <2>9. handler'[h].event \in Reached' /\ Found(h)'
    BY <1>0, <2>2, <2>8 DEF Found, At, Reached
  <2>10. EffectsStay /\ marked' \subseteq Reached'
    BY <1>0, <2>1, <2>4 DEF EffectsStay, AppliedFirst
  <2> QED BY ONLY TypeOK, AppliedFirst, h \in Handler, <2>1, <2>2, <2>9, <2>10, GoKeeps
<1>6. CASE Mark(h)
  <2>1. /\ UNCHANGED <<ostate, bus, outbox, dead, lost, copies, effectVars>>
        /\ marked' = marked \cup {e} /\ handler[h].pc = "mark"
    BY <1>6 DEF Mark, ownerVars, queueVars, At
  <2>2. Reached' = Reached /\ e \in Reached
    BY <2>1 DEF Reached, HasEffect, effectVars, AppliedFirst
  <2>3. /\ handler'[h].pc = "ack" /\ handler'[h].event = e
        /\ \A g \in Handler : g # h => handler'[g] = handler[g]
    BY <1>0, <1>6 DEF Mark, Go, Handling
  <2>4. Found(h)' /\ handler'[h].event \in Reached' /\ marked' \subseteq Reached'
    BY <2>1, <2>2, <2>3 DEF Found, At, AppliedFirst
  <2>5. EffectsStay
    BY <1>0, <2>1, <2>2 DEF EffectsStay, effectVars
  <2> QED BY ONLY TypeOK, AppliedFirst, h \in Handler, <2>1, <2>3, <2>4, <2>5, GoKeeps
<1>7. CASE Ack(h)
  <2>1. UNCHANGED <<ostate, bus, outbox, dead, lost, copies, marked, effectVars>>
    BY <1>7 DEF Ack, ownerVars, queueVars
  <2>2. Reached' = Reached /\ e \in Reached
    BY <1>7, <2>1 DEF Reached, HasEffect, effectVars, AppliedFirst, Ack, At
  <2>3. handler'[h].pc = "idle" /\ \A g \in Handler : g # h => handler'[g] = handler[g]
    BY <1>0, <1>7 DEF Ack, Idle
  <2>4. AppliedFirst'
    BY <2>1, <2>2, <2>3 DEF AppliedFirst, Found, At, effectVars
  <2>5. ASSUME NEW f \in Event, Accounted(f) PROVE Accounted(f)'
    <3>1. f # e => (Handled(f) => Handled(f)')
      BY <2>3 DEF Handled, At
    <3> QED BY <2>1, <2>2, <2>5, <3>1 DEF Accounted, UnderWay
  <2> QED BY <1>0, <2>1, <2>2, <2>4, <2>5, ConsumerRecords DEF AccountedStay, EffectsStay, effectVars
<1> QED BY <1>1, <1>2, <1>3, <1>4, <1>5, <1>6, <1>7 DEF Step

\* A consumer that stops gives every message it had back to its queue.
LEMMA CrashKeeps ==
  ASSUME TypeOK, AppliedFirst, NEW side \in SUBSET Handler, Crash(side)
  PROVE  AppliedFirst' /\ EffectsStay /\ AccountedStay /\ RecordedAnew
<1> DEFINE open(e) == {h \in side : ~At(h, "idle") /\ handler[h].event = e}
<1>1. UNCHANGED <<ostate, bus, outbox, dead, lost, marked, effectVars>>
  BY DEF Crash, ownerVars
<1>2. Reached' = Reached
  BY <1>1 DEF Reached, HasEffect, effectVars
<1>3. \A g \in Handler : handler'[g] = IF g \in side THEN Idle ELSE handler[g]
  BY DEF Crash
<1>4. AppliedFirst'
  BY <1>1, <1>2, <1>3 DEF AppliedFirst, Found, At, Idle, effectVars
<1>5. EffectsStay
  BY <1>1, <1>2 DEF EffectsStay, effectVars, TypeOK
<1>6. ASSUME NEW f \in Event PROVE IsFiniteSet(open(f)) /\ Cardinality(open(f)) \in Nat
  BY SyncAssumption, FS_Subset, FS_CardinalityType
<1>7. ASSUME NEW f \in Event, Accounted(f) PROVE Accounted(f)'
  <2>1. copies'[f] = copies[f] + Cardinality(open(f)) /\ copies[f] \in Nat
    BY DEF Crash, TypeOK
  <2>2. open(f) # {} => Cardinality(open(f)) > 0
    <3>. HIDE DEF open
    <3> QED BY <1>6, FS_EmptySet
  <2>3. open(f) = {} => (Handled(f) => Handled(f)')
    BY <1>3 DEF Handled, At
  <2>4. copies'[f] > 0 \/ (copies'[f] = copies[f] /\ (Handled(f) => Handled(f)'))
    <3>1. CASE open(f) = {}
      BY <2>1, <2>3, <3>1, FS_EmptySet
    <3>2. CASE open(f) # {}
      BY <1>6, <2>1, <2>2, <3>2
    <3> QED BY <3>1, <3>2
  <2> QED BY <1>1, <1>2, <1>7, <2>1, <2>4 DEF Accounted, UnderWay
<1> QED BY <1>1, <1>4, <1>5, <1>7, ConsumerRecords DEF AccountedStay

LEMMA NextKeeps ==
  ASSUME TypeOK, AppliedFirst, [Next]_vars
  PROVE  AppliedFirst' /\ EffectsStay /\ AccountedStay /\ RecordedAnew
<1>1. CASE \E e \in Event : Publish(e) \/ PublishUnconfirmed(e) \/ PublishFails(e) \/ PublishAgain(e)
  BY <1>1, SweepKeeps
<1>2. CASE \E e \in Event, h \in Handler : Deliver(h, e)
  BY <1>2, DeliverKeeps
<1>3. CASE \E h \in Handler : Step(h) \/ Fail(h)
  BY <1>3, StepKeeps
<1>4. CASE Crash(OwnerHandler) \/ Crash(ReplicaHandler)
  BY <1>4, CrashKeeps DEF Handler
<1>5. CASE UNCHANGED vars
  <2>1. EffectsStay /\ AppliedFirst'
    BY <1>5, FarSide DEF vars, effectVars, AppliedFirst
  <2>2. AccountedStay
    BY <1>5 DEF vars, AccountedStay, Accounted, UnderWay, Handled, At, Reached, HasEffect
  <2> QED BY <1>5, <2>1, <2>2, ConsumerRecords DEF vars
<1> QED BY <1>1, <1>2, <1>3, <1>4, <1>5, OwnerKeeps DEF Next

\* An event recorded for the order is under way, kept for an operator, or has reached the other
\* instance, whatever fails, overtakes or crashes: the only ones to vanish are named in `lost`.
THEOREM NoEventDropped == Spec => []NothingDropped
<1> DEFINE Kept == \A e \in Recorded : Accounted(e)
<1>1. TypeOK => Recorded \subseteq Event
  BY RecordedEvents DEF TypeOK, Event
<1>2. TypeOK => (Kept <=> NothingDropped)
  BY <1>1 DEF NothingDropped, Accounted, Reached
<1>3. Init => AppliedFirst /\ NothingDropped
  <2> SUFFICES ASSUME Init PROVE AppliedFirst /\ NothingDropped
    OBVIOUS
  <2>1. AppliedFirst
    BY DEF Init, AppliedFirst, Found, At, Idle
  <2>2. Recorded = {}
    BY RecordedEvents DEF Init, Event
  <2> QED BY <2>1, <2>2 DEF NothingDropped
<1>4. TypeOK /\ TypeOK' /\ AppliedFirst /\ NothingDropped /\ [Next]_vars
        => AppliedFirst' /\ NothingDropped'
  <2> SUFFICES ASSUME TypeOK, TypeOK', AppliedFirst, NothingDropped, [Next]_vars
               PROVE  AppliedFirst' /\ NothingDropped'
    OBVIOUS
  <2>1. AppliedFirst' /\ AccountedStay /\ RecordedAnew
    BY NextKeeps
  <2>2. ASSUME NEW e \in Recorded' PROVE UnderWay(e)' \/ e \in Reached' \/ e \in lost'
    <3>1. CASE e \in Recorded
      BY <1>1, <1>2, <2>1, <3>1 DEF AccountedStay, Accounted
    <3>2. CASE e \notin Recorded
      BY <2>1, <2>2, <3>2 DEF RecordedAnew
    <3> QED BY <3>1, <3>2
  <2> QED BY <2>1, <2>2 DEF NothingDropped, Reached
<1> QED BY <1>3, <1>4, SyncTyped, PTL DEF Spec

=============================================================================
