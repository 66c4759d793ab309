------------------------------- MODULE Stock -------------------------------
(***************************************************************************)
(* The stock a reservation holds (reservation/src): reserveOrder locks the *)
(* stock levels, picks one location per line and inserts the rows; rows    *)
(* are released, expired, extended, and handed over to the ERP in whole or *)
(* in part when it reports what it holds itself.                           *)
(*                                                                         *)
(* Rows of one line, cycle and status are one record of quantities: a row  *)
(* split by a partial hand-over moves quantity from "active" to "handed".  *)
(* A cycle is one successful reservation of an order; the code has no such *)
(* number, it has a generation per line and location.                      *)
(*                                                                         *)
(* Left out: what is sent to the ERP (module Submission), prepaid rows and *)
(* notifications, edits of a line's quantity, the check of an order's data *)
(* (it fails a reservation the way a shortfall does).                      *)
(***************************************************************************)
EXTENDS Integers, FiniteSets, FiniteSetsExt

CONSTANTS
    Order, Variant,
    Registered,     \* the orders the ERP sends events of
    Location,       \* the stock locations of the branch, in the order they are tried
    Line,           \* the ids of all order lines: an order's lines are taken in this order
    OrderOf, VariantOf, Wanted,     \* of a line
    LevelId,        \* of the stock level of a variant at a location
    Report,         \* what the stock stream reports of a level: [free, cap]
    FirstLevel,     \* the level of every variant and location at first
    MaxCycle,       \* bound, by order: its reservations
    MaxReports,     \* bound: reports of the stock stream
    Sayings,        \* what events of the ERP report: a quantity per variant, or None
    MaxEvents,      \* bound: events of the ERP
    None

ASSUME StockAssumption ==
    /\ Location \subseteq Nat /\ Line \subseteq Nat /\ IsFiniteSet(Line)
    /\ Location # {} /\ IsFiniteSet(Location) /\ IsFiniteSet(Variant)
    /\ Registered \subseteq Order
    /\ OrderOf \in [Line -> Order] /\ VariantOf \in [Line -> Variant]
    /\ Wanted \in [Line -> Nat \ {0}]
    /\ \A o \in Order : \E i \in Line : OrderOf[i] = o
    /\ LevelId \in [Variant \X Location -> Nat] /\ \A s, t \in DOMAIN LevelId : LevelId[s] = LevelId[t] => s = t
    /\ MaxCycle \in [Order -> Nat \ {0}] /\ MaxReports \in Nat /\ MaxEvents \in Nat
    /\ Report \cup {FirstLevel} \subseteq [free: Int, cap: Int \cup {None}]
    /\ None \notin Int /\ Sayings \subseteq [Variant -> Nat \cup {None}]

VARIABLES
    level,      \* StockLevel: free = on hand less Vendure's allocations; cap = the ERP's available
    rows,       \* Reservation, by line and cycle
    cycle,      \* how often the order was reserved
    rstate,     \* Order.customFields.reservationState
    cancelled,  \* orders in state Cancelled
    due,        \* orders whose active rows a sweep found past their deadline
    swept,      \* the cycle whose rows a sweep took, before it returns them to the queue
    failing,    \* orders whose reservation failed and is not marked so yet
    job,        \* the reservation under way for an order; it holds the order's lock
    erp,        \* ErpOrderReserve per variant, and whether a warehouse order exists
    reports, events     \* how many there were, or will not come

vars == <<level, rows, cycle, rstate, cancelled, due, swept, failing, job, erp,
          reports, events>>

Cycle == UNION {1..MaxCycle[o] : o \in Order}
Slot == Variant \X Location
LinesOf(o) == {i \in Line : OrderOf[i] = o}
VariantsOf(o) == {VariantOf[i] : i \in LinesOf(o)}

NoRow == [loc |-> None, gen |-> 0, active |-> 0, handed |-> 0]
Row == [loc: Location \cup {None}, gen: {0} \cup Cycle, active: Nat, handed: Nat]

Idle == [pc |-> "idle", locks |-> {}, plan |-> <<>>]
Plan(o) == [LinesOf(o) -> Location \cup {None}]

\* Every variable keeps its type, a generation never passes the number of reservations; a job holds only locks of its own order's levels.
TypeOK ==
    /\ level \in [Slot -> Report \cup {FirstLevel}]
    /\ rows \in [Line -> [Cycle -> Row]] /\ \A i \in Line, c \in Cycle : rows[i][c].gen <= c
    /\ cycle \in [Order -> {0} \cup Cycle]
    /\ rstate \in [Order -> {"NONE", "AWAITING", "RESERVED", "RELEASED", "FAILED"}]
    /\ cancelled \subseteq Order /\ due \subseteq Order /\ failing \subseteq Order
    /\ swept \in [Order -> {0} \cup Cycle]
    /\ job \in [Order -> [pc: {"idle", "locking", "picked"}, locks: SUBSET Slot,
                         plan: {<<>>} \cup UNION {Plan(o) : o \in Order}]]
    /\ \A o \in Order :
        /\ job[o].locks \subseteq VariantsOf(o) \X Location
        /\ job[o].pc = "picked" => job[o].plan \in Plan(o)
    /\ erp \in [Order -> [held: [Variant -> Nat \cup {None}], started: BOOLEAN]]
    /\ reports \in 0..MaxReports /\ events \in 0..MaxEvents

\* An order may be cancelled before it is ever reserved; fewer events than the bound may come.
Init ==
    /\ level = [s \in Slot |-> FirstLevel]
    /\ rows = [i \in Line |-> [c \in Cycle |-> NoRow]]
    /\ cycle = [o \in Order |-> 0] /\ rstate = [o \in Order |-> "NONE"]
    /\ cancelled \in SUBSET Order /\ due = {} /\ failing = {}
    /\ swept = [o \in Order |-> 0]
    /\ job = [o \in Order |-> Idle]
    /\ erp = [o \in Order |-> [held |-> [v \in Variant |-> None], started |-> FALSE]]
    /\ reports = 0 /\ events \in 0..MaxEvents

-----------------------------------------------------------------------------
(* Quantities *)

Smaller(a, b) == IF a < b THEN a ELSE b
AtLeast0(n) == IF n < 0 THEN 0 ELSE n

Total(quantity, S) == MapThenSumSet(LAMBDA x : quantity[x], S)

Keys == Line \X Cycle
RowAt(k) == rows[k[1]][k[2]]
Active == [k \in Keys |-> RowAt(k).active]
HandedOn == [k \in Keys |-> RowAt(k).handed]

\* What active rows hold of a variant at a location.
Reserved(v, l) == Total(Active, {k \in Keys : VariantOf[k[1]] = v /\ RowAt(k).loc = l})

\* freeQuantity: one location's free quantity, capped by what the ERP has available.
Free(s, reserved) ==
    AtLeast0(IF s.cap = None THEN s.free - reserved ELSE Smaller(s.free - reserved, s.cap))

HasActive(o) == \E i \in LinesOf(o), c \in Cycle : rows[i][c].active > 0

-----------------------------------------------------------------------------
(* Reserving *)

OrderFree(o) == job[o].pc = "idle"

EligibleAgain(o) == o \notin cancelled
\* The rows found active are answered as they are; a cancelled order is refused.
Eligible(o) == ~HasActive(o) /\ o \notin cancelled

BeginReserve(o) ==
    /\ OrderFree(o) /\ Eligible(o)
    /\ cycle[o] < MaxCycle[o]
    /\ job' = [job EXCEPT ![o] = [Idle EXCEPT !.pc = "locking"]]
    /\ UNCHANGED <<level, rows, cycle, rstate, cancelled, due, swept, failing, erp, reports, events>>

\* A finding holds the order back for a staff confirmation.
HoldOrder(o) ==
    /\ OrderFree(o) /\ Eligible(o)
    /\ rstate' = [rstate EXCEPT ![o] = "AWAITING"]
    /\ UNCHANGED <<level, rows, cycle, cancelled, due, swept, failing, job, erp, reports, events>>

SlotFreeAlways(s) == TRUE
SlotFree(s) == \A o \in Order : s \notin job[o].locks

Missing(o) == (VariantsOf(o) \X Location) \ job[o].locks

\* In the order of the lines instead.
NextLevelByLine(o, s) ==
    \E i \in LinesOf(o) :
        /\ VariantOf[i] = s[1]
        /\ \A j \in LinesOf(o) : j < i => \A l \in Location : <<VariantOf[j], l>> \notin Missing(o)
        /\ \A l \in Location : l < s[2] => <<s[1], l>> \notin Missing(o)
\* lockStockLevelsInOrder: the next level a job locks.
NextLevel(o, s) == \A t \in Missing(o) : LevelId[s] <= LevelId[t]

LockLevel(o) == \E s \in Missing(o) :
    /\ job[o].pc = "locking" /\ NextLevel(o, s) /\ SlotFree(s)
    /\ job' = [job EXCEPT ![o].locks = @ \cup {s}]
    /\ UNCHANGED <<level, rows, cycle, rstate, cancelled, due, swept, failing, erp, reports, events>>

\* What the lines before line i of its order and variant take at location l (`held`).
TakenBefore(plan, i, l) ==
    Total(Wanted, {j \in DOMAIN plan : j < i /\ VariantOf[j] = VariantOf[i] /\ plan[j] = l})

\* pickLocationWithMostFreeStock for every line in turn: the first of the locations with the
\* most free stock, or a shortfall.
Picked(plan) ==
    \A i \in DOMAIN plan :
        LET free == [l \in Location |->
                        LET v == VariantOf[i] IN
                        Free(level[<<v, l>>], Reserved(v, l) + TakenBefore(plan, i, l))]
            best == CHOOSE l \in Location :
                        \A k \in Location : free[k] < free[l] \/ (free[k] = free[l] /\ l <= k)
        IN  plan[i] = IF free[best] < Wanted[i] THEN None ELSE best

Pick(o) ==
    /\ job[o].pc = "locking" /\ Missing(o) = {}
    /\ \E plan \in Plan(o) :
        /\ Picked(plan)
        /\ job' = [job EXCEPT ![o].pc = "picked", ![o].plan = plan]
    /\ UNCHANGED <<level, rows, cycle, rstate, cancelled, due, swept, failing, erp, reports, events>>

NextGenerationTwice(i, l) ==
    Max({0} \cup {rows[i][c].gen : c \in {d \in Cycle : rows[i][d].loc = l}}) + 2
\* nextGeneration: one more than the line has had at that location.
NextGeneration(i, l) ==
    Max({0} \cup {rows[i][c].gen : c \in {d \in Cycle : rows[i][d].loc = l}}) + 1

\* All lines found stock: the rows are inserted and the order is RESERVED.
Commit(o) ==
    LET plan == job[o].plan IN
    /\ job[o].pc = "picked" /\ \A i \in DOMAIN plan : plan[i] # None
    /\ rows' = [i \in Line |->
          IF i \notin DOMAIN plan THEN rows[i]
          ELSE [rows[i] EXCEPT ![cycle[o] + 1] =
                  [loc |-> plan[i], gen |-> NextGeneration(i, plan[i]),
                   active |-> Wanted[i], handed |-> 0]]]
    /\ cycle' = [cycle EXCEPT ![o] = @ + 1]
    /\ rstate' = [rstate EXCEPT ![o] = "RESERVED"]
    /\ due' = due \ {o}
    /\ job' = [job EXCEPT ![o] = Idle]
    /\ UNCHANGED <<level, cancelled, swept, failing, erp, reports, events>>

\* A line found too little: nothing is kept, and the order is to be marked FAILED.
Shortfall(o) ==
    /\ job[o].pc = "picked" /\ \E i \in DOMAIN job[o].plan : job[o].plan[i] = None
    /\ job' = [job EXCEPT ![o] = Idle]
    /\ failing' = failing \cup {o}
    /\ UNCHANGED <<level, rows, cycle, rstate, cancelled, due, swept, erp, reports, events>>

\* The transaction fails or its process dies.
Abort(o) ==
    /\ job[o].pc # "idle"
    /\ job' = [job EXCEPT ![o] = Idle]
    /\ UNCHANGED <<level, rows, cycle, rstate, cancelled, due, swept, failing, erp, reports, events>>

MarksFailedAlways(o) == TRUE
\* A reservation that succeeded meanwhile is not marked as failed.
MarksFailed(o) == ~HasActive(o)

MarkFailed(o) ==
    /\ o \in failing /\ OrderFree(o)
    /\ failing' = failing \ {o}
    /\ rstate' = [rstate EXCEPT ![o] = IF MarksFailed(o) THEN "FAILED" ELSE @]
    /\ UNCHANGED <<level, rows, cycle, cancelled, due, swept, job, erp, reports, events>>

-----------------------------------------------------------------------------
(* Releasing, expiry, extension *)

ReleasedRows(o) ==
    [i \in Line |-> IF OrderOf[i] # o THEN rows[i]
                    ELSE [c \in Cycle |-> [rows[i][c] EXCEPT !.active = 0]]]

\* releaseReservations and releaseUnderLocks.
Release(o) ==
    /\ OrderFree(o) /\ HasActive(o)
    /\ rows' = ReleasedRows(o)
    /\ rstate' = [rstate EXCEPT ![o] = "RELEASED"]
    /\ due' = due \ {o}
    /\ UNCHANGED <<level, cycle, cancelled, swept, failing, job, erp, reports, events>>

\* Any path into Cancelled releases in its transaction.
CancelOrder(o) ==
    /\ OrderFree(o) /\ o \notin cancelled
    /\ cancelled' = cancelled \cup {o}
    /\ rows' = ReleasedRows(o)
    /\ rstate' = [rstate EXCEPT ![o] = IF HasActive(o) THEN "RELEASED" ELSE @]
    /\ due' = due \ {o}
    /\ UNCHANGED <<level, cycle, swept, failing, job, erp, reports, events>>

Extend(o) ==
    /\ OrderFree(o) /\ HasActive(o) /\ o \in due
    /\ due' = due \ {o}
    /\ UNCHANGED <<level, rows, cycle, rstate, cancelled, swept, failing, job, erp, reports, events>>

\* A sweep found the rows past their deadline and the cancel of their order was refused.
Sweep(o) ==
    /\ HasActive(o) /\ OrderFree(o) /\ swept[o] = 0
    /\ swept' = [swept EXCEPT ![o] = cycle[o]]
    /\ due' = due \cup {o}
    /\ UNCHANGED <<level, rows, cycle, rstate, cancelled, failing, job, erp, reports, events>>

\* Only rows that are still active and still due expire.
Expires(o, c) == o \in due /\ c = cycle[o]

\* returnToConfirmationQueue: without the order's lock.
ReturnToQueue(o) ==
    LET c == swept[o]
        expired == IF Expires(o, c)
                   THEN [i \in Line |-> IF OrderOf[i] = o
                                        THEN [rows[i] EXCEPT ![c].active = 0] ELSE rows[i]]
                   ELSE rows
    IN
    /\ c # 0
    /\ rows' = expired
    /\ rstate' = [rstate EXCEPT ![o] = IF @ = "RESERVED" THEN "AWAITING" ELSE @]
    /\ due' = IF Expires(o, c) THEN due \ {o} ELSE due
    /\ swept' = [swept EXCEPT ![o] = 0]
    /\ UNCHANGED <<level, cycle, cancelled, failing, job, erp, reports, events>>

-----------------------------------------------------------------------------
(* The stock stream and the ERP's events of an order *)

\* The stock stream's update of a level waits for its row lock.
ReportStock(s, r) ==
    /\ reports < MaxReports /\ SlotFree(s) /\ level[s] # r
    /\ level' = [level EXCEPT ![s] = r]
    /\ reports' = reports + 1
    /\ UNCHANGED <<rows, cycle, rstate, cancelled, due, swept, failing, job, erp, events>>

KeysOf(o) == {<<i, c>> : i \in LinesOf(o), c \in Cycle}
ActiveKeys(o) == {k \in KeysOf(o) : RowAt(k).active > 0}

NothingHanded(o, v) == 0
\* What was handed over of a variant in the current generation: that of the active rows.
AlreadyHanded(o, v) ==
    LET current == Max({RowAt(k).gen : k \in ActiveKeys(o)})
    IN  Total(HandedOn, {k \in KeysOf(o) : VariantOf[k[1]] = v /\ RowAt(k).gen = current})

LocalQuantity(o, v) == Total(Active, {k \in KeysOf(o) : VariantOf[k[1]] = v})

\* How much of a variant's local reserve the ERP's quantity q covers.
CoveredPart(o, v, q, warehouse) ==
    IF (warehouse /\ q = 0) \/ q >= LocalQuantity(o, v) + AlreadyHanded(o, v)
    THEN LocalQuantity(o, v)
    ELSE AtLeast0(q - AlreadyHanded(o, v))

\* Rows are taken whole as long as the covered part lasts, the last one in part.
Handovers(o, said, warehouse) ==
    {t \in [ActiveKeys(o) -> UNION {0..RowAt(k).active : k \in ActiveKeys(o)}] :
        /\ \A k \in ActiveKeys(o) : t[k] <= RowAt(k).active
        /\ \A v \in {VariantOf[k[1]] : k \in ActiveKeys(o)} :
            LET keys == {k \in ActiveKeys(o) : VariantOf[k[1]] = v} IN
            /\ Total(t, keys) =
                 IF said[v] = None THEN 0 ELSE CoveredPart(o, v, said[v], warehouse)
            /\ Cardinality({k \in keys : t[k] \notin {0, RowAt(k).active}}) <= 1}

\* ErpOrderReserve.record: variants no longer reported are dropped unless a line was discarded.
Recorded(o, said, discarded) ==
    IF \A v \in Variant : said[v] = None THEN erp[o].held
    ELSE [v \in Variant |-> IF said[v] = None /\ discarded THEN erp[o].held[v] ELSE said[v]]

\* releaseMatchingReservations.
HandOver(o, said, warehouse) ==
    \E t \in Handovers(o, said, warehouse) :
        LET Taken(i, c) == IF <<i, c>> \in DOMAIN t THEN t[<<i, c>>] ELSE 0
            after == [i \in Line |-> [c \in Cycle |->
                        [rows[i][c] EXCEPT !.active = @ - Taken(i, c), !.handed = @ + Taken(i, c)]]]
            closed == /\ \E k \in DOMAIN t : t[k] > 0
                      /\ \A k \in DOMAIN t : t[k] = RowAt(k).active
        IN
        /\ rows' = after
        /\ rstate' = [rstate EXCEPT ![o] = IF closed THEN "RELEASED" ELSE @]
        /\ due' = IF closed THEN due \ {o} ELSE due

\* A registration result says nothing of a warehouse order.
RegistrationResult(o, said, discarded) ==
    /\ OrderFree(o) /\ events < MaxEvents
    /\ events' = events + 1
    /\ erp' = [erp EXCEPT ![o].held = Recorded(o, said, discarded)]
    /\ HandOver(o, said, FALSE)
    /\ UNCHANGED <<level, cycle, cancelled, swept, failing, job, reports>>

OrderChanged(o, said, discarded, warehouse) ==
    /\ OrderFree(o) /\ events < MaxEvents
    /\ events' = events + 1
    /\ erp' = [erp EXCEPT ![o] = [held |-> Recorded(o, said, discarded), started |-> warehouse]]
    /\ HandOver(o, said, warehouse)
    /\ UNCHANGED <<level, cycle, cancelled, swept, failing, job, reports>>

-----------------------------------------------------------------------------
Next ==
    \/ \E o \in Order :
        \/ BeginReserve(o) \/ HoldOrder(o) \/ LockLevel(o) \/ Pick(o)
        \/ Commit(o) \/ Shortfall(o) \/ Abort(o) \/ MarkFailed(o)
        \/ Release(o) \/ CancelOrder(o) \/ Extend(o)
        \/ Sweep(o) \/ ReturnToQueue(o)
    \/ \E o \in Registered :
        \E said \in Sayings, discarded \in BOOLEAN :
            \/ RegistrationResult(o, said, discarded)
            \/ \E warehouse \in BOOLEAN : OrderChanged(o, said, discarded, warehouse)
    \/ \E s \in Slot, r \in Report : ReportStock(s, r)

Spec == Init /\ [][Next]_vars

-----------------------------------------------------------------------------
(* Properties *)

\* Two orders never hold more of a variant at a location than was free there when the later of
\* them was reserved: what active rows hold grows only within the free stock (lockStockLevelsInOrder
\* and `held` in allocateReservationRows).
NeverOversold ==
    [][rows' # rows => \A v \in Variant, l \in Location :
          Reserved(v, l)' > Reserved(v, l) => Reserved(v, l)' <= level[<<v, l>>].free]_vars

\* The order's reservationState tells of its rows what the manager relies on: RESERVED has active
\* rows, RELEASED and FAILED have none, whatever reservations, failures, sweeps and hand-overs met.
StateFollowsRows ==
    \A o \in Order :
        /\ rstate[o] = "RESERVED" => HasActive(o)
        /\ rstate[o] \in {"RELEASED", "FAILED"} => ~HasActive(o)

\* The active rows of an order are of one reservation, and a cancelled order has none, although
\* reservations, repeats and a late sweep may be under way when it is reserved or cancelled.
OneReservationHolds ==
    /\ \A o \in cancelled : ~HasActive(o)
    /\ \A i, k \in Line, c, d \in Cycle :
         OrderOf[i] = OrderOf[k] /\ rows[i][c].active > 0 /\ rows[k][d].active > 0 => c = d

WaitsFor(o, p) ==
    /\ job[o].pc = "locking"
    /\ \E s \in Missing(o) : NextLevel(o, s) /\ s \in job[p].locks

\* Two reservations never wait for each other's stock levels, whatever the order of their lines.
NoMutualWait == ~\E o, p \in Order : WaitsFor(o, p) /\ WaitsFor(p, o)

Handed(o, v, c) == Total(HandedOn, {k \in KeysOf(o) : VariantOf[k[1]] = v /\ k[2] = c})

\* Does the step hand over more of the current reservation than the ERP holds?
HandsTooMuch(o, v) ==
    /\ cycle[o] # 0
    /\ Handed(o, v, cycle[o])' > Handed(o, v, cycle[o])
    /\ ~\/ erp'[o].held[v] # None /\ Handed(o, v, cycle[o])' <= erp'[o].held[v]
        \/ erp'[o].held[v] = 0 /\ erp'[o].started

\* Do the generations of an order tell its current reservation from the earlier ones?
Regular(o) ==
    \A i, k \in LinesOf(o), c \in Cycle :
        cycle[o] # 0 => (rows[i][c].gen = rows[k][cycle[o]].gen <=> c = cycle[o])

\* The local reserve is handed over only for what the ERP holds (docs/order-flow.md), or when a
\* warehouse order has taken it over: events repeated or falling back never hand over more.  It
\* holds wherever generations tell the reservations of an order apart: not where a line was
\* reserved again at another location, whose generations begin anew.
HandedOnlyHeld ==
    [][rows' # rows => \A o \in Registered, v \in Variant : Regular(o) => ~HandsTooMuch(o, v)]_vars

=============================================================================
