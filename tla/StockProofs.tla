----------------------------- MODULE StockProofs -----------------------------
(***************************************************************************)
(* Proofs about Stock, for any orders, lines, levels and numbers of        *)
(* reservations: types, the order in which stock levels are locked, the    *)
(* state an order shows, that its active rows are of one reservation, that *)
(* nothing is sold twice, and what is handed over to the ERP.              *)
(***************************************************************************)
EXTENDS Stock, Sums

-----------------------------------------------------------------------------
(* The largest of some numbers; reservations and rows *)

LEMMA LargestOf ==
  ASSUME NEW n \in Nat, NEW S \in SUBSET (0..n), S # {}
  PROVE  Max(S) \in S /\ \A x \in S : x <= Max(S)
<1> DEFINE T == {n - x : x \in S}
<1>1. T \subseteq Nat /\ T # {}
  <2>1. \A x \in S : n - x \in Nat
    OBVIOUS
  <2> QED BY <2>1
<1> DEFINE R == OpToRel(<, Nat)
<1>2. IsWellFoundedOn(R, Nat)
  BY NatLessThanWellFounded
<1> HIDE DEF R
<1>3. PICK t \in T : \A u \in T : <<u, t>> \notin R
  <2> HIDE DEF T
  <2> QED BY <1>1, <1>2, WFMin
<1>4. PICK m \in S : t = n - m
  OBVIOUS
<1>5. \A x \in S : m >= x
  <2> SUFFICES ASSUME NEW x \in S, x > m PROVE FALSE
    OBVIOUS
  <2>1. n - x \in T /\ n - x \in Nat /\ t \in Nat /\ n - x < t
    BY <1>4
  <2>2. <<n - x, t>> \in R
    BY <2>1 DEF R, OpToRel
  <2> QED BY <1>3, <2>1, <2>2
<1> QED BY <1>5 DEF Max

LEMMA Cycles ==
  /\ \A c \in Cycle : c \in Nat /\ c >= 1
  /\ \A o \in Order, n \in Nat : n < MaxCycle[o] => n + 1 \in Cycle
<1>1. \A o \in Order : MaxCycle[o] \in Nat
  BY StockAssumption DEF StockAssumption
<1>2. ASSUME NEW o \in Order, NEW n \in Nat, n < MaxCycle[o] PROVE n + 1 \in Cycle
  <2>1. n + 1 \in 1..MaxCycle[o]
    BY <1>1, <1>2
  <2> QED BY <2>1 DEF Cycle
<1>3. ASSUME NEW c \in Cycle PROVE c \in Nat /\ c >= 1
  <2>1. PICK o \in Order : c \in 1..MaxCycle[o]
    BY DEF Cycle
  <2> QED BY <1>1, <2>1
<1> QED BY <1>2, <1>3

Rows == [Line -> [Cycle -> Row]]
Jobs == [Order -> [pc: {"idle", "locking", "picked"}, locks: SUBSET Slot,
                   plan: {<<>>} \cup UNION {Plan(o) : o \in Order}]]

\* A reservation under way has a cycle to come, and cycles to come have no generation yet.
InTime == \A o \in Order : job[o].pc # "idle" => cycle[o] < MaxCycle[o]
Unused == \A i \in Line, c \in Cycle : cycle[OrderOf[i]] < c => rows[i][c].gen = 0

TypeInv == TypeOK /\ InTime /\ Unused

\* The rows keep their places and generations, and hold no more than they did.
Kept ==
    /\ rows' \in Rows
    /\ \A i \in Line, c \in Cycle :
        /\ rows'[i][c].gen = rows[i][c].gen /\ rows'[i][c].loc = rows[i][c].loc
        /\ rows'[i][c].active <= rows[i][c].active

\* Nothing is handed over.
NoneHanded == \A i \in Line, c \in Cycle : rows'[i][c].handed = rows[i][c].handed

\* A row that is ended, and one of which n is handed over.
Ended(r) == [r EXCEPT !.active = 0]
HandedOver(r, n) == [r EXCEPT !.active = @ - n, !.handed = @ + n]

LEMMA EndedRow ==
  ASSUME NEW r \in Row
  PROVE  /\ r.active \in Nat /\ Ended(r) \in Row /\ Ended(r).active = 0
         /\ Ended(r).gen = r.gen /\ Ended(r).loc = r.loc /\ Ended(r).handed = r.handed
  BY DEF Row, Ended

LEMMA HandedOverRow ==
  ASSUME NEW r \in Row, NEW n \in Nat, n <= r.active
  PROVE  /\ HandedOver(r, n) \in Row
         /\ HandedOver(r, n).gen = r.gen /\ HandedOver(r, n).loc = r.loc
         /\ HandedOver(r, n).handed = r.handed + n
         /\ HandedOver(r, n).active = r.active - n /\ HandedOver(r, n).active <= r.active
<1>1. r.active \in Nat /\ r.handed \in Nat
  BY DEF Row
<1>2. r.active - n \in Nat /\ r.active - n <= r.active /\ r.handed + n \in Nat
  BY <1>1
<1>3. /\ HandedOver(r, n).active = r.active - n /\ HandedOver(r, n).gen = r.gen
      /\ HandedOver(r, n).loc = r.loc /\ HandedOver(r, n).handed = r.handed + n
  BY DEF HandedOver, Row
<1>4. HandedOver(r, n) \in Row
  BY <1>2 DEF HandedOver, Row
<1> QED BY <1>2, <1>3, <1>4

LEMMA SameKept ==
  ASSUME TypeOK, rows' = rows
  PROVE  Kept /\ NoneHanded
  BY DEF TypeOK, Kept, NoneHanded, Rows, Row

LEMMA ReleasedKept ==
  ASSUME TypeOK, NEW o \in Order, rows' = ReleasedRows(o)
  PROVE  /\ Kept /\ NoneHanded
         /\ \A i \in LinesOf(o), c \in Cycle : rows'[i][c].active = 0
<1>1. rows \in Rows
  BY DEF TypeOK, Rows
<1>2. \A i \in Line : rows'[i] = IF OrderOf[i] # o THEN rows[i]
                                 ELSE [c \in Cycle |-> [rows[i][c] EXCEPT !.active = 0]]
  BY DEF ReleasedRows
<1>3. \A i \in Line, c \in Cycle :
        rows'[i][c] = IF OrderOf[i] # o THEN rows[i][c] ELSE Ended(rows[i][c])
  BY <1>2 DEF Ended
<1>4. \A i \in Line, c \in Cycle :
        /\ rows[i][c].active \in Nat /\ Ended(rows[i][c]) \in Row
        /\ Ended(rows[i][c]).gen = rows[i][c].gen /\ Ended(rows[i][c]).active = 0
        /\ Ended(rows[i][c]).loc = rows[i][c].loc /\ Ended(rows[i][c]).handed = rows[i][c].handed
  BY <1>1, EndedRow DEF Rows
<1>5. \A i \in Line : rows'[i] \in [Cycle -> Row]
  <2> SUFFICES ASSUME NEW i \in Line PROVE rows'[i] \in [Cycle -> Row]
    OBVIOUS
  <2>1. \A c \in Cycle : rows'[i][c] \in Row
    BY <1>1, <1>3, <1>4 DEF Rows
  <2>2. rows'[i] = [c \in Cycle |-> rows'[i][c]]
    BY <1>1, <1>2 DEF Rows
  <2> QED BY <2>1, <2>2
<1>6. rows' \in Rows
  BY <1>5 DEF ReleasedRows, Rows
<1>7. \A i \in Line, c \in Cycle :
        /\ rows'[i][c].gen = rows[i][c].gen /\ rows'[i][c].active <= rows[i][c].active
        /\ rows'[i][c].loc = rows[i][c].loc /\ rows'[i][c].handed = rows[i][c].handed
        /\ OrderOf[i] = o => rows'[i][c].active = 0
  BY <1>3, <1>4
<1> QED BY <1>6, <1>7 DEF Kept, NoneHanded, LinesOf

LEMMA ExpiredKept ==
  ASSUME TypeOK, NEW o \in Order, ReturnToQueue(o)
  PROVE  Kept /\ NoneHanded
<1> DEFINE c == swept[o]
<1>1. CASE Expires(o, c)
  <2>1. rows' = [i \in Line |-> IF OrderOf[i] = o THEN [rows[i] EXCEPT ![c].active = 0] ELSE rows[i]]
    BY <1>1 DEF ReturnToQueue
  <2>2. rows \in Rows
    BY DEF TypeOK, Rows
  <2>3. \A i \in Line : rows[i] \in [Cycle -> Row]
    BY <2>2 DEF Rows
  <2>4. \A i \in Line : rows'[i] = IF OrderOf[i] = o THEN [rows[i] EXCEPT ![c].active = 0] ELSE rows[i]
    BY <2>1
  <2>5. \A i \in Line, d \in Cycle :
          rows'[i][d] = IF OrderOf[i] = o /\ d = c THEN Ended(rows[i][d]) ELSE rows[i][d]
    BY <2>3, <2>4 DEF Ended
  <2>6. \A i \in Line, d \in Cycle :
          /\ rows[i][d].active \in Nat /\ Ended(rows[i][d]) \in Row
          /\ Ended(rows[i][d]).gen = rows[i][d].gen /\ Ended(rows[i][d]).active = 0
          /\ Ended(rows[i][d]).loc = rows[i][d].loc /\ Ended(rows[i][d]).handed = rows[i][d].handed
    BY <2>3, EndedRow
  <2>7. \A i \in Line, d \in Cycle :
          /\ rows'[i][d] \in Row
          /\ rows'[i][d].gen = rows[i][d].gen /\ rows'[i][d].active <= rows[i][d].active
          /\ rows'[i][d].loc = rows[i][d].loc /\ rows'[i][d].handed = rows[i][d].handed
    BY <2>3, <2>5, <2>6
  <2>8. \A i \in Line : rows'[i] \in [Cycle -> Row]
    <3> SUFFICES ASSUME NEW i \in Line PROVE rows'[i] \in [Cycle -> Row]
      OBVIOUS
    <3>1. rows'[i] = [d \in Cycle |-> rows'[i][d]]
      BY <2>3, <2>4
    <3> QED BY <2>7, <3>1
  <2>9. rows' \in Rows
    BY <2>1, <2>8 DEF Rows
  <2> QED BY <2>7, <2>9 DEF Kept, NoneHanded
<1>2. CASE ~Expires(o, c)
  BY <1>2, SameKept DEF ReturnToQueue
<1> QED BY <1>1, <1>2

\* What a hand-over t takes of a row, and whether it takes all there is.
Taken(o, t, i, c) == IF <<i, c>> \in ActiveKeys(o) THEN t[<<i, c>>] ELSE 0
Closed(t) == (\E k \in DOMAIN t : t[k] > 0) /\ \A k \in DOMAIN t : t[k] = RowAt(k).active

LEMMA HandedRows ==
  ASSUME TypeOK, NEW o \in Order, NEW said \in Sayings, NEW warehouse \in BOOLEAN,
         HandOver(o, said, warehouse)
  PROVE  /\ rows' \in Rows
         /\ \E t \in Handovers(o, said, warehouse) :
              /\ DOMAIN t = ActiveKeys(o)
              /\ rstate' = [rstate EXCEPT ![o] = IF Closed(t) THEN "RELEASED" ELSE @]
              /\ \A i \in Line, c \in Cycle :
                   /\ Taken(o, t, i, c) \in Nat /\ Taken(o, t, i, c) <= rows[i][c].active
                   /\ rows'[i][c] = HandedOver(rows[i][c], Taken(o, t, i, c))
<1>1. PICK t \in Handovers(o, said, warehouse) :
        /\ rows' = [i \in Line |-> [c \in Cycle |->
                   [rows[i][c] EXCEPT
                     !.active = @ - (IF <<i, c>> \in DOMAIN t THEN t[<<i, c>>] ELSE 0),
                     !.handed = @ + (IF <<i, c>> \in DOMAIN t THEN t[<<i, c>>] ELSE 0)]]]
        /\ rstate' = [rstate EXCEPT ![o] = IF Closed(t) THEN "RELEASED" ELSE @]
  BY DEF HandOver, Closed
<1>2. \A i \in Line, c \in Cycle : rows[i][c] \in Row
  BY DEF TypeOK
<1>3. \A k \in ActiveKeys(o) :
        RowAt(k).active \in Nat /\ t[k] \in 0..RowAt(k).active
  <2> SUFFICES ASSUME NEW k \in ActiveKeys(o)
               PROVE  RowAt(k).active \in Nat /\ t[k] \in 0..RowAt(k).active
    OBVIOUS
  <2>1. \A m \in ActiveKeys(o) : RowAt(m).active \in Nat
    BY <1>2 DEF ActiveKeys, KeysOf, LinesOf, RowAt, Row
  <2>2. t[k] \in UNION {0..RowAt(m).active : m \in ActiveKeys(o)} /\ t[k] <= RowAt(k).active
    BY <1>1 DEF Handovers
  <2>3. PICK m \in ActiveKeys(o) : t[k] \in 0..RowAt(m).active
    BY <2>2
  <2>4. t[k] \in Nat
    BY <2>1, <2>3
  <2> QED BY <2>1, <2>2, <2>4
<1>4. DOMAIN t = ActiveKeys(o)
  BY DEF Handovers
<1>5. \A i \in Line, c \in Cycle : Taken(o, t, i, c) \in Nat /\ Taken(o, t, i, c) <= rows[i][c].active
  <2> SUFFICES ASSUME NEW i \in Line, NEW c \in Cycle
               PROVE  Taken(o, t, i, c) \in Nat /\ Taken(o, t, i, c) <= rows[i][c].active
    OBVIOUS
  <2>1. rows[i][c].active \in Nat
    BY <1>2 DEF Row
  <2>2. CASE <<i, c>> \in ActiveKeys(o)
    BY <1>3, <1>4, <2>1, <2>2 DEF RowAt, Taken
  <2>3. CASE <<i, c>> \notin ActiveKeys(o)
    BY <2>1, <2>3 DEF Taken
  <2> QED BY <2>2, <2>3
<1>6. \A i \in Line, c \in Cycle : rows'[i][c] = HandedOver(rows[i][c], Taken(o, t, i, c))
  BY <1>1, <1>4 DEF HandedOver, Taken
<1>7. \A i \in Line, c \in Cycle : rows'[i][c] \in Row
  BY <1>2, <1>5, <1>6, HandedOverRow
<1>8. rows' \in Rows
  BY <1>1, <1>7 DEF Rows
<1>9. /\ DOMAIN t = ActiveKeys(o)
      /\ rstate' = [rstate EXCEPT ![o] = IF Closed(t) THEN "RELEASED" ELSE @]
      /\ \A i \in Line, c \in Cycle :
           /\ Taken(o, t, i, c) \in Nat /\ Taken(o, t, i, c) <= rows[i][c].active
           /\ rows'[i][c] = HandedOver(rows[i][c], Taken(o, t, i, c))
  BY <1>1, <1>4, <1>5, <1>6
<1> QED BY <1>8, <1>9, Zenon

LEMMA HandedKept ==
  ASSUME TypeOK, NEW o \in Order, NEW said \in Sayings, NEW warehouse \in BOOLEAN,
         HandOver(o, said, warehouse)
  PROVE  Kept
<1>1. PICK t : \A i \in Line, c \in Cycle :
        /\ Taken(o, t, i, c) \in Nat /\ Taken(o, t, i, c) <= rows[i][c].active
        /\ rows'[i][c] = HandedOver(rows[i][c], Taken(o, t, i, c))
  BY HandedRows
<1>2. \A i \in Line, c \in Cycle : rows[i][c] \in Row
  BY DEF TypeOK
<1>3. \A i \in Line, c \in Cycle :
        /\ rows'[i][c].gen = rows[i][c].gen /\ rows'[i][c].loc = rows[i][c].loc
        /\ rows'[i][c].active <= rows[i][c].active
  BY <1>1, <1>2, HandedOverRow
<1> QED BY <1>3, HandedRows DEF Kept

-----------------------------------------------------------------------------
(* Types *)

LEMMA InitTyped == Init => TypeInv
<1> SUFFICES ASSUME Init PROVE TypeInv
  OBVIOUS
<1> USE StockAssumption DEF StockAssumption, Init
<1>1. \A i \in Line, c \in Cycle : NoRow \in Row /\ rows[i][c] = NoRow
  BY DEF NoRow, Row
<1>2. rows \in [Line -> [Cycle -> Row]]
  BY <1>1
<1>3. \A i \in Line, c \in Cycle : rows[i][c].gen = 0 /\ rows[i][c].gen <= c
  BY <1>1, Cycles DEF NoRow
<1>4. job \in Jobs /\ \A o \in Order : job[o].locks = {} /\ job[o].pc = "idle"
  BY DEF Idle, Jobs
<1>5. erp \in [Order -> [held: [Variant -> Nat \cup {None}], started: BOOLEAN]]
  OBVIOUS
<1>6. /\ level \in [Slot -> Report \cup {FirstLevel}] /\ cycle \in [Order -> {0} \cup Cycle]
      /\ rstate \in [Order -> {"NONE", "AWAITING", "RESERVED", "RELEASED", "FAILED"}]
      /\ cancelled \subseteq Order /\ due \subseteq Order /\ failing \subseteq Order
      /\ swept \in [Order -> {0} \cup Cycle]
      /\ reports \in 0..MaxReports /\ events \in 0..MaxEvents
  OBVIOUS
<1>7. TypeOK
  BY <1>2, <1>3, <1>4, <1>5, <1>6 DEF TypeOK, Jobs
<1> QED BY <1>3, <1>4, <1>7 DEF TypeInv, InTime, Unused

LEMMA KeptTyped ==
  ASSUME TypeInv, Kept, cycle' = cycle
  PROVE  /\ rows' \in [Line -> [Cycle -> Row]]
         /\ \A i \in Line, c \in Cycle : rows'[i][c].gen <= c
         /\ Unused'
<1>1. rows' \in [Line -> [Cycle -> Row]]
  BY DEF Kept, Rows
<1>2. \A i \in Line, c \in Cycle : rows'[i][c].gen = rows[i][c].gen
  BY DEF Kept
<1>3. \A i \in Line, c \in Cycle : rows'[i][c].gen <= c
  BY <1>2 DEF TypeInv, TypeOK
<1>4. Unused'
  BY <1>2 DEF TypeInv, Unused
<1> QED BY <1>1, <1>3, <1>4

Job == [pc: {"idle", "locking", "picked"}, locks: SUBSET Slot,
        plan: {<<>>} \cup UNION {Plan(o) : o \in Order}]
JobOf(o, j) ==
    /\ j \in Job /\ j.locks \subseteq VariantsOf(o) \X Location
    /\ j.pc = "picked" => j.plan \in Plan(o)

JobsTyped == job \in Jobs /\ \A o \in Order : JobOf(o, job[o])

LEMMA JobTyped ==
  ASSUME TypeInv, NEW o \in Order, NEW j, JobOf(o, j), job' = [job EXCEPT ![o] = j]
  PROVE  JobsTyped'
<1>1. job \in [Order -> Job]
  BY DEF TypeInv, TypeOK, Job
<1>2. job' \in [Order -> Job]
  BY <1>1 DEF JobOf
<1>3. \A p \in Order : job'[p] = IF p = o THEN j ELSE job[p]
  BY <1>1
<1>4. \A p \in Order : JobOf(p, job[p])
  BY <1>1 DEF TypeInv, TypeOK, JobOf
<1>5. \A p \in Order : JobOf(p, job'[p])
  BY <1>3, <1>4
<1>6. job' \in Jobs
  BY <1>2 DEF Jobs, Job
<1> QED BY <1>5, <1>6 DEF JobsTyped, JobOf

LEMMA NoJobTyped ==
  ASSUME TypeInv, job' = job
  PROVE  JobsTyped'
  BY DEF TypeInv, TypeOK, JobsTyped, Jobs, Job, JobOf

LEMMA IdleTyped ==
  ASSUME TypeInv, NEW o \in Order, job' = [job EXCEPT ![o] = Idle]
  PROVE  /\ JobsTyped'
         /\ \A p \in Order : job'[p].pc # "idle" => p # o /\ job'[p] = job[p]
<1>1. JobOf(o, Idle)
  BY DEF JobOf, Job, Idle
<1>2. JobsTyped'
  BY <1>1, JobTyped
<1> QED BY <1>2 DEF TypeInv, TypeOK, Idle

\* What the steps of a reservation that change no row do to the types.
LEMMA ReserveTyped ==
  ASSUME TypeInv, NEW o \in Order, BeginReserve(o) \/ LockLevel(o) \/ Pick(o)
  PROVE  JobsTyped' /\ InTime'
<1>1. CASE BeginReserve(o)
  <2>1. JobOf(o, [Idle EXCEPT !.pc = "locking"])
    BY DEF JobOf, Job, Idle
  <2>2. job' = [job EXCEPT ![o] = [Idle EXCEPT !.pc = "locking"]]
    BY <1>1 DEF BeginReserve
  <2>3. JobsTyped'
    BY <2>1, <2>2, JobTyped
  <2> QED BY <1>1, <2>2, <2>3 DEF BeginReserve, TypeInv, TypeOK, InTime
<1>2. CASE LockLevel(o)
  <2>1. PICK s \in Missing(o) : /\ job[o].pc = "locking"
                                /\ job' = [job EXCEPT ![o].locks = @ \cup {s}]
    BY <1>2 DEF LockLevel
  <2> DEFINE j == [job[o] EXCEPT !.locks = @ \cup {s}]
  <2>2. job' = [job EXCEPT ![o] = j]
    BY <2>1
  <2>3. /\ job[o] \in Job /\ job[o].locks \subseteq VariantsOf(o) \X Location
        /\ s \in VariantsOf(o) \X Location
    BY DEF Missing, TypeInv, TypeOK, Job
  <2>4. VariantsOf(o) \X Location \subseteq Slot
    BY StockAssumption DEF StockAssumption, VariantsOf, LinesOf, Slot
  <2>5. /\ j \in Job /\ j.locks \subseteq VariantsOf(o) \X Location
        /\ j.pc = "locking"
    BY <2>1, <2>3, <2>4 DEF Job
  <2>6. JobOf(o, j)
    BY <2>5 DEF JobOf
  <2>7. JobsTyped'
    BY <2>2, <2>6, JobTyped
  <2>8. \A p \in Order : job'[p].pc = job[p].pc
    BY <2>1 DEF TypeInv, TypeOK
  <2>9. cycle' = cycle
    BY <1>2 DEF LockLevel
  <2> QED BY <2>7, <2>8, <2>9 DEF TypeInv, InTime
<1>3. CASE Pick(o)
  <2>1. PICK plan \in Plan(o) : job' = [job EXCEPT ![o].pc = "picked", ![o].plan = plan]
    BY <1>3 DEF Pick
  <2> DEFINE j == [job[o] EXCEPT !.pc = "picked", !.plan = plan]
  <2>2. job' = [job EXCEPT ![o] = j]
    BY <2>1 DEF TypeInv, TypeOK
  <2>3. job[o] \in Job /\ job[o].locks \subseteq VariantsOf(o) \X Location /\ job[o].pc = "locking"
    BY <1>3 DEF TypeInv, TypeOK, Job, Pick
  <2>4. plan \in UNION {Plan(p) : p \in Order}
    BY <2>1
  <2>5. j \in Job /\ j.locks = job[o].locks /\ j.plan = plan
    BY <2>3, <2>4 DEF Job
  <2>6. JobsTyped'
    BY <2>2, <2>3, <2>5, JobTyped DEF JobOf
  <2>7. \A p \in Order : job'[p].pc # "idle" => job[p].pc # "idle"
    BY <2>2, <2>3 DEF TypeInv, TypeOK
  <2>8. cycle' = cycle
    BY <1>3 DEF Pick
  <2> QED BY <2>6, <2>7, <2>8 DEF TypeInv, InTime
<1> QED BY <1>1, <1>2, <1>3

LEMMA GenerationTyped ==
  ASSUME TypeInv, NEW i \in Line, NEW l
  PROVE  /\ NextGeneration(i, l) \in Nat
         /\ 1 <= NextGeneration(i, l) /\ NextGeneration(i, l) <= cycle[OrderOf[i]] + 1
<1> DEFINE n == cycle[OrderOf[i]]
           S == {0} \cup {rows[i][c].gen : c \in {d \in Cycle : rows[i][d].loc = l}}
<1>1. n \in Nat
  BY Cycles, StockAssumption DEF StockAssumption, TypeInv, TypeOK
<1>2. \A c \in Cycle : rows[i][c].gen \in 0..n
  <2> SUFFICES ASSUME NEW c \in Cycle PROVE rows[i][c].gen \in 0..n
    OBVIOUS
  <2>1. c \in Nat
    BY Cycles
  <2>2. rows[i][c].gen \in {0} \cup Cycle /\ rows[i][c].gen <= c
    BY DEF TypeInv, TypeOK, Row
  <2>3. rows[i][c].gen \in Nat
    BY <2>2, Cycles
  <2>4. n < c => rows[i][c].gen = 0
    BY DEF TypeInv, Unused
  <2> QED BY <1>1, <2>1, <2>2, <2>3, <2>4
<1>3. S \in SUBSET (0..n) /\ S # {} /\ 0 \in S
  BY <1>1, <1>2
<1>4. Max(S) \in S /\ 0 <= Max(S)
  <2> HIDE DEF S, n
  <2> QED BY <1>1, <1>3, LargestOf
<1>5. Max(S) \in 0..n
  BY <1>3, <1>4
<1>6. NextGeneration(i, l) = Max(S) + 1
  BY DEF NextGeneration
<1> HIDE DEF S
<1> QED BY <1>1, <1>5, <1>6

LEMMA CommitTyped ==
  ASSUME TypeInv, NEW o \in Order, Commit(o)
  PROVE  TypeInv'
<1> DEFINE plan == job[o].plan
           n == cycle[o] + 1
           New(i) == [loc |-> plan[i], gen |-> NextGeneration(i, plan[i]),
                      active |-> Wanted[i], handed |-> 0]
<1>1. cycle[o] \in Nat /\ MaxCycle[o] \in Nat /\ cycle[o] < MaxCycle[o] /\ n \in Cycle
  <2>1. cycle[o] \in Nat
    BY Cycles DEF TypeInv, TypeOK
  <2>2. cycle[o] < MaxCycle[o]
    BY DEF Commit, TypeInv, InTime
  <2> QED BY <2>1, <2>2, Cycles, StockAssumption DEF StockAssumption
<1>2. plan \in [LinesOf(o) -> Location \cup {None}] /\ DOMAIN plan = LinesOf(o)
  BY DEF Commit, TypeInv, TypeOK, Plan
<1>3. \A i \in LinesOf(o) : New(i) \in Row /\ New(i).gen <= n
  <2> SUFFICES ASSUME NEW i \in LinesOf(o) PROVE New(i) \in Row /\ New(i).gen <= n
    OBVIOUS
  <2>1. i \in Line /\ OrderOf[i] = o /\ Wanted[i] \in Nat /\ plan[i] \in Location \cup {None}
    BY <1>2, StockAssumption DEF StockAssumption, LinesOf
  <2> DEFINE g == NextGeneration(i, plan[i])
  <2>2. g \in Nat /\ 1 <= g /\ g <= n
    BY <2>1, GenerationTyped
  <2> HIDE DEF g
  <2>3. g \in Cycle
    <3>1. g - 1 \in Nat /\ g - 1 < MaxCycle[o]
      BY <1>1, <2>2
    <3>2. (g - 1) + 1 \in Cycle
      BY <3>1, Cycles
    <3> QED BY <2>2, <3>2
  <2>4. New(i) = [loc |-> plan[i], gen |-> g, active |-> Wanted[i], handed |-> 0]
    BY DEF g
  <2> QED BY <2>1, <2>2, <2>3, <2>4 DEF Row
<1>4. \A i \in Line : rows[i] \in [Cycle -> Row]
  BY DEF TypeInv, TypeOK
<1>5. rows' = [i \in Line |-> IF i \notin DOMAIN plan THEN rows[i] ELSE [rows[i] EXCEPT ![n] = New(i)]]
  BY DEF Commit
<1> HIDE DEF New, n, plan
<1>6. \A i \in Line : rows'[i] \in [Cycle -> Row]
  BY <1>2, <1>3, <1>4, <1>5
<1>7. \A i \in Line, c \in Cycle :
        rows'[i][c] = IF i \in LinesOf(o) /\ c = n THEN New(i) ELSE rows[i][c]
  BY <1>2, <1>4, <1>5
<1>8. rows' \in [Line -> [Cycle -> Row]]
  BY <1>5, <1>6
<1>9. \A i \in Line, c \in Cycle : rows'[i][c].gen <= c
  <2> SUFFICES ASSUME NEW i \in Line, NEW c \in Cycle PROVE rows'[i][c].gen <= c
    OBVIOUS
  <2>1. CASE i \in LinesOf(o) /\ c = n
    BY <1>3, <1>7, <2>1
  <2>2. CASE ~(i \in LinesOf(o) /\ c = n)
    <3>1. rows'[i][c] = rows[i][c]
      BY <1>7, <2>2
    <3> QED BY <3>1 DEF TypeInv, TypeOK
  <2> QED BY <2>1, <2>2
<1>10. cycle' = [cycle EXCEPT ![o] = n] /\ cycle' \in [Order -> {0} \cup Cycle]
  BY <1>1 DEF Commit, TypeInv, TypeOK, n
<1>11. Unused'
  <2> SUFFICES ASSUME NEW i \in Line, NEW c \in Cycle, cycle'[OrderOf[i]] < c
               PROVE  rows'[i][c].gen = 0
    BY DEF Unused
  <2>1. CASE OrderOf[i] = o
    <3>1. n < c /\ c # n /\ cycle[o] < c
      <4>1. c \in Nat
        BY Cycles
      <4>2. n < c
        BY <1>10, <2>1 DEF TypeInv, TypeOK
      <4> QED BY <1>1, <4>1, <4>2 DEF n
    <3> QED BY <1>7, <2>1, <3>1 DEF TypeInv, Unused
  <2>2. CASE OrderOf[i] # o
    <3>1. i \notin LinesOf(o) /\ cycle'[OrderOf[i]] = cycle[OrderOf[i]]
      BY <1>10, <2>2, StockAssumption DEF LinesOf, TypeInv, TypeOK, StockAssumption
    <3> QED BY <1>7, <3>1 DEF TypeInv, Unused
  <2> QED BY <2>1, <2>2
<1>12. JobsTyped' /\ \A p \in Order : job'[p].pc # "idle" => p # o /\ job'[p] = job[p]
  BY IdleTyped DEF Commit
<1>13. InTime'
  BY <1>10, <1>12 DEF TypeInv, InTime, TypeOK
<1>14. /\ rstate' \in [Order -> {"NONE", "AWAITING", "RESERVED", "RELEASED", "FAILED"}]
       /\ due' \subseteq Order
  BY DEF Commit, TypeInv, TypeOK
<1> QED
  BY <1>8, <1>9, <1>10, <1>11, <1>12, <1>13, <1>14
  DEF Commit, TypeInv, TypeOK, JobsTyped, JobOf, Jobs

\* An action that leaves the reservations under way and their number alone.
LEMMA OtherTyped ==
  ASSUME TypeInv, Kept, cycle' = cycle, job' = job, erp' = erp, reports' = reports,
         events' = events, level' = level,
         rstate' \in [Order -> {"NONE", "AWAITING", "RESERVED", "RELEASED", "FAILED"}],
         cancelled' \subseteq Order, due' \subseteq Order, failing' \subseteq Order,
         swept' \in [Order -> {0} \cup Cycle]
  PROVE  TypeInv'
<1>1. /\ rows' \in [Line -> [Cycle -> Row]]
      /\ \A i \in Line, c \in Cycle : rows'[i][c].gen <= c
      /\ Unused'
  BY KeptTyped
<1>2. JobsTyped'
  BY NoJobTyped
<1>3. InTime'
  BY DEF TypeInv, InTime
<1> QED BY <1>1, <1>2, <1>3 DEF TypeInv, TypeOK, JobsTyped, JobOf, Jobs

LEMMA HandedTyped ==
  ASSUME TypeInv, NEW o \in Order, NEW said \in Sayings, NEW discarded \in BOOLEAN,
         NEW warehouse \in BOOLEAN,
         \/ RegistrationResult(o, said, discarded)
         \/ OrderChanged(o, said, discarded, warehouse)
  PROVE  TypeInv'
<1>1. PICK w \in BOOLEAN : HandOver(o, said, w)
  BY DEF RegistrationResult, OrderChanged
<1>2. Kept
  BY <1>1, HandedKept DEF TypeInv
<1>3. /\ cycle' = cycle /\ job' = job /\ reports' = reports /\ level' = level
      /\ cancelled' = cancelled /\ failing' = failing /\ swept' = swept
  BY DEF RegistrationResult, OrderChanged
<1>4. /\ rows' \in [Line -> [Cycle -> Row]]
      /\ \A i \in Line, c \in Cycle : rows'[i][c].gen <= c
      /\ Unused'
  BY <1>2, <1>3, KeptTyped
<1>5. JobsTyped' /\ InTime'
  BY <1>3, NoJobTyped DEF TypeInv, InTime
<1>6. Recorded(o, said, discarded) \in [Variant -> Nat \cup {None}]
  <2>1. said \in [Variant -> Nat \cup {None}]
    BY StockAssumption DEF StockAssumption
  <2>2. erp[o].held \in [Variant -> Nat \cup {None}]
    BY DEF TypeInv, TypeOK
  <2> QED BY <2>1, <2>2 DEF Recorded
<1>7. erp' \in [Order -> [held: [Variant -> Nat \cup {None}], started: BOOLEAN]]
  <2>1. CASE RegistrationResult(o, said, discarded)
    BY <1>6, <2>1 DEF RegistrationResult, TypeInv, TypeOK
  <2>2. CASE OrderChanged(o, said, discarded, warehouse)
    BY <1>6, <2>2 DEF OrderChanged, TypeInv, TypeOK
  <2> QED BY <2>1, <2>2
<1>8. events' \in 0..MaxEvents
  <2>1. events' = events + 1 /\ events < MaxEvents
    BY DEF RegistrationResult, OrderChanged
  <2>2. events \in 0..MaxEvents /\ MaxEvents \in Nat
    BY StockAssumption DEF TypeInv, TypeOK, StockAssumption
  <2> QED BY <2>1, <2>2
<1>9. /\ rstate' \in [Order -> {"NONE", "AWAITING", "RESERVED", "RELEASED", "FAILED"}]
      /\ due' \subseteq Order
  <2>1. /\ \E closed \in BOOLEAN : rstate' = [rstate EXCEPT ![o] = IF closed THEN "RELEASED" ELSE @]
        /\ due' = due \ {o} \/ due' = due
    BY <1>1, Zenon DEF HandOver
  <2> QED BY <2>1 DEF TypeInv, TypeOK
<1> QED
  BY <1>3, <1>4, <1>5, <1>7, <1>8, <1>9 DEF TypeInv, TypeOK, JobsTyped, JobOf, Jobs

LEMMA OrderStepTyped ==
  ASSUME TypeInv, NEW o \in Order,
         \/ BeginReserve(o) \/ HoldOrder(o) \/ LockLevel(o) \/ Pick(o)
         \/ Commit(o) \/ Shortfall(o) \/ Abort(o) \/ MarkFailed(o)
         \/ Release(o) \/ CancelOrder(o) \/ Extend(o)
         \/ Sweep(o) \/ ReturnToQueue(o)
  PROVE  TypeInv'
<1>0. TypeOK
  BY DEF TypeInv
<1>1. CASE BeginReserve(o) \/ LockLevel(o) \/ Pick(o)
  <2>1. JobsTyped' /\ InTime'
    BY <1>1, ReserveTyped
  <2> QED
    BY <1>1, <2>1
    DEF BeginReserve, LockLevel, Pick, TypeInv, TypeOK, Unused, JobsTyped, JobOf, Jobs
<1>2. CASE Commit(o)
  BY <1>2, CommitTyped
<1>3. CASE Shortfall(o) \/ Abort(o)
  <2>1. JobsTyped' /\ \A p \in Order : job'[p].pc # "idle" => p # o /\ job'[p] = job[p]
    BY <1>3, IdleTyped DEF Shortfall, Abort
  <2>2. cycle' = cycle
    BY <1>3 DEF Shortfall, Abort
  <2>3. InTime'
    BY <2>1, <2>2 DEF TypeInv, InTime
  <2> QED
    BY <1>3, <2>1, <2>3
    DEF Shortfall, Abort, TypeInv, TypeOK, Unused, JobsTyped, JobOf, Jobs
<1>4. CASE HoldOrder(o) \/ MarkFailed(o) \/ Extend(o) \/ Sweep(o)
  <2>1. Kept
    BY <1>0, <1>4, SameKept DEF HoldOrder, MarkFailed, Extend, Sweep
  <2>2. rstate' \in [Order -> {"NONE", "AWAITING", "RESERVED", "RELEASED", "FAILED"}]
    BY <1>4 DEF HoldOrder, MarkFailed, Extend, Sweep, TypeInv, TypeOK
  <2>3. /\ cancelled' \subseteq Order /\ due' \subseteq Order /\ failing' \subseteq Order
        /\ swept' \in [Order -> {0} \cup Cycle]
    BY <1>4 DEF HoldOrder, MarkFailed, Extend, Sweep, TypeInv, TypeOK
  <2> QED BY <1>4, <2>1, <2>2, <2>3, OtherTyped DEF HoldOrder, MarkFailed, Extend, Sweep
<1>5. CASE Release(o) \/ CancelOrder(o)
  <2>1. Kept
    BY <1>0, <1>5, ReleasedKept DEF Release, CancelOrder
  <2>2. rstate' \in [Order -> {"NONE", "AWAITING", "RESERVED", "RELEASED", "FAILED"}]
    BY <1>5 DEF Release, CancelOrder, TypeInv, TypeOK
  <2>3. cancelled' \subseteq Order /\ due' \subseteq Order
    BY <1>5 DEF Release, CancelOrder, TypeInv, TypeOK
  <2> QED BY <1>5, <2>1, <2>2, <2>3, OtherTyped DEF Release, CancelOrder, TypeInv, TypeOK
<1>6. CASE ReturnToQueue(o)
  <2>1. Kept
    BY <1>0, <1>6, ExpiredKept
  <2>2. /\ rstate' \in [Order -> {"NONE", "AWAITING", "RESERVED", "RELEASED", "FAILED"}]
        /\ due' \subseteq Order /\ swept' \in [Order -> {0} \cup Cycle]
    BY <1>6 DEF ReturnToQueue, TypeInv, TypeOK
  <2> QED BY <1>6, <2>1, <2>2, OtherTyped DEF ReturnToQueue, TypeInv, TypeOK
<1> QED BY <1>1, <1>2, <1>3, <1>4, <1>5, <1>6

LEMMA ReportTyped ==
  ASSUME TypeInv, NEW s \in Slot, NEW r \in Report, ReportStock(s, r)
  PROVE  TypeInv'
<1>1. level' \in [Slot -> Report \cup {FirstLevel}] /\ reports' \in 0..MaxReports
  BY StockAssumption DEF ReportStock, TypeInv, TypeOK, StockAssumption
<1> QED BY <1>1 DEF ReportStock, TypeInv, TypeOK, InTime, Unused

LEMMA NextTyped == TypeInv /\ [Next]_vars => TypeInv'
<1> SUFFICES ASSUME TypeInv, [Next]_vars PROVE TypeInv'
  OBVIOUS
<1>1. ASSUME NEW o \in Registered, NEW said \in Sayings, NEW discarded \in BOOLEAN,
             \/ RegistrationResult(o, said, discarded)
             \/ \E warehouse \in BOOLEAN : OrderChanged(o, said, discarded, warehouse)
      PROVE  TypeInv'
  BY <1>1, HandedTyped, StockAssumption DEF StockAssumption
<1>2. CASE UNCHANGED vars
  BY <1>2 DEF vars, TypeInv, TypeOK, InTime, Unused
<1> QED BY <1>1, <1>2, OrderStepTyped, ReportTyped DEF Next

\* Every variable of the reservations keeps its type, for any orders, lines, locations and bounds:
\* no generation passes the number of its reservation, and a job locks levels of its order only.
THEOREM StockTyped == Spec => []TypeOK
<1>1. Init => TypeInv
  BY InitTyped
<1>2. TypeInv /\ [Next]_vars => TypeInv'
  BY NextTyped
<1>3. TypeInv => TypeOK
  BY DEF TypeInv
<1> QED BY <1>1, <1>2, <1>3, PTL DEF Spec

-----------------------------------------------------------------------------
(* Stock levels are locked in one order *)

LockOrder == \A o \in Order : \A s \in job[o].locks, t \in Missing(o) : LevelId[s] < LevelId[t]

LEMMA LockOrderStep == TypeOK /\ LockOrder /\ [Next]_vars => LockOrder'
<1> SUFFICES ASSUME TypeOK, LockOrder, [Next]_vars PROVE LockOrder'
  OBVIOUS
<1>1. ASSUME NEW o \in Order, LockLevel(o) PROVE LockOrder'
  <2>1. PICK s \in Missing(o) : NextLevel(o, s) /\ job' = [job EXCEPT ![o].locks = @ \cup {s}]
    BY <1>1 DEF LockLevel
  <2>2. \A p \in Order : job'[p].locks = IF p = o THEN job[o].locks \cup {s} ELSE job[p].locks
    BY <2>1 DEF TypeOK
  <2>3. Missing(o)' = Missing(o) \ {s} /\ \A p \in Order : p # o => Missing(p)' = Missing(p)
    BY <2>2 DEF Missing
  <2>4. \A t \in Missing(o) : t \in DOMAIN LevelId /\ LevelId[t] \in Nat
    BY StockAssumption DEF StockAssumption, Missing, VariantsOf, LinesOf
  <2>5. \A t \in Missing(o) : t # s => LevelId[s] < LevelId[t]
    <3> SUFFICES ASSUME NEW t \in Missing(o), t # s PROVE LevelId[s] < LevelId[t]
      OBVIOUS
    <3>1. LevelId[s] # LevelId[t]
      BY <2>4, StockAssumption DEF StockAssumption
    <3>2. LevelId[s] <= LevelId[t]
      BY <2>1 DEF NextLevel
    <3> QED BY <2>4, <3>1, <3>2
  <2> QED BY <2>2, <2>3, <2>5 DEF LockOrder
<1>2. ASSUME NEW o \in Order, job' = [job EXCEPT ![o] = Idle]
               \/ job' = [job EXCEPT ![o] = [Idle EXCEPT !.pc = "locking"]]
      PROVE  LockOrder'
  <2>1. \A p \in Order : job'[p].locks = IF p = o THEN {} ELSE job[p].locks
    <3>1. PICK j \in {Idle, [Idle EXCEPT !.pc = "locking"]} : job' = [job EXCEPT ![o] = j]
      BY <1>2
    <3>2. j.locks = {}
      BY DEF Idle
    <3> HIDE DEF Idle
    <3> QED BY <3>1, <3>2 DEF TypeOK
  <2>2. \A p \in Order : p # o => Missing(p)' = Missing(p)
    BY <2>1 DEF Missing
  <2> QED BY <2>1, <2>2 DEF LockOrder
<1>3. ASSUME NEW o \in Order, Pick(o) PROVE LockOrder'
  <2>1. \A p \in Order : job'[p].locks = job[p].locks
    BY <1>3 DEF Pick, TypeOK
  <2>2. \A p \in Order : Missing(p)' = Missing(p)
    BY <2>1 DEF Missing
  <2> QED BY <2>1, <2>2 DEF LockOrder
<1>4. CASE job' = job
  BY <1>4 DEF LockOrder, Missing
<1> QED
  BY <1>1, <1>2, <1>3, <1>4
  DEF Next, vars, BeginReserve, HoldOrder, Commit, Shortfall, Abort, MarkFailed, Release, CancelOrder,
      Extend, Sweep, ReturnToQueue, RegistrationResult, OrderChanged, ReportStock

\* Two reservations never wait for each other's stock levels, for any orders, lines and locations:
\* every level a job holds comes before every level it still has to lock, and two jobs that wait
\* for each other would each hold a level that comes before the other's.
THEOREM ReservationsNeverCross == Spec => []NoMutualWait
<1>1. Init => LockOrder
  BY DEF Init, LockOrder, Idle
<1>2. TypeOK /\ LockOrder => NoMutualWait
  <2> SUFFICES ASSUME TypeOK, LockOrder, NEW o \in Order, NEW p \in Order, WaitsFor(o, p), WaitsFor(p, o)
               PROVE  FALSE
    BY DEF NoMutualWait
  <2>1. PICK s \in Missing(o) : s \in job[p].locks
    BY DEF WaitsFor
  <2>2. PICK t \in Missing(p) : t \in job[o].locks
    BY DEF WaitsFor
  <2>3. LevelId[t] < LevelId[s] /\ LevelId[s] < LevelId[t]
    BY <2>1, <2>2 DEF LockOrder
  <2>4. LevelId[s] \in Nat /\ LevelId[t] \in Nat
    BY StockAssumption DEF StockAssumption, Missing, VariantsOf, LinesOf
  <2> QED BY <2>3, <2>4
<1> QED BY <1>1, <1>2, LockOrderStep, StockTyped, PTL DEF Spec

-----------------------------------------------------------------------------
(* The active rows of an order are of one reservation *)

LEMMA QuietKept ==
  ASSUME TypeOK, Kept, NEW o \in Order, ~HasActive(o)
  PROVE  ~HasActive(o)'
<1> SUFFICES ASSUME NEW i \in LinesOf(o), NEW c \in Cycle, rows'[i][c].active > 0
             PROVE  FALSE
  BY DEF HasActive
<1>1. i \in Line
  BY DEF LinesOf
<1>2. rows[i][c].active \in Nat /\ rows'[i][c].active \in Nat
  BY <1>1 DEF TypeOK, Kept, Rows, Row
<1>3. rows'[i][c].active <= rows[i][c].active /\ ~(rows[i][c].active > 0)
  BY <1>1 DEF Kept, HasActive
<1> QED BY <1>2, <1>3

LEMMA ActiveBefore ==
  ASSUME TypeOK, Kept
  PROVE  \A i \in Line, c \in Cycle : rows'[i][c].active > 0 => rows[i][c].active > 0
<1>1. \A i \in Line, c \in Cycle :
        /\ rows[i][c].active \in Nat /\ rows'[i][c].active \in Nat
        /\ rows'[i][c].active <= rows[i][c].active
  BY DEF TypeOK, Kept, Rows, Row
<1> QED BY <1>1

LEMMA CommitRows ==
  ASSUME TypeInv, NEW o \in Order, Commit(o)
  PROVE  /\ cycle[o] + 1 \in Cycle
         /\ \A i \in Line, c \in Cycle :
              rows'[i][c].active = IF i \in LinesOf(o) /\ c = cycle[o] + 1
                                   THEN Wanted[i] ELSE rows[i][c].active
         /\ \A i \in Line, c \in Cycle :
              IF i \in LinesOf(o) /\ c = cycle[o] + 1
              THEN rows'[i][c].loc = job[o].plan[i] /\ rows'[i][c].handed = 0
              ELSE rows'[i][c] = rows[i][c]
<1> DEFINE plan == job[o].plan
           n == cycle[o] + 1
           New(i) == [loc |-> plan[i], gen |-> NextGeneration(i, plan[i]),
                      active |-> Wanted[i], handed |-> 0]
<1>1. n \in Cycle
  <2>1. cycle[o] \in Nat
    BY Cycles DEF TypeInv, TypeOK
  <2>2. cycle[o] < MaxCycle[o]
    BY DEF Commit, TypeInv, InTime
  <2> QED BY <2>1, <2>2, Cycles
<1>2. DOMAIN plan = LinesOf(o)
  BY DEF Commit, TypeInv, TypeOK, Plan
<1>3. rows' = [i \in Line |-> IF i \notin DOMAIN plan THEN rows[i] ELSE [rows[i] EXCEPT ![n] = New(i)]]
  BY DEF Commit
<1>4. \A i \in Line : rows[i] \in [Cycle -> Row]
  BY DEF TypeInv, TypeOK
<1>5. \A i \in Line : New(i).active = Wanted[i] /\ New(i).loc = plan[i] /\ New(i).handed = 0
  OBVIOUS
<1> HIDE DEF New, n, plan
<1>6. \A i \in Line, c \in Cycle :
        rows'[i][c] = IF i \in LinesOf(o) /\ c = n THEN New(i) ELSE rows[i][c]
  BY <1>2, <1>3, <1>4
<1>7. \A i \in Line, c \in Cycle :
        rows'[i][c].active = IF i \in LinesOf(o) /\ c = n THEN Wanted[i] ELSE rows[i][c].active
  BY <1>5, <1>6
<1>8. \A i \in Line, c \in Cycle :
        IF i \in LinesOf(o) /\ c = n
        THEN rows'[i][c].loc = plan[i] /\ rows'[i][c].handed = 0
        ELSE rows'[i][c] = rows[i][c]
  BY <1>5, <1>6
<1> QED BY <1>1, <1>7, <1>8 DEF n, plan

\* A reservation under way is of a live order without active rows.
Working == \A o \in Order : job[o].pc # "idle" => ~HasActive(o) /\ o \notin cancelled

OneInv == Working /\ OneReservationHolds

LEMMA KeptOne ==
  ASSUME TypeOK, OneInv, Kept, cancelled' = cancelled,
         \A o \in Order : job'[o].pc # "idle" => job[o].pc # "idle"
  PROVE  OneInv'
<1>1. Working'
  BY QuietKept DEF OneInv, Working
<1>2. \A o \in cancelled' : ~HasActive(o)'
  BY QuietKept DEF OneInv, OneReservationHolds, TypeOK
<1>3. OneReservationHolds'
  BY <1>2, ActiveBefore DEF OneInv, OneReservationHolds
<1> QED BY <1>1, <1>3 DEF OneInv

LEMMA CommitOne ==
  ASSUME TypeInv, OneInv, NEW o \in Order, Commit(o)
  PROVE  OneInv'
<1> DEFINE n == cycle[o] + 1
<1>1. \A i \in Line, c \in Cycle :
        rows'[i][c].active = IF i \in LinesOf(o) /\ c = n THEN Wanted[i] ELSE rows[i][c].active
  BY CommitRows
<1>2. ~HasActive(o) /\ o \notin cancelled
  BY DEF Commit, OneInv, Working
<1> HIDE DEF n
<1>3. \A i \in LinesOf(o), c \in Cycle : rows'[i][c].active > 0 => c = n
  BY <1>1, <1>2 DEF HasActive, LinesOf
<1>4. \A p \in Order : p # o => (HasActive(p)' <=> HasActive(p))
  BY <1>1 DEF HasActive, LinesOf
<1>5. \A p \in Order : job'[p].pc # "idle" => p # o /\ job'[p] = job[p]
  BY IdleTyped DEF Commit
<1>6. cancelled' = cancelled /\ cancelled \subseteq Order
  BY DEF Commit, TypeInv, TypeOK
<1>7. Working'
  BY <1>4, <1>5, <1>6 DEF OneInv, Working
<1>8. \A p \in cancelled' : ~HasActive(p)'
  BY <1>2, <1>4, <1>6 DEF OneInv, OneReservationHolds
<1>9. ASSUME NEW i \in Line, NEW k \in Line, NEW c \in Cycle, NEW d \in Cycle,
             OrderOf[i] = OrderOf[k], rows'[i][c].active > 0, rows'[k][d].active > 0
      PROVE  c = d
  <2>1. CASE OrderOf[i] = o
    BY <1>3, <1>9, <2>1 DEF LinesOf
  <2>2. CASE OrderOf[i] # o
    <3>1. rows'[i][c].active = rows[i][c].active /\ rows'[k][d].active = rows[k][d].active
      BY <1>1, <1>9, <2>2 DEF LinesOf
    <3> QED BY <1>9, <3>1 DEF OneInv, OneReservationHolds
  <2> QED BY <2>1, <2>2
<1>10. OneReservationHolds'
  BY <1>8, <1>9 DEF OneReservationHolds
<1> QED BY <1>7, <1>10 DEF OneInv

LEMMA OneStep == TypeInv /\ OneInv /\ [Next]_vars => OneInv'
<1> SUFFICES ASSUME TypeInv, OneInv, [Next]_vars PROVE OneInv'
  OBVIOUS
<1>0. TypeOK
  BY DEF TypeInv
<1>1. ASSUME NEW o \in Order, BeginReserve(o) PROVE OneInv'
  <2>1. UNCHANGED <<rows, cancelled>> /\ ~HasActive(o) /\ o \notin cancelled
    BY <1>1 DEF BeginReserve, Eligible
  <2>2. \A p \in Order : p # o => job'[p] = job[p]
    BY <1>1 DEF BeginReserve, TypeInv, TypeOK
  <2>3. \A p \in Order : HasActive(p)' <=> HasActive(p)
    BY <2>1 DEF HasActive
  <2>4. Working'
    BY <2>1, <2>2, <2>3 DEF OneInv, Working
  <2>5. OneReservationHolds'
    BY <2>1, <2>3 DEF OneInv, OneReservationHolds, TypeInv, TypeOK
  <2> QED BY <2>4, <2>5 DEF OneInv
<1>2. ASSUME NEW o \in Order, Commit(o) PROVE OneInv'
  BY <1>2, CommitOne
<1>3. ASSUME NEW o \in Order, CancelOrder(o) PROVE OneInv'
  <2>1. Kept /\ \A i \in LinesOf(o), c \in Cycle : rows'[i][c].active = 0
    BY <1>0, <1>3, ReleasedKept DEF CancelOrder
  <2>2. ~HasActive(o)'
    BY <2>1 DEF HasActive
  <2>3. job' = job /\ job[o].pc = "idle" /\ cancelled' = cancelled \cup {o}
    BY <1>3 DEF CancelOrder, OrderFree
  <2>4. \A p \in Order : ~HasActive(p) => ~HasActive(p)'
    BY <1>0, <2>1, QuietKept
  <2>5. Working'
    BY <2>3, <2>4 DEF OneInv, Working
  <2>6. \A p \in cancelled' : ~HasActive(p)'
    BY <2>2, <2>3, <2>4 DEF OneInv, OneReservationHolds, TypeInv, TypeOK
  <2>7. OneReservationHolds'
    BY <1>0, <2>1, <2>6, ActiveBefore DEF OneInv, OneReservationHolds
  <2> QED BY <2>5, <2>7 DEF OneInv
<1>4. ASSUME NEW o \in Order,
             HoldOrder(o) \/ LockLevel(o) \/ Pick(o) \/ Shortfall(o) \/ Abort(o) \/ MarkFailed(o)
               \/ Extend(o) \/ Sweep(o)
      PROVE  OneInv'
  <2>1. Kept /\ cancelled' = cancelled
    BY <1>0, <1>4, SameKept
    DEF HoldOrder, LockLevel, Pick, Shortfall, Abort, MarkFailed, Extend, Sweep
  <2>2. \A p \in Order : job'[p].pc # "idle" => job[p].pc # "idle"
    BY <1>0, <1>4
    DEF HoldOrder, LockLevel, Pick, Shortfall, Abort, MarkFailed, Extend, Sweep, Idle, TypeOK
  <2> QED BY <1>0, <2>1, <2>2, KeptOne
<1>5. ASSUME NEW o \in Order, Release(o) \/ ReturnToQueue(o) PROVE OneInv'
  <2>1. Kept
    BY <1>0, <1>5, ReleasedKept, ExpiredKept DEF Release
  <2> QED BY <1>0, <1>5, <2>1, KeptOne DEF Release, ReturnToQueue
<1>6. ASSUME NEW o \in Registered, NEW said \in Sayings, NEW discarded \in BOOLEAN,
             \/ RegistrationResult(o, said, discarded)
             \/ \E warehouse \in BOOLEAN : OrderChanged(o, said, discarded, warehouse)
      PROVE  OneInv'
  <2>1. o \in Order
    BY StockAssumption DEF StockAssumption
  <2>2. \E w \in BOOLEAN : HandOver(o, said, w)
    BY <1>6 DEF RegistrationResult, OrderChanged
  <2>3. Kept
    BY <1>0, <2>1, <2>2, HandedKept
  <2>4. cancelled' = cancelled /\ job' = job
    BY <1>6 DEF RegistrationResult, OrderChanged
  <2> QED BY <1>0, <2>3, <2>4, KeptOne
<1>7. ASSUME NEW s \in Slot, NEW r \in Report, ReportStock(s, r) PROVE OneInv'
  BY <1>0, <1>7, SameKept, KeptOne DEF ReportStock
<1>8. CASE UNCHANGED vars
  BY <1>0, <1>8, SameKept, KeptOne DEF vars
<1> QED BY <1>1, <1>2, <1>3, <1>4, <1>5, <1>6, <1>7, <1>8 DEF Next

LEMMA OneInvariant == Spec => [](TypeInv /\ OneInv)
<1>1. Init => OneInv
  <2> SUFFICES ASSUME Init PROVE OneInv
    OBVIOUS
  <2>1. \A i \in Line, c \in Cycle : rows[i][c].active = 0
    BY DEF Init, NoRow
  <2>2. \A o \in Order : ~HasActive(o) /\ job[o].pc = "idle"
    BY <2>1 DEF HasActive, LinesOf, Init, Idle
  <2>3. cancelled \subseteq Order
    BY DEF Init
  <2> QED BY <2>1, <2>2, <2>3 DEF OneInv, Working, OneReservationHolds
<1> QED BY <1>1, InitTyped, NextTyped, OneStep, PTL DEF Spec

\* The active rows of an order are of one reservation and a cancelled order has none, for any
\* orders, lines and numbers of reservations: the order's lock keeps everything else away from a
\* reservation under way but a late sweep, which only ends rows.
THEOREM OneReservation == Spec => []OneReservationHolds
<1>1. OneInv => OneReservationHolds
  BY DEF OneInv
<1> QED BY <1>1, OneInvariant, PTL

-----------------------------------------------------------------------------
(* The state an order shows *)

\* What the property says of one order.
Shows(o) ==
    /\ rstate[o] = "RESERVED" => HasActive(o)
    /\ rstate[o] \in {"RELEASED", "FAILED"} => ~HasActive(o)

\* A hand-over leaves the rows of other orders alone.  It takes all rows of its order, or leaves
\* it with active rows if it had some.
LEMMA HandedShows ==
  ASSUME TypeOK, StateFollowsRows, NEW o \in Order, NEW said \in Sayings,
         NEW warehouse \in BOOLEAN, HandOver(o, said, warehouse)
  PROVE  StateFollowsRows'
<1>1. PICK t :
        /\ DOMAIN t = ActiveKeys(o)
        /\ rstate' = [rstate EXCEPT ![o] = IF Closed(t) THEN "RELEASED" ELSE @]
        /\ \A i \in Line, c \in Cycle :
             /\ Taken(o, t, i, c) \in Nat /\ Taken(o, t, i, c) <= rows[i][c].active
             /\ rows'[i][c] = HandedOver(rows[i][c], Taken(o, t, i, c))
  BY HandedRows
<1>2. \A i \in Line, c \in Cycle :
        rows[i][c].active \in Nat /\ rows'[i][c].active = rows[i][c].active - Taken(o, t, i, c)
  <2> SUFFICES ASSUME NEW i \in Line, NEW c \in Cycle
               PROVE  rows[i][c].active \in Nat /\ rows'[i][c].active = rows[i][c].active - Taken(o, t, i, c)
    OBVIOUS
  <2>1. rows[i][c] \in Row
    BY DEF TypeOK
  <2> QED BY <1>1, <2>1, HandedOverRow, EndedRow
<1>3. \A i \in Line, c \in Cycle :
        IF i \in LinesOf(o) /\ rows[i][c].active > 0
        THEN <<i, c>> \in ActiveKeys(o) /\ Taken(o, t, i, c) = t[<<i, c>>]
        ELSE <<i, c>> \notin ActiveKeys(o) /\ Taken(o, t, i, c) = 0
  BY DEF Taken, ActiveKeys, KeysOf, RowAt
<1>4. ASSUME NEW p \in Order, p # o PROVE Shows(p)'
  <2>1. \A i \in LinesOf(p), c \in Cycle : rows'[i][c].active = rows[i][c].active
    <3> SUFFICES ASSUME NEW i \in LinesOf(p), NEW c \in Cycle
                 PROVE  rows'[i][c].active = rows[i][c].active
      OBVIOUS
    <3>1. i \in Line /\ i \notin LinesOf(o)
      BY <1>4 DEF LinesOf
    <3>2. Taken(o, t, i, c) = 0
      BY <1>3, <3>1
    <3> QED BY <1>2, <3>1, <3>2
  <2>2. HasActive(p)' <=> HasActive(p)
    BY <2>1 DEF HasActive
  <2>3. rstate'[p] = rstate[p]
    BY <1>1, <1>4 DEF TypeOK
  <2> QED BY <2>2, <2>3 DEF Shows, StateFollowsRows
<1>5. CASE Closed(t)
  <2>1. \A i \in LinesOf(o), c \in Cycle : ~(rows'[i][c].active > 0)
    <3> SUFFICES ASSUME NEW i \in LinesOf(o), NEW c \in Cycle PROVE ~(rows'[i][c].active > 0)
      OBVIOUS
    <3>1. i \in Line
      BY DEF LinesOf
    <3>2. CASE rows[i][c].active > 0
      <4>1. <<i, c>> \in DOMAIN t /\ Taken(o, t, i, c) = t[<<i, c>>]
        BY <1>1, <1>3, <3>1, <3>2
      <4>2. t[<<i, c>>] = rows[i][c].active
        BY <1>5, <4>1 DEF Closed, RowAt
      <4> QED BY <1>2, <3>1, <4>1, <4>2
    <3>3. CASE ~(rows[i][c].active > 0)
      <4>1. Taken(o, t, i, c) = 0
        BY <1>3, <3>1, <3>3
      <4> QED BY <1>2, <3>1, <3>3, <4>1
    <3> QED BY <3>2, <3>3
  <2>2. ~HasActive(o)'
    BY <2>1 DEF HasActive
  <2>3. rstate'[o] = "RELEASED"
    BY <1>1, <1>5 DEF TypeOK
  <2>4. Shows(o)'
    BY <2>2, <2>3 DEF Shows
  <2> QED BY <1>4, <2>4 DEF Shows, StateFollowsRows
<1>6. CASE ~Closed(t)
  <2>1. rstate'[o] = rstate[o]
    BY <1>1, <1>6 DEF TypeOK
  <2>2. ASSUME HasActive(o) PROVE HasActive(o)'
    <3>1. PICK i \in LinesOf(o), c \in Cycle : rows[i][c].active > 0
      BY <2>2 DEF HasActive
    <3>2. i \in Line
      BY DEF LinesOf
    <3>3. CASE \E k \in DOMAIN t : t[k] # RowAt(k).active
      <4>1. PICK k \in ActiveKeys(o) : t[k] # RowAt(k).active
        BY <1>1, <3>3
      <4>2. PICK j \in LinesOf(o), d \in Cycle : k = <<j, d>> /\ rows[j][d].active > 0
        BY DEF ActiveKeys, KeysOf, RowAt
      <4>3. j \in Line /\ Taken(o, t, j, d) # rows[j][d].active
        BY <1>3, <4>1, <4>2 DEF LinesOf, RowAt
      <4>4. rows'[j][d].active > 0
        BY <1>1, <1>2, <4>3
      <4> QED BY <4>4 DEF HasActive
    <3>4. CASE ~\E k \in DOMAIN t : t[k] > 0
      <4>1. ~(Taken(o, t, i, c) > 0)
        BY <1>1, <1>3, <3>1, <3>2, <3>4
      <4>2. rows'[i][c].active > 0
        BY <1>1, <1>2, <3>1, <3>2, <4>1
      <4> QED BY <4>2 DEF HasActive
    <3> QED BY <1>6, <3>3, <3>4 DEF Closed
  <2>3. ASSUME ~HasActive(o) PROVE ~HasActive(o)'
    BY <2>3, HandedKept, QuietKept
  <2>4. Shows(o)'
    BY <2>1, <2>2, <2>3 DEF Shows, StateFollowsRows
  <2> QED BY <1>4, <2>4 DEF Shows, StateFollowsRows
<1> QED BY <1>5, <1>6

LEMMA StateStep == TypeInv /\ StateFollowsRows /\ [Next]_vars => StateFollowsRows'
<1> SUFFICES ASSUME TypeInv, StateFollowsRows, [Next]_vars PROVE StateFollowsRows'
  OBVIOUS
<1>0. TypeOK
  BY DEF TypeInv
<1>1. ASSUME NEW o \in Order, Commit(o) PROVE StateFollowsRows'
  <2> DEFINE n == cycle[o] + 1
  <2>1. n \in Cycle /\ \A i \in Line, c \in Cycle :
          rows'[i][c].active = IF i \in LinesOf(o) /\ c = n THEN Wanted[i] ELSE rows[i][c].active
    BY <1>1, CommitRows
  <2> HIDE DEF n
  <2>2. \A p \in Order : p # o => (HasActive(p)' <=> HasActive(p))
    BY <2>1 DEF HasActive, LinesOf
  <2>3. HasActive(o)'
    <3>1. PICK i \in Line : OrderOf[i] = o
      BY StockAssumption DEF StockAssumption
    <3>2. Wanted[i] > 0
      BY StockAssumption DEF StockAssumption
    <3>3. i \in LinesOf(o) /\ rows'[i][n].active > 0
      BY <2>1, <3>1, <3>2 DEF LinesOf
    <3> QED BY <2>1, <3>3 DEF HasActive
  <2>4. \A p \in Order : rstate'[p] = IF p = o THEN "RESERVED" ELSE rstate[p]
    BY <1>1 DEF Commit, TypeInv, TypeOK
  <2> QED BY <2>2, <2>3, <2>4 DEF StateFollowsRows
<1>2. ASSUME NEW o \in Order, HoldOrder(o) \/ MarkFailed(o) PROVE StateFollowsRows'
  <2>1. \A p \in Order : HasActive(p)' <=> HasActive(p)
    BY <1>2 DEF HoldOrder, MarkFailed, HasActive
  <2>2. \A p \in Order : p # o => rstate'[p] = rstate[p]
    BY <1>2 DEF HoldOrder, MarkFailed, TypeInv, TypeOK
  <2>3. \/ rstate'[o] \in {"AWAITING", rstate[o]}
        \/ rstate'[o] = "FAILED" /\ ~HasActive(o)
    BY <1>2 DEF HoldOrder, MarkFailed, MarksFailed, TypeInv, TypeOK
  <2> QED BY <2>1, <2>2, <2>3 DEF StateFollowsRows
<1>3. ASSUME NEW o \in Order, Release(o) \/ CancelOrder(o) PROVE StateFollowsRows'
  <2>1. rows' = ReleasedRows(o)
    BY <1>3 DEF Release, CancelOrder
  <2>2. Kept /\ ~HasActive(o)'
    BY <1>0, <2>1, ReleasedKept DEF HasActive
  <2>3. \A p \in Order : p # o => (HasActive(p)' <=> HasActive(p))
    BY <2>1 DEF ReleasedRows, HasActive, LinesOf
  <2>4. \A p \in Order : p # o => rstate'[p] = rstate[p]
    BY <1>3 DEF Release, CancelOrder, TypeInv, TypeOK
  <2>5. rstate'[o] # "RESERVED"
    BY <1>3 DEF Release, CancelOrder, TypeInv, TypeOK, StateFollowsRows
  <2> QED BY <2>2, <2>3, <2>4, <2>5 DEF StateFollowsRows
<1>4. ASSUME NEW o \in Order, ReturnToQueue(o) PROVE StateFollowsRows'
  <2>1. Kept
    BY <1>0, <1>4, ExpiredKept
  <2>2. \A p \in Order : rstate'[p] = IF p = o /\ rstate[o] = "RESERVED" THEN "AWAITING" ELSE rstate[p]
    BY <1>4 DEF ReturnToQueue, TypeInv, TypeOK
  <2>3. \A p \in Order : p # o => (HasActive(p)' <=> HasActive(p))
    <3> SUFFICES ASSUME NEW p \in Order, p # o PROVE HasActive(p)' <=> HasActive(p)
      OBVIOUS
    <3>1. \A i \in LinesOf(p) : rows'[i] = rows[i]
      BY <1>4 DEF ReturnToQueue, LinesOf
    <3> QED BY <3>1 DEF HasActive
  <2> QED BY <1>0, <2>1, <2>2, <2>3, QuietKept DEF StateFollowsRows
<1>5. ASSUME NEW o \in Registered, NEW said \in Sayings, NEW discarded \in BOOLEAN,
             \/ RegistrationResult(o, said, discarded)
             \/ \E warehouse \in BOOLEAN : OrderChanged(o, said, discarded, warehouse)
      PROVE  StateFollowsRows'
  <2>1. o \in Order
    BY StockAssumption DEF StockAssumption
  <2>2. \E w \in BOOLEAN : HandOver(o, said, w)
    BY <1>5 DEF RegistrationResult, OrderChanged
  <2> QED BY <1>0, <2>1, <2>2, HandedShows
<1>6. CASE UNCHANGED <<rows, rstate>>
  BY <1>6 DEF StateFollowsRows, HasActive
<1> QED
  BY <1>1, <1>2, <1>3, <1>4, <1>5, <1>6
  DEF Next, vars, BeginReserve, LockLevel, Pick, Shortfall, Abort, Extend, Sweep, ReportStock

\* The order's reservationState tells of its rows what the manager relies on, for any orders,
\* lines, quantities and events of the ERP: RESERVED has active rows, RELEASED and FAILED none.
THEOREM StateTellsOfRows == Spec => []StateFollowsRows
<1>1. Init => StateFollowsRows
  BY DEF Init, StateFollowsRows
<1> QED BY <1>1, InitTyped, NextTyped, StateStep, PTL DEF Spec

-----------------------------------------------------------------------------
(* Totals of rows *)

LEMMA KeysFinite == IsFiniteSet(Cycle) /\ IsFiniteSet(Keys)
<1>1. IsFiniteSet(Line) /\ OrderOf \in Surjection(Line, Order)
  BY StockAssumption DEF StockAssumption, Surjection
<1>2. IsFiniteSet(Order)
  BY <1>1, FS_Surjection
<1> DEFINE Upto == [o \in Order |-> 1..MaxCycle[o]]
<1>3. Upto \in Surjection(Order, {1..MaxCycle[o] : o \in Order})
  BY DEF Surjection
<1>4. IsFiniteSet({1..MaxCycle[o] : o \in Order})
  <2> HIDE DEF Upto
  <2> QED BY <1>2, <1>3, FS_Surjection
<1>5. \A T \in {1..MaxCycle[o] : o \in Order} : IsFiniteSet(T)
  BY FS_Interval, StockAssumption DEF StockAssumption
<1>6. IsFiniteSet(Cycle)
  BY <1>4, <1>5, FS_UNION DEF Cycle
<1> QED BY <1>1, <1>6, FS_Product DEF Keys

LEMMA KeyTyped ==
  ASSUME TypeOK, NEW k \in Keys
  PROVE  /\ k[1] \in Line /\ k[2] \in Cycle /\ k = <<k[1], k[2]>>
         /\ RowAt(k) \in Row /\ RowAt(k) = rows[k[1]][k[2]]
         /\ Active[k] = RowAt(k).active /\ Active[k] \in Nat
         /\ HandedOn[k] = RowAt(k).handed /\ HandedOn[k] \in Nat
  BY DEF Keys, TypeOK, RowAt, Active, HandedOn, Row

\* Totals are sums, of quantities that are not negative.
LEMMA TotalNat ==
  ASSUME TypeOK, NEW K \in SUBSET Keys
  PROVE  /\ IsFiniteSet(K)
         /\ Total(Active, K) = Sum(Active, K) /\ Total(Active, K) \in Nat
         /\ Total(HandedOn, K) = Sum(HandedOn, K) /\ Total(HandedOn, K) \in Nat
<1>1. IsFiniteSet(K)
  BY KeysFinite, FS_Subset
<1>2. \A k \in K : Active[k] \in Nat /\ HandedOn[k] \in Nat
  BY KeyTyped
<1>3. Sum(Active, K) \in Nat /\ Sum(HandedOn, K) \in Nat
  BY <1>1, <1>2, SumNat
<1>4. Total(Active, K) = Sum(Active, K) /\ Total(HandedOn, K) = Sum(HandedOn, K)
  BY DEF Total, Sum
<1> QED BY <1>1, <1>3, <1>4

LEMMA NextRows ==
  ASSUME rows' \in Rows, NEW k \in Keys
  PROVE  /\ (RowAt(k))' = rows'[k[1]][k[2]]
         /\ Active'[k] = rows'[k[1]][k[2]].active /\ Active'[k] \in Nat
         /\ HandedOn'[k] = rows'[k[1]][k[2]].handed /\ HandedOn'[k] \in Nat
  BY DEF Keys, Rows, RowAt, Active, HandedOn, Row

\* What is reserved of a variant at a location only falls when the rows keep their places.
LEMMA ReservedFalls ==
  ASSUME TypeOK, Kept, NEW v, NEW l
  PROVE  /\ Reserved(v, l) \in Nat /\ Reserved(v, l)' \in Nat
         /\ Reserved(v, l)' <= Reserved(v, l)
<1> DEFINE K == {k \in Keys : VariantOf[k[1]] = v /\ RowAt(k).loc = l}
<1>1. rows' \in Rows
  BY DEF Kept
<1>2. \A k \in Keys : /\ (RowAt(k))'.loc = RowAt(k).loc
                      /\ Active[k] \in Nat /\ Active'[k] \in Nat /\ Active'[k] <= Active[k]
  <2> SUFFICES ASSUME NEW k \in Keys
               PROVE  /\ (RowAt(k))'.loc = RowAt(k).loc
                      /\ Active[k] \in Nat /\ Active'[k] \in Nat /\ Active'[k] <= Active[k]
    OBVIOUS
  <2>1. /\ k[1] \in Line /\ k[2] \in Cycle /\ RowAt(k) = rows[k[1]][k[2]]
        /\ Active[k] = RowAt(k).active /\ Active[k] \in Nat
    BY KeyTyped
  <2>2. /\ (RowAt(k))' = rows'[k[1]][k[2]]
        /\ Active'[k] = rows'[k[1]][k[2]].active /\ Active'[k] \in Nat
    BY <1>1, NextRows
  <2>3. /\ rows'[k[1]][k[2]].loc = rows[k[1]][k[2]].loc
        /\ rows'[k[1]][k[2]].active <= rows[k[1]][k[2]].active
    BY <2>1 DEF Kept
  <2> QED BY <2>1, <2>2, <2>3
<1>3. IsFiniteSet(K) /\ Total(Active, K) = Sum(Active, K) /\ Total(Active, K) \in Nat
  BY TotalNat
<1>4. Reserved(v, l) = Total(Active, K)
  BY DEF Reserved
<1>5. Reserved(v, l)' = Total(Active', K)
  <2>1. {k \in Keys : VariantOf[k[1]] = v /\ (RowAt(k))'.loc = l} = K
    BY <1>2
  <2>2. Reserved(v, l)' = Total(Active', {k \in Keys : VariantOf[k[1]] = v /\ (RowAt(k))'.loc = l})
    BY DEF Reserved
  <2> QED BY <2>1, <2>2
<1>6. Total(Active', K) = Sum(Active', K)
  BY DEF Total, Sum
<1>7. \A k \in K : /\ Active[k] \in Int /\ Active'[k] \in Int /\ Active'[k] <= Active[k]
                   /\ Active'[k] \in Nat
  BY <1>2
<1> HIDE DEF K
<1>8. Sum(Active', K) <= Sum(Active, K)
  BY <1>3, <1>7, SumMonotonic
<1>9. Sum(Active', K) \in Nat
  BY <1>3, <1>7, SumNat
<1> QED BY <1>3, <1>4, <1>5, <1>6, <1>8, <1>9

-----------------------------------------------------------------------------
(* Nothing is sold twice *)

\* No two jobs hold one level, and a job that has picked its locations holds all it locks.
LocksApart == \A o, p \in Order : o # p => job[o].locks \cap job[p].locks = {}
AllLocked == \A o \in Order : job[o].pc = "picked" => Missing(o) = {}
LocksInv == LocksApart /\ AllLocked

LEMMA LocksStep == TypeOK /\ LocksInv /\ [Next]_vars => LocksInv'
<1> SUFFICES ASSUME TypeOK, LocksInv, [Next]_vars PROVE LocksInv'
  OBVIOUS
<1>1. ASSUME NEW o \in Order, LockLevel(o) PROVE LocksInv'
  <2>1. PICK s \in Missing(o) : /\ job[o].pc = "locking" /\ SlotFree(s)
                                /\ job' = [job EXCEPT ![o].locks = @ \cup {s}]
    BY <1>1 DEF LockLevel
  <2>2. \A p \in Order : /\ job'[p].locks = IF p = o THEN job[o].locks \cup {s} ELSE job[p].locks
                         /\ job'[p].pc = job[p].pc
    BY <2>1 DEF TypeOK
  <2>3. \A p \in Order : s \notin job[p].locks
    BY <2>1 DEF SlotFree
  <2>4. LocksApart'
    <3> SUFFICES ASSUME NEW p \in Order, NEW q \in Order, p # q
                 PROVE  job'[p].locks \cap job'[q].locks = {}
      BY DEF LocksApart
    <3>1. job[p].locks \cap job[q].locks = {}
      BY DEF LocksInv, LocksApart
    <3> QED BY <2>2, <2>3, <3>1
  <2>5. AllLocked'
    <3> SUFFICES ASSUME NEW p \in Order, job'[p].pc = "picked" PROVE Missing(p)' = {}
      BY DEF AllLocked
    <3>1. p # o /\ job'[p].locks = job[p].locks /\ job[p].pc = "picked"
      BY <2>1, <2>2
    <3> QED BY <3>1 DEF LocksInv, AllLocked, Missing
  <2> QED BY <2>4, <2>5 DEF LocksInv
<1>2. ASSUME NEW o \in Order, job' = [job EXCEPT ![o] = Idle]
               \/ job' = [job EXCEPT ![o] = [Idle EXCEPT !.pc = "locking"]]
      PROVE  LocksInv'
  <2>1. \A p \in Order : /\ job'[p].locks = IF p = o THEN {} ELSE job[p].locks
                         /\ job'[p].pc = "picked" => p # o /\ job[p].pc = "picked"
    <3>1. PICK j \in {Idle, [Idle EXCEPT !.pc = "locking"]} : job' = [job EXCEPT ![o] = j]
      BY <1>2
    <3>2. j.locks = {} /\ j.pc # "picked"
      BY DEF Idle
    <3> HIDE DEF Idle
    <3> QED BY <3>1, <3>2 DEF TypeOK
  <2>2. LocksApart'
    BY <2>1 DEF LocksInv, LocksApart
  <2>3. AllLocked'
    BY <2>1 DEF LocksInv, AllLocked, Missing
  <2> QED BY <2>2, <2>3 DEF LocksInv
<1>3. ASSUME NEW o \in Order, Pick(o) PROVE LocksInv'
  <2>1. Missing(o) = {} /\ \A p \in Order : /\ job'[p].locks = job[p].locks
                                            /\ p # o => job'[p].pc = job[p].pc
    BY <1>3 DEF Pick, TypeOK
  <2>2. \A p \in Order : Missing(p)' = Missing(p)
    BY <2>1 DEF Missing
  <2> QED BY <2>1, <2>2 DEF LocksInv, LocksApart, AllLocked
<1>4. CASE job' = job
  BY <1>4 DEF LocksInv, LocksApart, AllLocked, Missing
<1> QED
  BY <1>1, <1>2, <1>3, <1>4
  DEF Next, vars, BeginReserve, HoldOrder, Commit, Shortfall, Abort, MarkFailed, Release, CancelOrder,
      Extend, Sweep, ReturnToQueue, RegistrationResult, OrderChanged, ReportStock

\* Where picked levels are locked: a picked job locks its variants at every location, and no two
\* picked jobs have a variant in common.
LEMMA PickedLocks ==
  ASSUME TypeOK, LocksInv, NEW o \in Order, job[o].pc = "picked"
  PROVE  /\ \A i \in LinesOf(o), l \in Location : <<VariantOf[i], l>> \in job[o].locks
         /\ \A p \in Order : job[p].pc = "picked" /\ p # o => VariantsOf(o) \cap VariantsOf(p) = {}
<1>1. \A p \in Order : job[p].pc = "picked" => VariantsOf(p) \X Location \subseteq job[p].locks
  BY DEF LocksInv, AllLocked, Missing
<1>2. \A p \in Order : job[p].pc = "picked" /\ p # o => VariantsOf(o) \cap VariantsOf(p) = {}
  <2> SUFFICES ASSUME NEW p \in Order, job[p].pc = "picked", p # o,
                      NEW v \in VariantsOf(o), v \in VariantsOf(p)
               PROVE  FALSE
    OBVIOUS
  <2>1. PICK l \in Location : TRUE
    BY StockAssumption DEF StockAssumption
  <2>2. <<v, l>> \in job[o].locks \cap job[p].locks
    BY <1>1
  <2> QED BY <2>2 DEF LocksInv, LocksApart
<1> QED BY <1>1, <1>2 DEF VariantsOf

\* Active rows are of the order's last reservation.
LastActive == \A i \in Line, c \in Cycle : rows[i][c].active > 0 => c = cycle[OrderOf[i]]

\* What a picked plan takes is still free: what is reserved, what earlier lines take and what the
\* line wants together.
Fits(plan) ==
    \A i \in DOMAIN plan, l \in Location :
        plan[i] = l => Reserved(VariantOf[i], l) + TakenBefore(plan, i, l) + Wanted[i]
                         <= level[<<VariantOf[i], l>>].free
AllFit == \A o \in Order : \A plan \in Plan(o) : job[o].pc = "picked" /\ job[o].plan = plan => Fits(plan)

SoldInv == LastActive /\ AllFit

LEMMA WantedNat ==
  ASSUME NEW T \in SUBSET Line
  PROVE  /\ IsFiniteSet(T) /\ Total(Wanted, T) = Sum(Wanted, T) /\ Total(Wanted, T) \in Nat
         /\ \A i \in T : Wanted[i] \in Nat /\ Wanted[i] >= 1
<1>1. IsFiniteSet(T)
  BY FS_Subset, StockAssumption DEF StockAssumption
<1>2. \A i \in T : Wanted[i] \in Nat /\ Wanted[i] >= 1
  BY StockAssumption DEF StockAssumption
<1>3. Sum(Wanted, T) \in Nat
  BY <1>1, <1>2, SumNat
<1> QED BY <1>1, <1>2, <1>3 DEF Total, Sum

LEMMA TakenNat ==
  ASSUME NEW o \in Order, NEW plan \in Plan(o), NEW i, NEW l
  PROVE  TakenBefore(plan, i, l) \in Nat
<1>1. {j \in DOMAIN plan : j < i /\ VariantOf[j] = VariantOf[i] /\ plan[j] = l} \in SUBSET Line
  BY DEF Plan, LinesOf
<1> QED BY <1>1, WantedNat DEF TakenBefore

LEMMA LevelTyped ==
  ASSUME TypeOK, NEW v \in Variant, NEW l \in Location
  PROVE  level[<<v, l>>].free \in Int /\ level[<<v, l>>].cap \in Int \cup {None}
<1>1. level[<<v, l>>] \in Report \cup {FirstLevel}
  BY DEF TypeOK, Slot
<1>2. level[<<v, l>>] \in [free: Int, cap: Int \cup {None}]
  BY <1>1, StockAssumption DEF StockAssumption
<1> QED BY <1>2

\* A line gets a location only if there is enough there.
LEMMA PickedFits ==
  ASSUME TypeOK, NEW o \in Order, NEW plan \in Plan(o), Picked(plan)
  PROVE  Fits(plan)
<1> SUFFICES ASSUME NEW i \in DOMAIN plan, NEW l \in Location, plan[i] = l
             PROVE  Reserved(VariantOf[i], l) + TakenBefore(plan, i, l) + Wanted[i]
                      <= level[<<VariantOf[i], l>>].free
  BY DEF Fits
<1> DEFINE v == VariantOf[i]
           held(k) == Reserved(v, k) + TakenBefore(plan, i, k)
           free == [k \in Location |-> Free(level[<<v, k>>], held(k))]
           best == CHOOSE k \in Location :
                     \A m \in Location : free[m] < free[k] \/ (free[m] = free[k] /\ k <= m)
<1>1. plan[i] = IF free[best] < Wanted[i] THEN None ELSE best
  BY DEF Picked
<1>2. i \in Line /\ v \in Variant /\ Wanted[i] \in Nat /\ Wanted[i] >= 1
  BY StockAssumption DEF StockAssumption, Plan, LinesOf
<1>3. l \in Nat /\ l # None
  BY StockAssumption DEF StockAssumption
<1>4. best = l /\ ~(free[l] < Wanted[i])
  BY <1>1, <1>3
<1>5. free[l] = Free(level[<<v, l>>], held(l))
  OBVIOUS
<1>6. Reserved(v, l) \in Nat
  BY TotalNat DEF Reserved
<1>7. TakenBefore(plan, i, l) \in Nat
  BY TakenNat
<1>8. level[<<v, l>>].free \in Int /\ level[<<v, l>>].cap \in Int \cup {None}
  BY <1>2, LevelTyped
<1>9. held(l) \in Nat
  BY <1>6, <1>7
<1> HIDE DEF free, best, v
<1>10. ~(Free(level[<<v, l>>], held(l)) < Wanted[i])
  BY <1>4, <1>5
<1> HIDE DEF held
<1>11. held(l) + Wanted[i] <= level[<<v, l>>].free
  <2>1. CASE level[<<v, l>>].cap = None
    BY <1>2, <1>8, <1>9, <1>10, <2>1 DEF Free, AtLeast0
  <2>2. CASE level[<<v, l>>].cap # None
    BY <1>2, <1>8, <1>9, <1>10, <2>2 DEF Free, AtLeast0, Smaller
  <2> QED BY <2>1, <2>2
<1> QED BY <1>11 DEF held, v

\* Plans go on fitting where no more is reserved and the levels stay.
LEMMA FitsKept ==
  ASSUME TypeOK, NEW o \in Order, NEW plan \in Plan(o), Fits(plan),
         \A i \in LinesOf(o), l \in Location :
            /\ level'[<<VariantOf[i], l>>] = level[<<VariantOf[i], l>>]
            /\ Reserved(VariantOf[i], l) \in Nat /\ Reserved(VariantOf[i], l)' \in Nat
            /\ Reserved(VariantOf[i], l)' <= Reserved(VariantOf[i], l)
  PROVE  Fits(plan)'
<1> SUFFICES ASSUME NEW i \in DOMAIN plan, NEW l \in Location, plan[i] = l
             PROVE  Reserved(VariantOf[i], l)' + TakenBefore(plan, i, l) + Wanted[i]
                      <= level'[<<VariantOf[i], l>>].free
  BY DEF Fits, TakenBefore
<1>1. i \in LinesOf(o) /\ i \in Line
  BY DEF Plan, LinesOf
<1>2. VariantOf[i] \in Variant /\ Wanted[i] \in Nat
  BY <1>1, StockAssumption DEF StockAssumption
<1>3. TakenBefore(plan, i, l) \in Nat /\ level[<<VariantOf[i], l>>].free \in Int
  BY <1>2, TakenNat, LevelTyped
<1>4. Reserved(VariantOf[i], l) + TakenBefore(plan, i, l) + Wanted[i]
        <= level[<<VariantOf[i], l>>].free
  BY DEF Fits
<1>5. /\ level'[<<VariantOf[i], l>>] = level[<<VariantOf[i], l>>]
      /\ Reserved(VariantOf[i], l) \in Nat /\ Reserved(VariantOf[i], l)' \in Nat
      /\ Reserved(VariantOf[i], l)' <= Reserved(VariantOf[i], l)
  BY <1>1
<1> QED BY <1>2, <1>3, <1>4, <1>5

\* The lines of an order that take a variant from a location.
TakesOf(o, v, l) == {i \in LinesOf(o) : VariantOf[i] = v /\ job[o].plan[i] = l}

\* A reservation adds what its lines take to what was reserved.
LEMMA CommitReserved ==
  ASSUME TypeInv, LastActive, NEW o \in Order, Commit(o), NEW v, NEW l
  PROVE  /\ Reserved(v, l) \in Nat
         /\ Reserved(v, l)' = Reserved(v, l) + Sum(Wanted, TakesOf(o, v, l))
<1> DEFINE n == cycle[o] + 1
           plan == job[o].plan
           T == TakesOf(o, v, l)
           K == {k \in Keys : VariantOf[k[1]] = v}
           K1 == {k \in K : RowAt(k).loc = l}
           K2 == {k \in K : rows'[k[1]][k[2]].loc = l}
           f == [k \in Keys |-> IF RowAt(k).loc = l THEN Active[k] ELSE 0]
           g == [k \in Keys |-> IF rows'[k[1]][k[2]].loc = l THEN Active'[k] ELSE 0]
           add == [k \in Keys |-> IF k[1] \in T /\ k[2] = n THEN Wanted[k[1]] ELSE 0]
           h == [i \in T |-> <<i, n>>]
<1>0. TypeOK /\ rows' \in Rows
  BY CommitTyped DEF TypeInv, TypeOK, Rows
<1>1. /\ n \in Cycle /\ n # cycle[o]
      /\ \A i \in Line, c \in Cycle :
           IF i \in LinesOf(o) /\ c = n
           THEN rows'[i][c].active = Wanted[i] /\ rows'[i][c].loc = plan[i]
           ELSE rows'[i][c] = rows[i][c]
  <2>1. cycle[o] \in Nat
    BY Cycles DEF TypeInv, TypeOK
  <2> QED BY <2>1, CommitRows
<1>2. T \in SUBSET Line /\ \A i \in T : i \in LinesOf(o) /\ VariantOf[i] = v /\ plan[i] = l
  BY DEF TakesOf, LinesOf
<1>3. IsFiniteSet(T) /\ \A i \in T : Wanted[i] \in Nat
  BY <1>2, WantedNat
<1>4. K \in SUBSET Keys /\ IsFiniteSet(K) /\ K1 \in SUBSET K /\ K2 \in SUBSET K
      /\ IsFiniteSet(K1) /\ IsFiniteSet(K2)
  BY KeysFinite, FS_Subset
<1>5. \A k \in K : /\ f[k] \in Nat /\ add[k] \in Nat /\ g[k] = f[k] + add[k]
                   /\ Active[k] \in Nat /\ Active'[k] \in Nat
  <2> SUFFICES ASSUME NEW k \in K
               PROVE  /\ f[k] \in Nat /\ add[k] \in Nat /\ g[k] = f[k] + add[k]
                      /\ Active[k] \in Nat /\ Active'[k] \in Nat
    OBVIOUS
  <2>1. /\ k[1] \in Line /\ k[2] \in Cycle /\ RowAt(k) = rows[k[1]][k[2]]
        /\ Active[k] = RowAt(k).active /\ Active[k] \in Nat /\ k \in Keys /\ VariantOf[k[1]] = v
    BY <1>0, KeyTyped
  <2>2. Active'[k] = rows'[k[1]][k[2]].active /\ Active'[k] \in Nat
    BY <1>0, <2>1, NextRows
  <2>3. f[k] = (IF RowAt(k).loc = l THEN Active[k] ELSE 0) /\ f[k] \in Nat
    BY <2>1
  <2>4. g[k] = IF rows'[k[1]][k[2]].loc = l THEN Active'[k] ELSE 0
    BY <2>1
  <2>5. add[k] = IF k[1] \in T /\ k[2] = n THEN Wanted[k[1]] ELSE 0
    BY <2>1
  <2>6. add[k] \in Nat
    BY <1>3, <2>5
  <2>7. CASE k[1] \in LinesOf(o) /\ k[2] = n
    <3>1. rows'[k[1]][k[2]].active = Wanted[k[1]] /\ rows'[k[1]][k[2]].loc = plan[k[1]]
      BY <1>1, <2>1, <2>7
    <3>2. ~(rows[k[1]][k[2]].active > 0)
      BY <1>1, <2>1, <2>7 DEF LastActive, LinesOf
    <3>3. Active[k] = 0
      BY <2>1, <3>2
    <3>4. k[1] \in T <=> plan[k[1]] = l
      BY <2>1, <2>7 DEF TakesOf
    <3>5. f[k] = 0
      BY <2>3, <3>3
    <3>6. g[k] = add[k]
      BY <2>2, <2>4, <2>5, <2>7, <3>1, <3>4
    <3> HIDE DEF f, g, add
    <3> QED BY <2>1, <2>2, <2>3, <2>6, <3>5, <3>6
  <2>8. CASE ~(k[1] \in LinesOf(o) /\ k[2] = n)
    <3>1. rows'[k[1]][k[2]] = rows[k[1]][k[2]]
      BY <1>1, <2>1, <2>8
    <3>2. add[k] = 0
      BY <1>2, <2>5, <2>8
    <3>3. g[k] = f[k]
      BY <2>1, <2>2, <2>3, <2>4, <3>1
    <3> HIDE DEF f, g, add
    <3> QED BY <2>1, <2>2, <2>3, <2>6, <3>2, <3>3
  <2> QED BY <2>7, <2>8
<1>6. Sum(g, K) = Sum(f, K) + Sum(add, K)
  <2> HIDE DEF f, g, add, K
  <2>1. \A k \in K : f[k] \in Int /\ add[k] \in Int /\ g[k] = f[k] + add[k]
    BY <1>5
  <2> QED BY <1>4, <2>1, SumAdd
<1>7. Reserved(v, l) = Sum(f, K) /\ Reserved(v, l) \in Nat
  <2>1. \A k \in K1 : f[k] = Active[k] /\ f[k] \in Int
    BY <1>4, <1>5
  <2>2. \A k \in K \ K1 : f[k] = 0
    OBVIOUS
  <2>3. Reserved(v, l) = Total(Active, K1)
    <3>1. {k \in Keys : VariantOf[k[1]] = v /\ RowAt(k).loc = l} = K1
      OBVIOUS
    <3> QED BY <3>1 DEF Reserved
  <2>4. Total(Active, K1) = Sum(Active, K1) /\ Total(Active, K1) \in Nat
    <3> HIDE DEF K1
    <3> QED BY <1>0, <1>4, TotalNat
  <2> HIDE DEF f, K, K1
  <2>5. Sum(f, K) = Sum(f, K1)
    BY <1>4, <2>1, <2>2, SumZeros
  <2>6. Sum(f, K1) = Sum(Active, K1)
    BY <1>4, <2>1, SumEqual
  <2> QED BY <2>3, <2>4, <2>5, <2>6
<1>8. Reserved(v, l)' = Sum(g, K)
  <2>1. \A k \in K2 : g[k] = Active'[k] /\ g[k] \in Int
    BY <1>4, <1>5
  <2>2. \A k \in K \ K2 : g[k] = 0
    OBVIOUS
  <2>3. Reserved(v, l)' = Total(Active', K2)
    <3>1. {k \in Keys : VariantOf[k[1]] = v /\ (RowAt(k))'.loc = l} = K2
      BY DEF RowAt
    <3>2. Reserved(v, l)' = Total(Active', {k \in Keys : VariantOf[k[1]] = v /\ (RowAt(k))'.loc = l})
      BY DEF Reserved
    <3> QED BY <3>1, <3>2
  <2>4. Total(Active', K2) = Sum(Active', K2)
    BY DEF Total, Sum
  <2> HIDE DEF g, K, K2
  <2>5. Sum(g, K) = Sum(g, K2)
    BY <1>4, <2>1, <2>2, SumZeros
  <2>6. Sum(g, K2) = Sum(Active', K2)
    BY <1>4, <2>1, SumEqual
  <2> QED BY <2>3, <2>4, <2>5, <2>6
<1>9. Sum(add, K) = Sum(Wanted, T)
  <2> DEFINE I == {h[i] : i \in T}
  <2>1. \A i, j \in T : h[i] = h[j] => i = j
    OBVIOUS
  <2>2. \A i \in T : Wanted[i] \in Int /\ h[i] \in K /\ add[h[i]] = Wanted[i]
    BY <1>1, <1>2, <1>3 DEF Keys
  <2>3. I \in SUBSET K /\ \A k \in I : add[k] \in Int
    <3> HIDE DEF add, h, K, T
    <3> QED BY <1>5, <2>2
  <2>4. \A k \in K \ I : add[k] = 0
    <3> SUFFICES ASSUME NEW k \in K, add[k] # 0 PROVE k \in I
      OBVIOUS
    <3>1. k \in Keys /\ k[1] \in T /\ k[2] = n
      OBVIOUS
    <3>2. k = h[k[1]]
      BY <3>1 DEF Keys
    <3> QED BY <3>1, <3>2
  <2>5. Sum(add, K) = Sum(add, I)
    <3> HIDE DEF add, K, I
    <3> QED BY <1>4, <2>3, <2>4, SumZeros
  <2>6. Sum(add, I) = Sum(Wanted, T)
    <3> HIDE DEF add, K, h, T
    <3> QED BY <1>3, <2>1, <2>2, SumReindex
  <2> QED BY <2>5, <2>6
<1> HIDE DEF f, g, add, K, T
<1> QED BY <1>6, <1>7, <1>8, <1>9 DEF T

\* Some finite set of numbers has a largest one.
LEMMA FiniteMax ==
  ASSUME NEW T, IsFiniteSet(T), T # {}, \A x \in T : x \in Nat
  PROVE  \E m \in T : \A x \in T : x <= m
<1> DEFINE B == {s \in SUBSET T : s # {} /\ ~\E m \in s : \A x \in s : x <= m}
<1>0. SUFFICES ASSUME B # {} PROVE FALSE
  OBVIOUS
<1>1. PICK s \in B : \A u \in B : u \subseteq s => u = s
  <2> HIDE DEF B
  <2>1. B \in SUBSET (SUBSET T)
    BY DEF B
  <2> QED BY <1>0, <2>1, SmallestSubset
<1>2. s \in SUBSET T /\ s # {} /\ ~\E m \in s : \A x \in s : x <= m
  OBVIOUS
<1>3. PICK y \in s : TRUE
  BY <1>2
<1>4. s \ {y} \notin B /\ s \ {y} \in SUBSET T
  BY <1>1, <1>2, <1>3
<1>5. s \ {y} # {}
  <2> SUFFICES ASSUME s \ {y} = {} PROVE FALSE
    OBVIOUS
  <2>1. \A x \in s : x <= y
    BY <1>2
  <2> QED BY <1>2, <2>1
<1>6. PICK m \in s \ {y} : \A x \in s \ {y} : x <= m
  BY <1>4, <1>5
<1>7. CASE y <= m
  BY <1>2, <1>6, <1>7
<1>8. CASE ~(y <= m)
  <2>1. \A x \in s : x <= y
    BY <1>2, <1>6, <1>8
  <2> QED BY <1>2, <2>1
<1> QED BY <1>7, <1>8

\* What a reservation adds somewhere was free there.
LEMMA CommitFits ==
  ASSUME TypeInv, SoldInv, NEW o \in Order, Commit(o), NEW v \in Variant, NEW l \in Location,
         Reserved(v, l)' > Reserved(v, l)
  PROVE  Reserved(v, l)' <= level[<<v, l>>].free
<1> DEFINE plan == job[o].plan
           T == TakesOf(o, v, l)
<1>1. /\ Reserved(v, l) \in Nat
      /\ Reserved(v, l)' = Reserved(v, l) + Sum(Wanted, T)
  BY CommitReserved DEF SoldInv
<1>2. T \in SUBSET Line /\ T \in SUBSET Nat
  BY StockAssumption DEF StockAssumption, TakesOf, LinesOf
<1>3. IsFiniteSet(T) /\ \A i \in T : Wanted[i] \in Nat
  BY <1>2, WantedNat
<1>4. T # {}
  <2> SUFFICES ASSUME T = {} PROVE FALSE
    OBVIOUS
  <2>1. Sum(Wanted, T) = 0
    BY SumEmpty
  <2> HIDE DEF T
  <2> QED BY <1>1, <2>1
<1>5. PICK m \in T : \A x \in T : x <= m
  <2>1. \A i \in T : i \in Nat
    BY <1>2
  <2> HIDE DEF T
  <2> QED BY <1>3, <1>4, <2>1, FiniteMax
<1>6. plan \in Plan(o) /\ DOMAIN plan = LinesOf(o) /\ job[o].pc = "picked"
  BY DEF Commit, TypeInv, TypeOK, Plan
<1>7. m \in DOMAIN plan /\ VariantOf[m] = v /\ plan[m] = l
  BY <1>6 DEF TakesOf
<1>8. Reserved(v, l) + TakenBefore(plan, m, l) + Wanted[m] <= level[<<v, l>>].free
  <2>1. Fits(plan)
    BY <1>6 DEF SoldInv, AllFit
  <2> QED BY <1>7, <2>1 DEF Fits
<1>9. Sum(Wanted, T) = Wanted[m] + Sum(Wanted, T \ {m})
  <2>1. \A i \in T : Wanted[i] \in Int
    BY <1>3
  <2> HIDE DEF T
  <2> QED BY <1>3, <2>1, SumRemove
<1>10. TakenBefore(plan, m, l) = Sum(Wanted, T \ {m})
  <2>1. {j \in DOMAIN plan : j < m /\ VariantOf[j] = VariantOf[m] /\ plan[j] = l} = T \ {m}
    <3>1. \A j \in T : j # m <=> j < m
      BY <1>2, <1>5
    <3>2. \A j : j \in T <=> j \in DOMAIN plan /\ VariantOf[j] = VariantOf[m] /\ plan[j] = l
      BY <1>6, <1>7 DEF TakesOf
    <3> HIDE DEF T, plan
    <3> QED BY <3>1, <3>2
  <2> HIDE DEF T
  <2> QED BY <2>1 DEF TakenBefore, Total, Sum
<1>11. TakenBefore(plan, m, l) \in Nat /\ Wanted[m] \in Nat
  BY <1>3, <1>5, <1>6, TakenNat
<1> HIDE DEF T, plan
<1> QED BY <1>1, <1>8, <1>9, <1>10, <1>11

\* What a step does to the rows, the locked levels and the jobs that have picked.
Handing(o, said, warehouse) ==
    /\ HandOver(o, said, warehouse) /\ cycle' = cycle
    /\ \A v \in Variant : said[v] # None => erp'[o].held[v] = said[v]
    /\ warehouse => erp'[o].started

LEMMA RowsStep ==
  ASSUME TypeInv, [Next]_vars
  PROVE  \/ Kept /\ NoneHanded /\ cycle' = cycle
         \/ \E o \in Order : Commit(o)
         \/ \E o \in Registered, said \in Sayings, warehouse \in BOOLEAN : Handing(o, said, warehouse)
<1>0. TypeOK
  BY DEF TypeInv
<1>1. ASSUME NEW o \in Order, Release(o) \/ CancelOrder(o) PROVE Kept /\ NoneHanded /\ cycle' = cycle
  BY <1>0, <1>1, ReleasedKept DEF Release, CancelOrder
<1>2. ASSUME NEW o \in Order, ReturnToQueue(o) PROVE Kept /\ NoneHanded /\ cycle' = cycle
  BY <1>0, <1>2, ExpiredKept DEF ReturnToQueue
<1>3. ASSUME NEW o \in Registered, NEW said \in Sayings, NEW discarded \in BOOLEAN,
             RegistrationResult(o, said, discarded)
      PROVE  Handing(o, said, FALSE)
  <2>1. o \in Order /\ said \in [Variant -> Nat \cup {None}]
    BY StockAssumption DEF StockAssumption
  <2>2. erp'[o].held = Recorded(o, said, discarded)
    BY <1>0, <1>3, <2>1 DEF RegistrationResult, TypeOK
  <2>3. \A v \in Variant : said[v] # None => Recorded(o, said, discarded)[v] = said[v]
    BY DEF Recorded
  <2> QED BY <1>3, <2>2, <2>3 DEF RegistrationResult, Handing
<1>4. ASSUME NEW o \in Registered, NEW said \in Sayings, NEW discarded \in BOOLEAN,
             NEW warehouse \in BOOLEAN, OrderChanged(o, said, discarded, warehouse)
      PROVE  Handing(o, said, warehouse)
  <2>1. o \in Order /\ said \in [Variant -> Nat \cup {None}]
    BY StockAssumption DEF StockAssumption
  <2>2. erp'[o].held = Recorded(o, said, discarded) /\ erp'[o].started = warehouse
    BY <1>0, <1>4, <2>1 DEF OrderChanged, TypeOK
  <2>3. \A v \in Variant : said[v] # None => Recorded(o, said, discarded)[v] = said[v]
    BY DEF Recorded
  <2> QED BY <1>4, <2>2, <2>3 DEF OrderChanged, Handing
<1>5. CASE UNCHANGED <<rows, cycle>>
  BY <1>0, <1>5, SameKept
<1> QED
  BY <1>1, <1>2, <1>3, <1>4, <1>5
  DEF Next, vars, BeginReserve, HoldOrder, LockLevel, Pick, Shortfall, Abort, MarkFailed, Extend, Sweep,
      ReportStock

LEMMA KeptOrCommit ==
  ASSUME TypeInv, [Next]_vars
  PROVE  (Kept /\ cycle' = cycle) \/ \E o \in Order : Commit(o)
<1>1. ASSUME NEW o \in Registered, NEW said \in Sayings, NEW warehouse \in BOOLEAN,
             Handing(o, said, warehouse)
      PROVE  Kept /\ cycle' = cycle
  <2>1. o \in Order
    BY StockAssumption DEF StockAssumption
  <2> QED BY <1>1, <2>1, HandedKept DEF Handing, TypeInv
<1> QED BY <1>1, RowsStep

LEMMA LevelsStay ==
  ASSUME TypeOK, [Next]_vars, NEW p \in Order, NEW s \in job[p].locks
  PROVE  level'[s] = level[s]
<1>1. ASSUME NEW u \in Slot, NEW r \in Report, ReportStock(u, r) PROVE level'[s] = level[s]
  BY <1>1 DEF ReportStock, SlotFree, TypeOK
<1>2. CASE level' = level
  BY <1>2
<1> QED
  BY <1>1, <1>2
  DEF Next, vars, BeginReserve, HoldOrder, LockLevel, Pick, Commit, Shortfall, Abort, MarkFailed, Release,
      CancelOrder, Extend, Sweep, ReturnToQueue, RegistrationResult, OrderChanged

LEMMA PickedBefore ==
  ASSUME TypeOK, [Next]_vars, NEW p \in Order, job'[p].pc = "picked"
  PROVE  job'[p] = job[p] \/ Pick(p)
<1>1. ASSUME NEW o \in Order, NEW j, j.pc # "picked", job' = [job EXCEPT ![o] = j] PROVE job'[p] = job[p]
  BY <1>1 DEF TypeOK
<1>2. ASSUME NEW o \in Order, LockLevel(o) PROVE job'[p] = job[p]
  <2>1. PICK s \in Missing(o) : job[o].pc = "locking" /\ job' = [job EXCEPT ![o].locks = @ \cup {s}]
    BY <1>2 DEF LockLevel
  <2> QED BY <2>1 DEF TypeOK
<1>3. ASSUME NEW o \in Order, Pick(o) PROVE job'[p] = job[p] \/ Pick(p)
  BY <1>3 DEF Pick, TypeOK
<1>4. ASSUME NEW o \in Order, BeginReserve(o) PROVE job'[p] = job[p]
  <2>1. [Idle EXCEPT !.pc = "locking"].pc # "picked"
    BY DEF Idle
  <2> QED BY <1>1, <1>4, <2>1 DEF BeginReserve
<1>5. ASSUME NEW o \in Order, Commit(o) \/ Shortfall(o) \/ Abort(o) PROVE job'[p] = job[p]
  <2>1. Idle.pc # "picked"
    BY DEF Idle
  <2> QED BY <1>1, <1>5, <2>1 DEF Commit, Shortfall, Abort
<1>6. CASE job' = job
  BY <1>6
<1> QED
  BY <1>2, <1>3, <1>4, <1>5, <1>6
  DEF Next, vars, HoldOrder, MarkFailed, Release, CancelOrder, Extend, Sweep, ReturnToQueue,
      RegistrationResult, OrderChanged, ReportStock

LEMMA CommitSameOrder ==
  ASSUME TypeInv, Working, NEW o \in Order, Commit(o), LastActive
  PROVE  LastActive'
<1>1. \A i \in Line, c \in Cycle :
        rows'[i][c].active = IF i \in LinesOf(o) /\ c = cycle[o] + 1 THEN Wanted[i] ELSE rows[i][c].active
  BY CommitRows
<1>2. ~HasActive(o)
  BY DEF Commit, Working
<1>3. \A p \in Order : cycle'[p] = IF p = o THEN cycle[o] + 1 ELSE cycle[p]
  BY DEF Commit, TypeInv, TypeOK
<1>4. \A i \in Line : OrderOf[i] \in Order /\ (i \in LinesOf(o) <=> OrderOf[i] = o)
  BY StockAssumption DEF StockAssumption, LinesOf
<1> SUFFICES ASSUME NEW i \in Line, NEW c \in Cycle, rows'[i][c].active > 0
             PROVE  c = cycle'[OrderOf[i]]
  BY DEF LastActive
<1>5. CASE OrderOf[i] = o
  BY <1>1, <1>2, <1>3, <1>4, <1>5 DEF HasActive
<1>6. CASE OrderOf[i] # o
  BY <1>1, <1>3, <1>4, <1>6 DEF LastActive
<1> QED BY <1>5, <1>6

LEMMA SoldStep == TypeInv /\ OneInv /\ LocksInv /\ SoldInv /\ [Next]_vars => SoldInv'
<1> SUFFICES ASSUME TypeInv, OneInv, LocksInv, SoldInv, [Next]_vars PROVE SoldInv'
  OBVIOUS
<1>0. TypeOK /\ LastActive /\ Working /\ AllFit
  BY DEF TypeInv, SoldInv, OneInv
<1>1. (Kept /\ cycle' = cycle) \/ \E o \in Order : Commit(o)
  BY KeptOrCommit
<1>2. LastActive'
  <2>1. CASE Kept /\ cycle' = cycle
    BY <1>0, <2>1, ActiveBefore DEF LastActive
  <2>2. ASSUME NEW o \in Order, Commit(o) PROVE LastActive'
    BY <1>0, <2>2, CommitSameOrder
  <2> QED BY <1>1, <2>1, <2>2
<1>3. AllFit'
  <2> SUFFICES ASSUME NEW p \in Order, NEW plan \in Plan(p), job'[p].pc = "picked", job'[p].plan = plan
               PROVE  Fits(plan)'
    BY DEF AllFit, Plan, LinesOf
  <2>1. CASE job'[p] = job[p]
    <3>1. job[p].pc = "picked" /\ Fits(plan)
      BY <1>0, <2>1 DEF AllFit
    <3>2. \A i \in LinesOf(p), l \in Location : level'[<<VariantOf[i], l>>] = level[<<VariantOf[i], l>>]
      BY <1>0, <3>1, PickedLocks, LevelsStay
    <3>3. ASSUME NEW i \in LinesOf(p), NEW l \in Location
          PROVE  /\ Reserved(VariantOf[i], l) \in Nat /\ Reserved(VariantOf[i], l)' \in Nat
                 /\ Reserved(VariantOf[i], l)' <= Reserved(VariantOf[i], l)
      <4>1. CASE Kept
        BY <1>0, <4>1, ReservedFalls
      <4>2. ASSUME NEW o \in Order, Commit(o)
            PROVE  /\ Reserved(VariantOf[i], l) \in Nat /\ Reserved(VariantOf[i], l)' \in Nat
                   /\ Reserved(VariantOf[i], l)' <= Reserved(VariantOf[i], l)
        <5>1. job[o].pc = "picked" /\ o # p
          BY <2>1, <3>1, <4>2, IdleTyped DEF Commit
        <5>2. VariantOf[i] \notin VariantsOf(o)
          BY <1>0, <3>1, <5>1, PickedLocks DEF VariantsOf
        <5>3. TakesOf(o, VariantOf[i], l) = {}
          BY <5>2 DEF TakesOf, VariantsOf
        <5>4. /\ Reserved(VariantOf[i], l) \in Nat
              /\ Reserved(VariantOf[i], l)' = Reserved(VariantOf[i], l) + Sum(Wanted, TakesOf(o, VariantOf[i], l))
          BY <1>0, <4>2, CommitReserved
        <5>5. Sum(Wanted, TakesOf(o, VariantOf[i], l)) = 0
          BY <5>3, SumEmpty
        <5> QED BY <5>4, <5>5
      <4> QED BY <1>1, <4>1, <4>2
    <3> QED BY <1>0, <3>1, <3>2, <3>3, FitsKept
  <2>2. CASE Pick(p)
    <3>1. PICK chosen \in Plan(p) : Picked(chosen) /\ job' = [job EXCEPT ![p].pc = "picked", ![p].plan = chosen]
      BY <2>2 DEF Pick
    <3>2. chosen = plan
      BY <1>0, <3>1 DEF TypeOK
    <3>3. Fits(plan)
      BY <1>0, <3>1, <3>2, PickedFits
    <3>4. Kept /\ level' = level
      BY <1>0, <2>2, SameKept DEF Pick
    <3>5. \A i \in LinesOf(p), l \in Location :
            /\ level'[<<VariantOf[i], l>>] = level[<<VariantOf[i], l>>]
            /\ Reserved(VariantOf[i], l) \in Nat /\ Reserved(VariantOf[i], l)' \in Nat
            /\ Reserved(VariantOf[i], l)' <= Reserved(VariantOf[i], l)
      BY <1>0, <3>4, ReservedFalls
    <3> QED BY <1>0, <3>3, <3>5, FitsKept
  <2> QED BY <1>0, <2>1, <2>2, PickedBefore
<1> QED BY <1>2, <1>3 DEF SoldInv

LEMMA SoldInvariant == Spec => [](TypeInv /\ SoldInv /\ LastActive)
<1>1. Init => LocksInv /\ SoldInv
  <2> SUFFICES ASSUME Init PROVE LocksInv /\ SoldInv
    OBVIOUS
  <2>1. \A o \in Order : job[o].pc = "idle" /\ job[o].locks = {}
    BY DEF Init, Idle
  <2>2. \A i \in Line, c \in Cycle : rows[i][c].active = 0
    BY DEF Init, NoRow
  <2> QED BY <2>1, <2>2 DEF LocksInv, LocksApart, AllLocked, SoldInv, LastActive, AllFit
<1>2. TypeInv /\ LocksInv /\ [Next]_vars => LocksInv'
  BY LocksStep DEF TypeInv
<1>3. SoldInv => LastActive
  BY DEF SoldInv
<1> QED BY <1>1, <1>2, <1>3, OneInvariant, SoldStep, PTL DEF Spec

\* Two orders never hold more of a variant at a location than was free there when the later of
\* them was reserved, for any orders, lines, levels and reports: a reservation holds the locks of
\* all its levels from the moment it reads what is free until it inserts its rows.
THEOREM NothingOversold == Spec => NeverOversold
<1>1. TypeInv /\ SoldInv /\ [Next]_vars =>
        [rows' # rows => \A v \in Variant, l \in Location :
           Reserved(v, l)' > Reserved(v, l) => Reserved(v, l)' <= level[<<v, l>>].free]_vars
  <2> SUFFICES ASSUME TypeInv, SoldInv, [Next]_vars, NEW v \in Variant, NEW l \in Location,
                      Reserved(v, l)' > Reserved(v, l)
               PROVE  Reserved(v, l)' <= level[<<v, l>>].free
    OBVIOUS
  <2>1. ~Kept
    <3> SUFFICES ASSUME Kept PROVE FALSE
      OBVIOUS
    <3>1. /\ Reserved(v, l) \in Nat /\ Reserved(v, l)' \in Nat
          /\ Reserved(v, l)' <= Reserved(v, l)
      BY ReservedFalls DEF TypeInv
    <3> QED BY <3>1
  <2> QED BY <2>1, KeptOrCommit, CommitFits
<1> QED BY <1>1, SoldInvariant, PTL DEF Spec, NeverOversold

-----------------------------------------------------------------------------
(* Nothing is handed over that the ERP does not hold *)

HandedKeys(o, v, c) == {k \in KeysOf(o) : VariantOf[k[1]] = v /\ k[2] = c}

LEMMA OrderKeys ==
  ASSUME NEW o \in Order, NEW v, NEW c
  PROVE  /\ KeysOf(o) \in SUBSET Keys /\ HandedKeys(o, v, c) \in SUBSET Keys
         /\ \A k \in Keys : k \in KeysOf(o) <=> k[1] \in LinesOf(o)
         /\ \A k \in HandedKeys(o, v, c) : k[1] \in LinesOf(o) /\ k[2] = c
  BY DEF KeysOf, Keys, HandedKeys, LinesOf

LEMMA HandedNext ==
  ASSUME TypeOK, rows' \in Rows, NEW o \in Order, NEW v, NEW c
  PROVE  /\ Handed(o, v, c) = Sum(HandedOn, HandedKeys(o, v, c)) /\ Handed(o, v, c) \in Nat
         /\ Handed(o, v, c)' = Sum(HandedOn', HandedKeys(o, v, c))
         /\ IsFiniteSet(HandedKeys(o, v, c))
<1> DEFINE K == HandedKeys(o, v, c)
<1>1. K \in SUBSET Keys
  BY OrderKeys
<1>2. Handed(o, v, c) = Total(HandedOn, K)
  BY DEF Handed, HandedKeys
<1>3. Handed(o, v, c)' = Total(HandedOn', K)
  BY DEF Handed, HandedKeys, KeysOf
<1>4. Total(HandedOn', K) = Sum(HandedOn', K)
  BY DEF Total, Sum
<1> HIDE DEF K
<1>5. IsFiniteSet(K) /\ Total(HandedOn, K) = Sum(HandedOn, K) /\ Total(HandedOn, K) \in Nat
  BY <1>1, TotalNat
<1> QED BY <1>2, <1>3, <1>4, <1>5 DEF K

\* Where the rows of an order keep what they handed over, the total stays.
LEMMA HandedSame ==
  ASSUME TypeOK, rows' \in Rows, NEW o \in Order, NEW v, NEW c,
         \A i \in LinesOf(o), d \in Cycle : rows'[i][d].handed = rows[i][d].handed
  PROVE  Handed(o, v, c)' = Handed(o, v, c)
<1> DEFINE K == HandedKeys(o, v, c)
<1>1. \A k \in K : HandedOn'[k] = HandedOn[k]
  <2> SUFFICES ASSUME NEW k \in K PROVE HandedOn'[k] = HandedOn[k]
    OBVIOUS
  <2>1. k \in Keys /\ k[1] \in LinesOf(o)
    BY OrderKeys
  <2>2. k[2] \in Cycle /\ HandedOn[k] = rows[k[1]][k[2]].handed
    BY <2>1, KeyTyped
  <2>3. HandedOn'[k] = rows'[k[1]][k[2]].handed
    BY <2>1, NextRows
  <2> QED BY <2>1, <2>2, <2>3
<1>2. Sum(HandedOn', K) = Sum(HandedOn, K)
  <2>1. IsFiniteSet(K)
    BY HandedNext
  <2> HIDE DEF K
  <2> QED BY <1>1, <2>1, SumEqual
<1> QED BY <1>2, HandedNext

\* Where generations tell the reservations apart, that of the active rows is the current one.
LEMMA AlreadyIsHanded ==
  ASSUME TypeOK, LastActive, NEW o \in Order, NEW v, Regular(o), cycle[o] # 0, ActiveKeys(o) # {}
  PROVE  AlreadyHanded(o, v) = Handed(o, v, cycle[o])
<1> DEFINE n == cycle[o]
<1>1. \A k \in KeysOf(o) : k \in Keys /\ k[1] \in LinesOf(o) /\ k[2] \in Cycle /\ RowAt(k) = rows[k[1]][k[2]]
  BY OrderKeys, KeyTyped
<1>2. \A k \in ActiveKeys(o) : k \in KeysOf(o) /\ k[2] = n
  <2> SUFFICES ASSUME NEW k \in ActiveKeys(o) PROVE k \in KeysOf(o) /\ k[2] = n
    OBVIOUS
  <2>1. k \in KeysOf(o) /\ RowAt(k).active > 0
    BY DEF ActiveKeys
  <2>2. OrderOf[k[1]] = o /\ k[1] \in Line
    BY <1>1, <2>1 DEF LinesOf
  <2> QED BY <1>1, <2>1, <2>2 DEF LastActive
<1>3. PICK m \in ActiveKeys(o) : TRUE
  OBVIOUS
<1> DEFINE g == RowAt(m).gen
<1>4. \A k \in KeysOf(o) : RowAt(k).gen = g <=> k[2] = n
  <2> SUFFICES ASSUME NEW k \in KeysOf(o) PROVE RowAt(k).gen = g <=> k[2] = n
    OBVIOUS
  <2>1. g = rows[m[1]][n].gen /\ m[1] \in LinesOf(o)
    BY <1>1, <1>2, <1>3
  <2> QED BY <1>1, <2>1 DEF Regular
<1>5. g \in Nat
  <2>1. m \in Keys
    BY <1>1, <1>2
  <2>2. g \in {0} \cup Cycle
    BY <2>1, KeyTyped DEF Row
  <2> QED BY <2>2, Cycles
<1>6. {RowAt(k).gen : k \in ActiveKeys(o)} = {g}
  BY <1>2, <1>3, <1>4
<1>7. Max({g}) = g
  <2> HIDE DEF g
  <2> QED BY <1>5 DEF Max
<1>8. {k \in KeysOf(o) : VariantOf[k[1]] = v /\ RowAt(k).gen = g}
        = {k \in KeysOf(o) : VariantOf[k[1]] = v /\ k[2] = n}
  BY <1>4
<1> HIDE DEF g, n
<1> QED BY <1>6, <1>7, <1>8 DEF AlreadyHanded, Handed, n

\* The part the ERP's quantity covers leaves no more handed over than that quantity.
LEMMA CoveredBounds ==
  ASSUME NEW o, NEW v, NEW q \in Nat, NEW w \in BOOLEAN,
         LocalQuantity(o, v) \in Nat, AlreadyHanded(o, v) \in Nat, CoveredPart(o, v, q, w) > 0
  PROVE  AlreadyHanded(o, v) + CoveredPart(o, v, q, w) <= q \/ (w /\ q = 0)
<1> DEFINE local == LocalQuantity(o, v)
           already == AlreadyHanded(o, v)
           part == CoveredPart(o, v, q, w)
<1>1. CASE w /\ q = 0
  BY <1>1
<1>2. CASE ~(w /\ q = 0) /\ q >= local + already
  <2>1. part = local
    BY <1>2 DEF CoveredPart
  <2> HIDE DEF part, local, already
  <2>2. already + part <= q
    BY <1>2, <2>1 DEF part, local, already
  <2> QED BY <2>2 DEF part, local, already
<1>3. CASE ~(w /\ q = 0) /\ ~(q >= local + already)
  <2>1. part = AtLeast0(q - already)
    BY <1>3 DEF CoveredPart
  <2>2. part > 0 /\ local \in Nat /\ already \in Nat
    OBVIOUS
  <2> HIDE DEF part, local, already
  <2>3. already + part <= q
    BY <2>1, <2>2 DEF AtLeast0
  <2> QED BY <2>3 DEF part, already
<1> QED BY <1>1, <1>2, <1>3

LEMMA HandoverBounds ==
  ASSUME TypeInv, LastActive, NEW o \in Order, NEW said \in Sayings, NEW w \in BOOLEAN,
         HandOver(o, said, w), Regular(o), NEW v \in Variant, NEW n, n = cycle[o], n # 0,
         Handed(o, v, n)' > Handed(o, v, n)
  PROVE  /\ said[v] # None
         /\ Handed(o, v, n)' <= said[v] \/ (said[v] = 0 /\ w)
<1>0. TypeOK
  BY DEF TypeInv
<1>1. rows' \in Rows
  BY <1>0, HandedRows
<1>2. PICK t \in Handovers(o, said, w) :
        /\ DOMAIN t = ActiveKeys(o)
        /\ \A i \in Line, c \in Cycle :
             /\ Taken(o, t, i, c) \in Nat /\ Taken(o, t, i, c) <= rows[i][c].active
             /\ rows'[i][c] = HandedOver(rows[i][c], Taken(o, t, i, c))
  BY <1>0, HandedRows
<1> DEFINE K == HandedKeys(o, v, n)
           A == {k \in ActiveKeys(o) : VariantOf[k[1]] = v}
           taken == [k \in Keys |-> Taken(o, t, k[1], k[2])]
<1>3. A \in SUBSET K
  <2> SUFFICES ASSUME NEW k \in A PROVE k \in K
    OBVIOUS
  <2>1. k \in KeysOf(o) /\ RowAt(k).active > 0 /\ VariantOf[k[1]] = v
    BY DEF ActiveKeys
  <2>2. k \in Keys /\ k[1] \in LinesOf(o)
    BY <2>1, OrderKeys
  <2>3. k[2] \in Cycle /\ RowAt(k) = rows[k[1]][k[2]] /\ k[1] \in Line /\ OrderOf[k[1]] = o
    BY <1>0, <2>2, KeyTyped DEF LinesOf
  <2>4. k[2] = n
    BY <2>1, <2>3 DEF LastActive
  <2> QED BY <2>1, <2>4 DEF HandedKeys
<1>4. \A k \in K : /\ HandedOn[k] \in Int /\ taken[k] \in Int /\ HandedOn'[k] = HandedOn[k] + taken[k]
                   /\ (k \in A => taken[k] = t[k]) /\ (k \notin A => taken[k] = 0)
  <2> SUFFICES ASSUME NEW k \in K
               PROVE  /\ HandedOn[k] \in Int /\ taken[k] \in Int /\ HandedOn'[k] = HandedOn[k] + taken[k]
                      /\ (k \in A => taken[k] = t[k]) /\ (k \notin A => taken[k] = 0)
    OBVIOUS
  <2>1. k \in Keys /\ VariantOf[k[1]] = v
    BY OrderKeys DEF HandedKeys
  <2>2. /\ k[1] \in Line /\ k[2] \in Cycle /\ k = <<k[1], k[2]>>
        /\ rows[k[1]][k[2]] \in Row
        /\ HandedOn[k] = rows[k[1]][k[2]].handed /\ HandedOn[k] \in Nat
    BY <1>0, <2>1, KeyTyped
  <2>3. HandedOn'[k] = rows'[k[1]][k[2]].handed
    BY <1>1, <2>1, NextRows
  <2>4. /\ Taken(o, t, k[1], k[2]) \in Nat /\ Taken(o, t, k[1], k[2]) <= rows[k[1]][k[2]].active
        /\ rows'[k[1]][k[2]] = HandedOver(rows[k[1]][k[2]], Taken(o, t, k[1], k[2]))
    BY <1>2, <2>2
  <2>5. HandedOn'[k] = HandedOn[k] + Taken(o, t, k[1], k[2])
    BY <2>2, <2>3, <2>4, HandedOverRow
  <2>6. taken[k] = Taken(o, t, k[1], k[2])
    BY <2>1
  <2>7. k \in A <=> k \in ActiveKeys(o)
    BY <2>1
  <2>8. (k \in ActiveKeys(o) => Taken(o, t, k[1], k[2]) = t[k])
        /\ (k \notin ActiveKeys(o) => Taken(o, t, k[1], k[2]) = 0)
    BY <2>2 DEF Taken
  <2> HIDE DEF taken, A, K
  <2> QED BY <2>2, <2>4, <2>5, <2>6, <2>7, <2>8
<1>5. /\ IsFiniteSet(K) /\ Handed(o, v, n) = Sum(HandedOn, K) /\ Handed(o, v, n) \in Nat
      /\ Handed(o, v, n)' = Sum(HandedOn', K)
  BY <1>0, <1>1, HandedNext
<1>6. Sum(HandedOn', K) = Sum(HandedOn, K) + Sum(taken, K)
  <2> HIDE DEF K, taken, A
  <2> QED BY <1>4, <1>5, SumAdd
<1>7. Sum(taken, K) = Sum(t, A)
  <2> HIDE DEF K, taken, A
  <2>1. IsFiniteSet(A)
    BY <1>3, <1>5, FS_Subset
  <2>2. Sum(taken, K) = Sum(taken, A)
    <3>1. \A k \in A : taken[k] \in Int
      BY <1>3, <1>4
    <3>2. \A k \in K \ A : taken[k] = 0
      BY <1>4
    <3> QED BY <1>3, <1>5, <3>1, <3>2, SumZeros
  <2>3. Sum(taken, A) = Sum(t, A)
    <3>1. \A k \in A : taken[k] = t[k]
      BY <1>3, <1>4
    <3> QED BY <2>1, <3>1, SumEqual
  <2> QED BY <2>2, <2>3
<1>8. Handed(o, v, n)' = Handed(o, v, n) + Sum(t, A)
  BY <1>5, <1>6, <1>7
<1>9. A # {}
  <2> SUFFICES ASSUME A = {} PROVE FALSE
    OBVIOUS
  <2>1. Sum(t, A) = 0
    BY SumEmpty
  <2> HIDE DEF A
  <2> QED BY <1>5, <1>8, <2>1
<1>10. Sum(t, A) = IF said[v] = None THEN 0 ELSE CoveredPart(o, v, said[v], w)
  <2>1. v \in {VariantOf[k[1]] : k \in ActiveKeys(o)}
    BY <1>9
  <2>2. Total(t, A) = IF said[v] = None THEN 0 ELSE CoveredPart(o, v, said[v], w)
    BY <1>2, <2>1 DEF Handovers
  <2> HIDE DEF A
  <2> QED BY <2>2 DEF Total, Sum
<1>11. said[v] # None
  <2> SUFFICES ASSUME said[v] = None PROVE FALSE
    OBVIOUS
  <2>1. Sum(t, A) = 0
    BY <1>10
  <2> HIDE DEF A
  <2> QED BY <1>5, <1>8, <2>1
<1>12. AlreadyHanded(o, v) = Handed(o, v, n)
  BY <1>0, <1>9, AlreadyIsHanded
<1>13. LocalQuantity(o, v) \in Nat
  <2>1. {k \in KeysOf(o) : VariantOf[k[1]] = v} \in SUBSET Keys
    BY OrderKeys
  <2> QED BY <1>0, <2>1, TotalNat DEF LocalQuantity
<1>14. said[v] \in Nat
  BY <1>11, StockAssumption DEF StockAssumption
<1> DEFINE part == CoveredPart(o, v, said[v], w)
<1>15. Sum(t, A) = part
  BY <1>10, <1>11
<1>16. part \in Int
  <2>1. AlreadyHanded(o, v) \in Nat
    BY <1>5, <1>12
  <2> QED BY <1>13, <1>14, <2>1 DEF CoveredPart, AtLeast0
<1>17. part > 0
  <2> HIDE DEF part, A
  <2> QED BY <1>5, <1>8, <1>15, <1>16
<1>18. AlreadyHanded(o, v) + part <= said[v] \/ (w /\ said[v] = 0)
  BY <1>5, <1>12, <1>13, <1>14, <1>17, CoveredBounds
<1>19. Handed(o, v, n)' = AlreadyHanded(o, v) + part
  BY <1>8, <1>12, <1>15
<1> HIDE DEF part, A, K
<1> QED BY <1>11, <1>18, <1>19

LEMMA HandedStep ==
  ASSUME TypeInv, LastActive, [Next]_vars, NEW o \in Registered, NEW v \in Variant, Regular(o)
  PROVE  ~HandsTooMuch(o, v)
<1>0. TypeOK /\ o \in Order
  BY StockAssumption DEF StockAssumption, TypeInv
<1> SUFFICES ASSUME HandsTooMuch(o, v) PROVE FALSE
  OBVIOUS
<1>1. PICK n, m : n = cycle[o] /\ m = cycle'[o]
  OBVIOUS
<1>2. n # 0 /\ Handed(o, v, m)' > Handed(o, v, n)
  BY <1>1 DEF HandsTooMuch
<1>3. ~(erp'[o].held[v] # None /\ Handed(o, v, m)' <= erp'[o].held[v])
      /\ ~(erp'[o].held[v] = 0 /\ erp'[o].started)
  BY <1>1 DEF HandsTooMuch
<1>4. ASSUME rows' \in Rows, cycle'[o] = cycle[o],
             \A i \in LinesOf(o), c \in Cycle : rows'[i][c].handed = rows[i][c].handed
      PROVE  FALSE
  <2>1. Handed(o, v, n)' = Handed(o, v, n)
    BY <1>0, <1>4, HandedSame
  <2>2. Handed(o, v, n) \in Nat
    BY <1>0, <1>4, HandedNext
  <2> QED BY <1>1, <1>2, <1>4, <2>1, <2>2
<1>5. CASE Kept /\ NoneHanded /\ cycle' = cycle
  BY <1>4, <1>5 DEF Kept, NoneHanded, LinesOf
<1>6. ASSUME NEW p \in Order, Commit(p) PROVE FALSE
  <2>1. rows' \in Rows
    BY <1>6, CommitTyped DEF TypeInv, TypeOK, Rows
  <2>2. \A i \in Line, c \in Cycle :
          IF i \in LinesOf(p) /\ c = cycle[p] + 1 THEN rows'[i][c].handed = 0 ELSE rows'[i][c] = rows[i][c]
    BY <1>6, CommitRows
  <2>3. CASE p = o
    <3> DEFINE K == HandedKeys(o, v, m)
    <3>1. m = cycle[o] + 1
      BY <1>0, <1>1, <1>6, <2>3 DEF Commit, TypeOK
    <3>2. \A k \in K : HandedOn'[k] = 0
      <4> SUFFICES ASSUME NEW k \in K PROVE HandedOn'[k] = 0
        OBVIOUS
      <4>1. k \in Keys /\ k[1] \in LinesOf(o) /\ k[2] = m
        BY <1>0, OrderKeys
      <4>2. k[1] \in Line /\ k[2] \in Cycle /\ HandedOn'[k] = rows'[k[1]][k[2]].handed
        BY <1>0, <2>1, <4>1, KeyTyped, NextRows
      <4> QED BY <2>2, <2>3, <3>1, <4>1, <4>2
    <3>3. Handed(o, v, m)' = Sum(HandedOn', K) /\ IsFiniteSet(K) /\ Handed(o, v, n) \in Nat
      BY <1>0, <2>1, HandedNext
    <3>4. Sum(HandedOn', K) = 0
      <4>1. \A k \in K \ {} : HandedOn'[k] = 0
        BY <3>2
      <4>2. Sum(HandedOn', {}) = 0
        BY SumEmpty
      <4> HIDE DEF K
      <4>3. Sum(HandedOn', K) = Sum(HandedOn', {})
        BY <3>3, <4>1, SumZeros
      <4> QED BY <4>2, <4>3
    <3> HIDE DEF K
    <3> QED BY <1>2, <3>3, <3>4
  <2>4. CASE p # o
    <3>1. \A i \in LinesOf(o) : i \in Line /\ i \notin LinesOf(p)
      BY <2>4 DEF LinesOf
    <3>2. cycle'[o] = cycle[o]
      BY <1>0, <1>6, <2>4 DEF Commit, TypeOK
    <3> QED BY <1>4, <2>1, <2>2, <3>1, <3>2
  <2> QED BY <2>3, <2>4
<1>7. ASSUME NEW p \in Registered, NEW said \in Sayings, NEW w \in BOOLEAN, Handing(p, said, w)
      PROVE  FALSE
  <2>1. p \in Order /\ HandOver(p, said, w) /\ cycle' = cycle /\ m = n
    BY <1>1, <1>7, StockAssumption DEF StockAssumption, Handing
  <2>2. CASE p = o
    <3>1. Handed(o, v, n)' > Handed(o, v, n)
      BY <1>2, <2>1
    <3>2. /\ said[v] # None
          /\ Handed(o, v, n)' <= said[v] \/ (said[v] = 0 /\ w)
      BY <1>0, <1>1, <1>2, <2>1, <2>2, <3>1, HandoverBounds
    <3>3. erp'[o].held[v] = said[v] /\ (w => erp'[o].started)
      BY <1>7, <2>2, <3>2 DEF Handing
    <3> QED BY <1>3, <2>1, <3>2, <3>3
  <2>3. CASE p # o
    <3>1. rows' \in Rows
      BY <1>0, <2>1, HandedRows
    <3>2. PICK t : \A i \in Line, c \in Cycle :
             /\ Taken(p, t, i, c) \in Nat /\ Taken(p, t, i, c) <= rows[i][c].active
             /\ rows'[i][c] = HandedOver(rows[i][c], Taken(p, t, i, c))
      BY <1>0, <2>1, HandedRows
    <3>3. ASSUME NEW i \in LinesOf(o), NEW c \in Cycle
          PROVE  rows'[i][c].handed = rows[i][c].handed
      <4>1. i \in Line /\ i \notin LinesOf(p)
        BY <2>3 DEF LinesOf
      <4>2. Taken(p, t, i, c) = 0
        BY <4>1 DEF Taken, ActiveKeys, KeysOf
      <4>3. rows[i][c] \in Row /\ 0 <= rows[i][c].active /\ rows[i][c].handed \in Nat
        BY <1>0, <4>1 DEF TypeOK, Row
      <4>4. rows'[i][c] = HandedOver(rows[i][c], 0)
        BY <3>2, <4>1, <4>2
      <4>5. HandedOver(rows[i][c], 0).handed = rows[i][c].handed + 0
        BY <4>3, HandedOverRow
      <4> QED BY <4>3, <4>4, <4>5
    <3> QED BY <1>4, <2>1, <3>1, <3>3
  <2> QED BY <2>2, <2>3
<1> QED BY <1>5, <1>6, <1>7, RowsStep

\* The local reserve is handed over only for what the ERP holds or when a warehouse order has taken
\* it over, for any orders, lines, quantities and events, wherever generations tell the reservations
\* of an order apart: what the ERP's quantity covers is reckoned from what was already handed over.
THEOREM HandedIsHeld == Spec => HandedOnlyHeld
<1>1. TypeInv /\ LastActive /\ [Next]_vars =>
        [rows' # rows => \A o \in Registered, v \in Variant : Regular(o) => ~HandsTooMuch(o, v)]_vars
  BY HandedStep
<1> QED BY <1>1, SoldInvariant, PTL DEF Spec, HandedOnlyHeld

=============================================================================
