---------------------------- MODULE InboxProofs ----------------------------
(***************************************************************************)
(* What Inbox guarantees for every set of events, entities, workers and    *)
(* operators.                                                              *)
(***************************************************************************)
EXTENDS Inbox, TLAPS, WellFoundedInduction

\* The last row the handler writes is one of those it was given, of the highest version.
LEMMA LastOfIsLast ==
    ASSUME NEW S \in SUBSET Event, S # {}
    PROVE  LastOf(S) \in S /\ \A f \in S : VersionOf[f] <= VersionOf[LastOf(S)]
<1> DEFINE T == {MaxVersion - VersionOf[e] : e \in S}
<1>1. T \subseteq Nat /\ T # {}
  BY InboxAssumption
<1>2. PICK m \in T : \A n \in T : <<n, m>> \notin OpToRel(<, Nat)
  <2>1. IsWellFoundedOn(OpToRel(<, Nat), Nat)
    BY NatLessThanWellFounded
  <2>. QED
    BY <1>1, <2>1, WFMin
<1>3. PICK e \in S : m = MaxVersion - VersionOf[e]
  BY <1>2
<1>4. ASSUME NEW f \in S PROVE VersionOf[f] <= VersionOf[e]
  <2>1. MaxVersion - VersionOf[f] \in T
    OBVIOUS
  <2>2. ~ (MaxVersion - VersionOf[f] < m)
    BY <1>1, <1>2, <2>1 DEF OpToRel
  <2>. QED
    BY <1>3, <2>2, InboxAssumption
<1>. QED
  BY <1>3, <1>4 DEF LastOf

LEMMA WriteTyped ==
    ASSUME TypeOK, NEW S \in SUBSET Event, Write(S)
    PROVE  applied' \in [Entity -> Nat]
<1>1. ASSUME NEW mine \in SUBSET Event, mine # {}
      PROVE  VersionOf[LastOf(mine)] \in Nat
  <2>1. LastOf(mine) \in Event
    BY <1>1, LastOfIsLast
  <2>. QED
    BY <2>1, InboxAssumption
<1>2. ASSUME NEW a \in Entity
      PROVE  LET mine == {e \in S : EntityOf[e] = a}
             IN  (IF mine = {} THEN applied[a] ELSE VersionOf[LastOf(mine)]) \in Nat
  <2> DEFINE mine == {e \in S : EntityOf[e] = a}
  <2>1. mine \in SUBSET Event
    OBVIOUS
  <2> HIDE DEF mine
  <2>2. mine # {} => VersionOf[LastOf(mine)] \in Nat
    BY <2>1, <1>1
  <2>3. (IF mine = {} THEN applied[a] ELSE VersionOf[LastOf(mine)]) \in Nat
    BY <2>2 DEF TypeOK
  <2>. QED
    BY <2>3 DEF mine
<1> QED
  BY <1>2 DEF Write

LEMMA SettleProcessedTyped ==
    ASSUME TypeOK, NEW S \in SUBSET Event, NEW out, SettleProcessed(S, out),
           \A e \in S : out[e] \in Outcome
    PROVE  /\ status' \in [Event -> Status] /\ outcome' \in [Event -> Outcome]
           /\ holder' \in [Event -> Worker \cup {NoWorker}]
           /\ stale' \in [Event -> BOOLEAN]
<1>1. status' \in [Event -> Status] /\ outcome' \in [Event -> Outcome]
  BY DEF SettleProcessed, TypeOK, Status
<1>2. holder' \in [Event -> Worker \cup {NoWorker}] /\ stale' \in [Event -> BOOLEAN]
  BY DEF SettleProcessed, TypeOK
<1> QED
  BY <1>1, <1>2

LEMMA SettleFailedTyped ==
    ASSUME TypeOK, NEW e \in Event, NEW err \in Error, SettleFailed(e, err)
    PROVE  /\ status' \in [Event -> Status] /\ outcome' \in [Event -> Outcome]
           /\ holder' \in [Event -> Worker \cup {NoWorker}]
           /\ stale' \in [Event -> BOOLEAN]
           /\ askedAt' \in [Event -> Nat]
           /\ budget' \in [Event -> {"unused", "running", "spent"}]
<1>1. budget' \in [Event -> {"unused", "running", "spent"}]
  BY DEF SettleFailed, TypeOK
<1>2. AfterFailure(e, err) \in Status
  BY DEF AfterFailure, Status, Error, TypeOK
<1>3. CASE AfterFailure(e, err) = "processed"
  <2>1. SettleProcessed({e}, [f \in {e} |-> "noop"]) /\ UNCHANGED askedAt
    BY <1>3 DEF SettleFailed
  <2>2. {e} \in SUBSET Event /\ \A f \in {e} : [g \in {e} |-> "noop"][f] \in Outcome
    BY DEF Outcome
  <2>3. /\ status' \in [Event -> Status] /\ outcome' \in [Event -> Outcome]
        /\ holder' \in [Event -> Worker \cup {NoWorker}] /\ stale' \in [Event -> BOOLEAN]
    BY ONLY TypeOK, <2>1, <2>2, SettleProcessedTyped
  <2>. QED
    BY <1>1, <2>1, <2>3 DEF TypeOK
<1>4. CASE AfterFailure(e, err) # "processed"
  <2> DEFINE asked == IF AfterFailure(e, err) = "failed" THEN ReplaysAnsweredBy({e}) ELSE {}
  <2>1. /\ status' = [f \in Event |-> IF f = e THEN AfterFailure(e, err)
                                      ELSE IF f \in asked THEN "failed" ELSE status[f]]
        /\ askedAt' = [f \in Event |-> IF f \in asked THEN 0 ELSE askedAt[f]]
        /\ holder' = [holder EXCEPT ![e] = NoWorker]
        /\ stale' = [stale EXCEPT ![e] = FALSE]
        /\ UNCHANGED outcome
    BY <1>4 DEF SettleFailed
  <2> HIDE DEF asked
  <2>2. status' \in [Event -> Status]
    BY <1>2, <2>1 DEF TypeOK, Status
  <2>3. /\ outcome' \in [Event -> Outcome] /\ holder' \in [Event -> Worker \cup {NoWorker}]
        /\ stale' \in [Event -> BOOLEAN] /\ askedAt' \in [Event -> Nat]
    BY <2>1 DEF TypeOK
  <2>. QED
    BY <1>1, <2>2, <2>3
<1> QED
  BY <1>3, <1>4

LEMMA LocksTyped ==
    ASSUME TypeOK, NEW w \in Worker, NEW S
    PROVE  /\ Locked(w, S) \in [Entity -> Worker \cup {NoWorker}]
           /\ Unlocked(w) \in [Entity -> Worker \cup {NoWorker}]
BY DEF Locked, Unlocked, TypeOK

\* A run only ever works on rows of its own batch.
LEMMA OwnWorkStep ==
    ASSUME TypeOK, OwnWork, [Next]_vars
    PROVE  OwnWork'
<1>1. ASSUME NEW e \in Event,
             \/ Enqueue(e) \/ EnqueueRejected(e) \/ ClaimGoesStale(e) \/ BudgetRunsOut(e)
             \/ DismissFailed(e) \/ ExpireStale(e)
      PROVE  OwnWork'
  BY <1>1 DEF Enqueue, EnqueueRejected, ClaimGoesStale, BudgetRunsOut, DismissFailed,
              ExpireStale, OwnWork, workVars
<1>2. ASSUME NEW o \in Operator, \/ \E e \in Event : ReplayFailed(o, e)
                                 \/ ReplayAccepted(o) \/ ReplayRefused(o)
      PROVE  OwnWork'
  BY <1>2 DEF ReplayFailed, ReplayAccepted, ReplayRefused, OwnWork, workVars
<1>3. ASSUME NEW w \in Worker, NEW S \in SUBSET Event, ClaimBatch(w, S) PROVE OwnWork'
  BY <1>3 DEF ClaimBatch, OwnWork, TypeOK
<1>4. ASSUME NEW w \in Worker, ReleaseClaims(w) PROVE OwnWork'
  BY <1>4 DEF ReleaseClaims, OwnWork, TypeOK
<1>5. ASSUME NEW w \in Worker, BatchBegin(w) PROVE OwnWork'
  BY <1>5 DEF BatchBegin, OwnWork, TypeOK
<1>6. ASSUME NEW w \in Worker, NEW noop \in SUBSET Event, NEW invalid \in SUBSET Event,
             BatchCommit(w, noop, invalid)
      PROVE  OwnWork'
  BY <1>6 DEF BatchCommit, OwnWork, TypeOK
<1>7. ASSUME NEW w \in Worker, BatchRollback(w) PROVE OwnWork'
  BY <1>7 DEF BatchRollback, OwnWork, TypeOK
<1>8. ASSUME NEW w \in Worker, NEW e \in Event, RowBegin(w, e) PROVE OwnWork'
  BY <1>8 DEF RowBegin, OwnWork, TypeOK
<1>9. ASSUME NEW w \in Worker, NEW noop \in BOOLEAN, RowCommit(w, noop) PROVE OwnWork'
  BY <1>9 DEF RowCommit, AfterRow, OwnWork, TypeOK
<1>10. ASSUME NEW w \in Worker, NEW err \in Error, RowRollback(w, err) PROVE OwnWork'
  BY <1>10 DEF RowRollback, OwnWork, TypeOK
<1>11. ASSUME NEW w \in Worker, NEW e \in Event, MarkFailed(w, e) PROVE OwnWork'
  BY <1>11 DEF MarkFailed, AfterRow, OwnWork, TypeOK
<1>12. ASSUME NEW w \in Worker, Crash(w) PROVE OwnWork'
  BY <1>12 DEF Crash, OwnWork, TypeOK
<1>13. CASE UNCHANGED vars
  BY <1>13 DEF vars, workVars, OwnWork
<1>. QED
  BY <1>1, <1>2, <1>3, <1>4, <1>5, <1>6, <1>7, <1>8, <1>9, <1>10, <1>11, <1>12, <1>13
     DEF Next, WorkerNext

\* Every variable keeps its type.
LEMMA TypeStep ==
    ASSUME TypeOK, OwnWork, [Next]_vars
    PROVE  TypeOK'
<1>1. ASSUME NEW e \in Event, Enqueue(e) PROVE TypeOK'
  BY <1>1 DEF Enqueue, Insert, TypeOK, Status, workVars
<1>2. ASSUME NEW e \in Event, EnqueueRejected(e) PROVE TypeOK'
  BY <1>2 DEF EnqueueRejected, Insert, TypeOK, Status, workVars
<1>3. ASSUME NEW w \in Worker, NEW S \in SUBSET Event, ClaimBatch(w, S) PROVE TypeOK'
  BY <1>3 DEF ClaimBatch, TypeOK, Status
<1>4. ASSUME NEW w \in Worker, ReleaseClaims(w) PROVE TypeOK'
  BY <1>4 DEF ReleaseClaims, TypeOK, Status
<1>5. ASSUME NEW w \in Worker, BatchBegin(w) PROVE TypeOK'
  <2>1. fresh'[w] \in SUBSET Event
    BY <1>5 DEF BatchBegin, TypeOK
  <2>. QED
    BY <1>5, <2>1, LocksTyped DEF BatchBegin, TypeOK, rowVars
<1>6. ASSUME NEW w \in Worker, NEW noop \in SUBSET Event, NEW invalid \in SUBSET Event,
             BatchCommit(w, noop, invalid)
      PROVE  TypeOK'
  <2> DEFINE marks == work[w] \ invalid
             out == [e \in marks |-> IF e \notin fresh[w] THEN "superseded"
                                     ELSE IF e \in noop THEN "noop" ELSE "applied"]
  <2>1. marks \in SUBSET Event /\ fresh[w] \ (noop \cup invalid) \in SUBSET Event
    BY DEF TypeOK
  <2>2. SettleProcessed(marks, out) /\ Write(fresh[w] \ (noop \cup invalid))
    BY <1>6 DEF BatchCommit
  <2>3. \A e \in marks : out[e] \in Outcome
    BY DEF Outcome
  <2>4. /\ status' \in [Event -> Status] /\ outcome' \in [Event -> Outcome]
        /\ holder' \in [Event -> Worker \cup {NoWorker}] /\ stale' \in [Event -> BOOLEAN]
    BY ONLY TypeOK, <2>1, <2>2, <2>3, SettleProcessedTyped
  <2>5. applied' \in [Entity -> Nat]
    BY <2>1, <2>2, WriteTyped
  <2>. QED
    BY <1>6, <2>4, <2>5, LocksTyped DEF BatchCommit, TypeOK, Error
<1>7. ASSUME NEW w \in Worker, BatchRollback(w) PROVE TypeOK'
  BY <1>7, LocksTyped DEF BatchRollback, TypeOK, rowVars
<1>8. ASSUME NEW w \in Worker, NEW e \in Event, RowBegin(w, e) PROVE TypeOK'
  BY <1>8, LocksTyped DEF RowBegin, TypeOK, rowVars
<1>9. ASSUME NEW w \in Worker, NEW noop \in BOOLEAN, RowCommit(w, noop) PROVE TypeOK'
  <2> DEFINE e == cur[w]
             out == IF e \notin fresh[w] THEN "superseded"
                    ELSE IF noop THEN "noop" ELSE "applied"
             written == IF out = "applied" THEN {e} ELSE {}
  <2>1. e \in Event
    BY <1>9 DEF RowCommit, OwnWork, TypeOK
  <2>2. applied' \in [Entity -> Nat]
    <3>1. Write(written)
      BY <1>9 DEF RowCommit
    <3>2. written \in SUBSET Event
      BY <2>1
    <3>. QED
      BY <3>1, <3>2, WriteTyped
  <2>3. /\ status' \in [Event -> Status] /\ outcome' \in [Event -> Outcome]
        /\ holder' \in [Event -> Worker \cup {NoWorker}] /\ stale' \in [Event -> BOOLEAN]
    <3>1. CASE Holds(w, e)
      <4>1. SettleProcessed({e}, [f \in {e} |-> out])
        BY <1>9, <3>1 DEF RowCommit
      <4>2. {e} \in SUBSET Event /\ \A f \in {e} : [g \in {e} |-> out][f] \in Outcome
        BY <2>1 DEF Outcome
      <4>. QED
        BY ONLY TypeOK, <4>1, <4>2, SettleProcessedTyped
    <3>2. CASE ~Holds(w, e)
      BY <1>9, <3>2 DEF RowCommit, TypeOK
    <3>. QED
      BY <3>1, <3>2
  <2>. QED
    BY <1>9, <2>2, <2>3, LocksTyped DEF RowCommit, TypeOK, AfterRow
<1>10. ASSUME NEW w \in Worker, NEW err \in Error, RowRollback(w, err) PROVE TypeOK'
  <2>1. cur[w] \in Event
    BY <1>10 DEF RowRollback, OwnWork, TypeOK
  <2>. QED
    BY <1>10, <2>1, LocksTyped DEF RowRollback, TypeOK, rowVars
<1>11. ASSUME NEW w \in Worker, NEW e \in Event, MarkFailed(w, e) PROVE TypeOK'
  <2>1. CASE Holds(w, e)
    <3>1. SettleFailed(e, error[w]) /\ error[w] \in Error
      BY <1>11, <2>1 DEF MarkFailed, TypeOK
    <3>. QED
      BY <1>11, <3>1, SettleFailedTyped DEF MarkFailed, TypeOK, AfterRow, Error
  <2>2. CASE ~Holds(w, e)
    BY <1>11, <2>2 DEF MarkFailed, TypeOK, AfterRow, Error
  <2>. QED
    BY <2>1, <2>2
<1>12. ASSUME NEW w \in Worker, Crash(w) PROVE TypeOK'
  <2>1. crashes' \in 0..MaxCrashes
    BY <1>12, InboxAssumption DEF Crash, TypeOK
  <2>. QED
    BY <1>12, <2>1, LocksTyped DEF Crash, TypeOK, rowVars, Error
<1>13. ASSUME NEW e \in Event, ClaimGoesStale(e) \/ BudgetRunsOut(e) PROVE TypeOK'
  BY <1>13 DEF ClaimGoesStale, BudgetRunsOut, TypeOK, workVars
<1>14. ASSUME NEW e \in Event, DismissFailed(e) \/ ExpireStale(e) PROVE TypeOK'
  BY <1>14 DEF DismissFailed, ExpireStale, TypeOK, Status, Outcome, workVars
<1>15. ASSUME NEW o \in Operator, NEW e \in Event, ReplayFailed(o, e) PROVE TypeOK'
  BY <1>15 DEF ReplayFailed, TypeOK, Status, workVars
<1>16. ASSUME NEW o \in Operator, ReplayAccepted(o) \/ ReplayRefused(o) PROVE TypeOK'
  BY <1>16 DEF ReplayAccepted, ReplayRefused, TypeOK, Status, workVars, rowVars
<1>17. CASE UNCHANGED vars
  BY <1>17 DEF vars, rowVars, workVars, TypeOK
<1>. QED
  BY <1>1, <1>2, <1>3, <1>4, <1>5, <1>6, <1>7, <1>8, <1>9, <1>10, <1>11, <1>12, <1>13,
     <1>14, <1>15, <1>16, <1>17 DEF Next, WorkerNext

\* Every variable keeps its type, and a run works on rows of its own batch only.
THEOREM Typed == Spec => [](TypeOK /\ OwnWork)
<1>1. Init => TypeOK /\ OwnWork
  BY InboxAssumption DEF Init, TypeOK, OwnWork, Status, Outcome, Error
<1>2. TypeOK /\ OwnWork /\ [Next]_vars => TypeOK' /\ OwnWork'
  BY TypeStep, OwnWorkStep
<1>. QED
  BY <1>1, <1>2, PTL DEF Spec

\* What one settling statement can do to any row: its own rows, and open replay requests.
LEMMA SettleProcessedRows ==
    ASSUME TypeOK, NEW S \in SUBSET Event, NEW out, SettleProcessed(S, out), NEW f \in Event
    PROVE  /\ f \in S => status'[f] = "processed" /\ outcome'[f] = out[f]
           /\ f \notin S => /\ outcome'[f] = outcome[f]
                            /\ \/ status'[f] = status[f]
                               \/ status[f] = "replay_requested" /\ status'[f] = "resolved"
BY DEF SettleProcessed, ReplaysAnsweredBy, TypeOK

LEMMA SettleFailedRows ==
    ASSUME TypeOK, NEW e \in Event, NEW err \in Error, SettleFailed(e, err),
           NEW f \in Event, f # e
    PROVE  /\ outcome'[f] = outcome[f]
           /\ \/ status'[f] = status[f]
              \/ status[f] = "replay_requested" /\ status'[f] \in {"resolved", "failed"}
<1>1. CASE AfterFailure(e, err) = "processed"
  <2>1. SettleProcessed({e}, [g \in {e} |-> "noop"])
    BY <1>1 DEF SettleFailed
  <2>. QED
    BY <2>1, SettleProcessedRows
<1>2. CASE AfterFailure(e, err) # "processed"
  BY <1>2 DEF SettleFailed, ReplaysAnsweredBy
<1>. QED
  BY <1>1, <1>2

\* A settled row is never reopened nor given another outcome.
THEOREM SettledRowsStay == Spec => SettledForGood
<1> DEFINE Settled(e) == status[e] \in {"processed", "resolved"}
           Kept(e) == status'[e] = status[e] /\ outcome'[e] = outcome[e]
<1>1. ASSUME TypeOK, OwnWork, [Next]_vars, NEW e \in Event, Settled(e) PROVE Kept(e)
  <2>1. ASSUME NEW f \in Event, \/ Enqueue(f) \/ EnqueueRejected(f) \/ ClaimGoesStale(f)
                                \/ BudgetRunsOut(f) \/ DismissFailed(f) \/ ExpireStale(f)
        PROVE  Kept(e)
    BY <1>1, <2>1 DEF Enqueue, EnqueueRejected, Insert, ClaimGoesStale, BudgetRunsOut,
                      DismissFailed, ExpireStale, TypeOK
  <2>2. ASSUME NEW o \in Operator, \/ \E f \in Event : ReplayFailed(o, f)
                                   \/ ReplayAccepted(o) \/ ReplayRefused(o)
        PROVE  Kept(e)
    BY <1>1, <2>2 DEF ReplayFailed, ReplayAccepted, ReplayRefused, rowVars, TypeOK
  <2>3. ASSUME NEW w \in Worker, NEW S \in SUBSET Event, ClaimBatch(w, S) PROVE Kept(e)
    BY <1>1, <2>3 DEF ClaimBatch, Claimable, TypeOK
  <2>4. ASSUME NEW w \in Worker, ReleaseClaims(w) PROVE Kept(e)
    BY <1>1, <2>4 DEF ReleaseClaims, TypeOK
  <2>5. ASSUME NEW w \in Worker, NEW noop \in SUBSET Event, NEW invalid \in SUBSET Event,
               BatchCommit(w, noop, invalid)
        PROVE  Kept(e)
    <3> DEFINE marks == work[w] \ invalid
               out == [f \in marks |-> IF f \notin fresh[w] THEN "superseded"
                                       ELSE IF f \in noop THEN "noop" ELSE "applied"]
    <3>1. SettleProcessed(marks, out) /\ \A f \in marks : Holds(w, f)
      BY <2>5 DEF BatchCommit
    <3>2. marks \in SUBSET Event /\ e \notin marks
      BY <1>1, <3>1 DEF Holds, TypeOK
    <3>. HIDE DEF marks, out
    <3>. QED
      BY <1>1, <3>1, <3>2, SettleProcessedRows
  <2>6. ASSUME NEW w \in Worker, NEW noop \in BOOLEAN, RowCommit(w, noop) PROVE Kept(e)
    <3>1. CASE Holds(w, cur[w])
      <4>1. PICK out : SettleProcessed({cur[w]}, out)
        BY <2>6, <3>1 DEF RowCommit
      <4>2. {cur[w]} \in SUBSET Event /\ e # cur[w]
        BY <1>1, <2>6, <3>1 DEF RowCommit, OwnWork, Holds, TypeOK
      <4>. QED
        BY <1>1, <4>1, <4>2, SettleProcessedRows
    <3>2. CASE ~Holds(w, cur[w])
      BY <2>6, <3>2 DEF RowCommit
    <3>. QED
      BY <3>1, <3>2
  <2>7. ASSUME NEW w \in Worker, NEW f \in Event, MarkFailed(w, f) PROVE Kept(e)
    <3>1. CASE Holds(w, f)
      <4>1. SettleFailed(f, error[w]) /\ error[w] \in Error /\ e # f
        BY <1>1, <2>7, <3>1 DEF MarkFailed, Holds, TypeOK
      <4>. QED
        BY <1>1, <4>1, SettleFailedRows
    <3>2. CASE ~Holds(w, f)
      BY <2>7, <3>2 DEF MarkFailed
    <3>. QED
      BY <3>1, <3>2
  <2>8. ASSUME NEW w \in Worker,
               \/ BatchBegin(w) \/ BatchRollback(w) \/ Crash(w)
               \/ \E f \in Event : RowBegin(w, f) \/ \E err \in Error : RowRollback(w, err)
        PROVE  Kept(e)
    BY <2>8 DEF BatchBegin, BatchRollback, Crash, RowBegin, RowRollback, rowVars
  <2>9. CASE UNCHANGED vars
    BY <2>9 DEF vars, rowVars
  <2>. QED
    BY <1>1, <2>1, <2>2, <2>3, <2>4, <2>5, <2>6, <2>7, <2>8, <2>9 DEF Next, WorkerNext
<1>2. TypeOK /\ OwnWork /\ [Next]_vars =>
          [\A e \in Event : Settled(e) => Kept(e)]_vars
  BY <1>1
<1>. QED
  BY <1>2, Typed, PTL DEF Spec, SettledForGood

\* A claimed row leaves 'processing' by the hand of the run that holds its claim only.
THEOREM ClaimsAreExclusive == Spec => OnlyHolderSettles
<1> DEFINE Left(e) == status[e] = "processing" /\ status'[e] # "processing"
           ByHolder(e) ==
               holder[e] \in Worker /\ e \in work[holder[e]] /\ e \notin work'[holder[e]]
<1>1. ASSUME TypeOK, OwnWork, [Next]_vars, NEW e \in Event, Left(e) PROVE ByHolder(e)
  <2>1. ASSUME NEW f \in Event, \/ Enqueue(f) \/ EnqueueRejected(f) \/ ClaimGoesStale(f)
                                \/ BudgetRunsOut(f) \/ DismissFailed(f) \/ ExpireStale(f)
        PROVE  FALSE
    BY <1>1, <2>1 DEF Enqueue, EnqueueRejected, Insert, ClaimGoesStale, BudgetRunsOut,
                      DismissFailed, ExpireStale, TypeOK
  <2>2. ASSUME NEW o \in Operator, \/ \E f \in Event : ReplayFailed(o, f)
                                   \/ ReplayAccepted(o) \/ ReplayRefused(o)
        PROVE  FALSE
    BY <1>1, <2>2 DEF ReplayFailed, ReplayAccepted, ReplayRefused, rowVars, TypeOK
  <2>3. ASSUME NEW w \in Worker,
               \/ BatchBegin(w) \/ BatchRollback(w) \/ Crash(w)
               \/ \E f \in Event : RowBegin(w, f) \/ \E err \in Error : RowRollback(w, err)
               \/ \E S \in SUBSET Event : ClaimBatch(w, S)
        PROVE  FALSE
    BY <1>1, <2>3 DEF BatchBegin, BatchRollback, Crash, RowBegin, RowRollback, ClaimBatch,
                      rowVars
  <2>4. ASSUME NEW w \in Worker, ReleaseClaims(w) PROVE ByHolder(e)
    BY <1>1, <2>4 DEF ReleaseClaims, TypeOK
  <2>5. ASSUME NEW w \in Worker, NEW noop \in SUBSET Event, NEW invalid \in SUBSET Event,
               BatchCommit(w, noop, invalid)
        PROVE  ByHolder(e)
    <3> DEFINE marks == work[w] \ invalid
               out == [f \in marks |-> IF f \notin fresh[w] THEN "superseded"
                                       ELSE IF f \in noop THEN "noop" ELSE "applied"]
    <3>1. SettleProcessed(marks, out) /\ \A f \in marks : Holds(w, f)
      BY <2>5 DEF BatchCommit
    <3>2. marks \in SUBSET Event /\ work'[w] = invalid
      BY <1>1, <2>5 DEF BatchCommit, TypeOK
    <3>3. e \in marks
      <4>. HIDE DEF marks, out
      <4>. QED
        BY <1>1, <3>1, <3>2, SettleProcessedRows
    <3>. QED
      BY <3>1, <3>2, <3>3 DEF Holds
  <2>6. ASSUME NEW w \in Worker, NEW noop \in BOOLEAN, RowCommit(w, noop) PROVE ByHolder(e)
    <3>1. Holds(w, cur[w])
      BY <1>1, <2>6 DEF RowCommit
    <3>2. PICK out : SettleProcessed({cur[w]}, out)
      BY <2>6, <3>1 DEF RowCommit
    <3>3. cur[w] \in work[w] /\ {cur[w]} \in SUBSET Event /\ cur[w] \notin work'[w]
      BY <1>1, <2>6 DEF RowCommit, OwnWork, TypeOK
    <3>4. e = cur[w]
      BY <1>1, <3>2, <3>3, SettleProcessedRows
    <3>. QED
      BY <3>1, <3>3, <3>4 DEF Holds
  <2>7. ASSUME NEW w \in Worker, NEW f \in Event, MarkFailed(w, f) PROVE ByHolder(e)
    <3>1. Holds(w, f)
      BY <1>1, <2>7 DEF MarkFailed
    <3>2. SettleFailed(f, error[w]) /\ error[w] \in Error
      BY <1>1, <2>7, <3>1 DEF MarkFailed, TypeOK
    <3>3. f \in work[w] /\ f \notin work'[w]
      BY <1>1, <2>7 DEF MarkFailed, OwnWork, TypeOK
    <3>4. e = f
      BY <1>1, <3>2, SettleFailedRows
    <3>. QED
      BY <3>1, <3>3, <3>4 DEF Holds
  <2>8. CASE UNCHANGED vars
    BY <1>1, <2>8 DEF vars, rowVars
  <2>. QED
    BY <1>1, <2>1, <2>2, <2>3, <2>4, <2>5, <2>6, <2>7, <2>8 DEF Next, WorkerNext
<1>2. TypeOK /\ OwnWork /\ [Next]_vars =>
          [\A e \in Event : Left(e) => ByHolder(e)]_vars
  BY <1>1
<1>. QED
  BY <1>2, Typed, PTL DEF Spec, OnlyHolderSettles

\* An entity's advisory lock has one owner, from the start of its transaction to the end.
LEMMA LocksHeldStep ==
    ASSUME TypeOK, OwnWork, LocksHeld, [Next]_vars
    PROVE  LocksHeld'
<1> SUFFICES ASSUME BatchCapable PROVE LocksHeld'
  BY DEF LocksHeld
<1>1. ASSUME NEW f \in Event, \/ Enqueue(f) \/ EnqueueRejected(f) \/ ClaimGoesStale(f)
                              \/ BudgetRunsOut(f) \/ DismissFailed(f) \/ ExpireStale(f)
      PROVE  LocksHeld'
  BY <1>1 DEF Enqueue, EnqueueRejected, ClaimGoesStale, BudgetRunsOut, DismissFailed,
              ExpireStale, LocksHeld, workVars
<1>2. ASSUME NEW o \in Operator, \/ \E f \in Event : ReplayFailed(o, f)
                                 \/ ReplayAccepted(o) \/ ReplayRefused(o)
      PROVE  LocksHeld'
  BY <1>2 DEF ReplayFailed, ReplayAccepted, ReplayRefused, LocksHeld, workVars
<1>3. ASSUME NEW w \in Worker, \/ \E S \in SUBSET Event : ClaimBatch(w, S)
                               \/ ReleaseClaims(w)
                               \/ \E f \in Event : MarkFailed(w, f)
      PROVE  LocksHeld'
  <2>1. UNCHANGED <<lock, cur>> /\ pc'[w] \notin {"batchTx", "rowTx"}
    BY <1>3 DEF ClaimBatch, ReleaseClaims, MarkFailed, AfterRow, TypeOK
  <2>2. \A v \in Worker : v # w => pc'[v] = pc[v] /\ work'[v] = work[v]
    BY <1>3 DEF ClaimBatch, ReleaseClaims, MarkFailed, TypeOK
  <2>. QED
    BY <2>1, <2>2 DEF LocksHeld
<1>4. ASSUME NEW w \in Worker, BatchBegin(w) PROVE LocksHeld'
  <2>1. \A a \in Entity : a \in EntitiesOf(work[w]) => lock[a] = NoWorker /\ lock'[a] = w
    BY <1>4 DEF BatchBegin, EntityFree, Locked
  <2>2. \A a \in Entity : a \notin EntitiesOf(work[w]) => lock'[a] = lock[a]
    BY <1>4 DEF BatchBegin, Locked
  <2>3. \A e \in Event : EntityOf[e] \in Entity
    BY InboxAssumption
  <2>4. \A v \in Worker : v # w => pc'[v] = pc[v] /\ work'[v] = work[v] /\ cur'[v] = cur[v]
    BY <1>4 DEF BatchBegin, TypeOK
  <2>5. pc'[w] = "batchTx" /\ work'[w] = work[w]
    BY <1>4 DEF BatchBegin, TypeOK
  <2>6. \A e \in work[w] : lock'[EntityOf[e]] = w
    BY <2>1, <2>3 DEF EntitiesOf, TypeOK
  <2>7. \A v \in Worker, a \in Entity : lock[a] = v => lock'[a] = v
    BY <2>1, <2>2, InboxAssumption
  <2>. QED
    BY <2>3, <2>4, <2>5, <2>6, <2>7 DEF LocksHeld, OwnWork, TypeOK
<1>5. ASSUME NEW w \in Worker, NEW e \in Event, RowBegin(w, e) PROVE LocksHeld'
  <2>1. \A v \in Worker, a \in Entity : lock[a] = v => lock'[a] = v
    BY <1>5, InboxAssumption DEF RowBegin, EntityFree, Locked, EntitiesOf, TypeOK
  <2>2. \A f \in Event : EntityOf[f] \in Entity
    BY InboxAssumption
  <2>3. lock'[EntityOf[e]] = w /\ cur'[w] = e /\ pc'[w] = "rowTx"
    BY <1>5, <2>2 DEF RowBegin, Locked, EntitiesOf, TypeOK
  <2>4. \A v \in Worker : v # w => pc'[v] = pc[v] /\ work'[v] = work[v] /\ cur'[v] = cur[v]
    BY <1>5 DEF RowBegin, TypeOK
  <2>. QED
    BY <2>1, <2>2, <2>3, <2>4 DEF LocksHeld, OwnWork, TypeOK
<1>6. ASSUME NEW w \in Worker,
             \/ \E noop, invalid \in SUBSET Event : BatchCommit(w, noop, invalid)
             \/ BatchRollback(w) \/ Crash(w)
             \/ \E noop \in BOOLEAN : RowCommit(w, noop)
             \/ \E err \in Error : RowRollback(w, err)
      PROVE  LocksHeld'
  <2>1. pc'[w] \notin {"batchTx", "rowTx"} /\ lock' = Unlocked(w)
    BY <1>6 DEF BatchCommit, BatchRollback, Crash, RowCommit, AfterRow, RowRollback, TypeOK
  <2>2. \A v \in Worker : v # w => pc'[v] = pc[v] /\ work'[v] = work[v] /\ cur'[v] = cur[v]
    BY <1>6 DEF BatchCommit, BatchRollback, Crash, RowCommit, RowRollback, TypeOK
  <2>3. \A v \in Worker, a \in Entity : v # w /\ lock[a] = v => lock'[a] = v
    BY <2>1 DEF Unlocked
  <2>4. \A e \in Event : EntityOf[e] \in Entity
    BY InboxAssumption
  <2>. QED
    BY <2>1, <2>2, <2>3, <2>4 DEF LocksHeld, OwnWork, TypeOK
<1>7. CASE UNCHANGED vars
  BY <1>7 DEF vars, workVars, LocksHeld
<1>. QED
  BY <1>1, <1>2, <1>3, <1>4, <1>5, <1>6, <1>7 DEF Next, WorkerNext

Commits(w, S) ==
    /\ S \subseteq fresh[w] /\ Write(S)
    /\ AppliedRows' \subseteq AppliedRows \cup S
    /\ fresh' = [fresh EXCEPT ![w] = {}]

\* Only the commit of a transaction writes an entity or records a row as applied, and
\* both from the rows that transaction had found not superseded.
LEMMA AppliedStep ==
    ASSUME TypeOK, OwnWork, [Next]_vars
    PROVE  \/ UNCHANGED applied /\ AppliedRows' \subseteq AppliedRows
           \/ \E w \in Worker, S \in SUBSET Event : Commits(w, S)
<1> DEFINE Quiet == UNCHANGED applied /\ AppliedRows' \subseteq AppliedRows
           Committed == \E w \in Worker, S \in SUBSET Event : Commits(w, S)
<1>1. ASSUME NEW f \in Event, \/ Enqueue(f) \/ EnqueueRejected(f) \/ ClaimGoesStale(f)
                              \/ BudgetRunsOut(f) \/ DismissFailed(f) \/ ExpireStale(f)
      PROVE  Quiet
  <2>1. CASE Enqueue(f) \/ EnqueueRejected(f)
    BY <2>1, InboxAssumption DEF Enqueue, EnqueueRejected, Insert, AppliedRows, TypeOK
  <2>2. CASE ClaimGoesStale(f) \/ BudgetRunsOut(f) \/ DismissFailed(f) \/ ExpireStale(f)
    BY <2>2 DEF ClaimGoesStale, BudgetRunsOut, DismissFailed, ExpireStale, AppliedRows, TypeOK
  <2>. QED
    BY <1>1, <2>1, <2>2
<1>2. ASSUME NEW o \in Operator, \/ \E f \in Event : ReplayFailed(o, f)
                                 \/ ReplayAccepted(o) \/ ReplayRefused(o)
      PROVE  Quiet
  BY <1>2 DEF ReplayFailed, ReplayAccepted, ReplayRefused, rowVars, AppliedRows, TypeOK
<1>3. ASSUME NEW w \in Worker,
             \/ BatchBegin(w) \/ BatchRollback(w) \/ Crash(w) \/ ReleaseClaims(w)
             \/ \E f \in Event : RowBegin(w, f)
             \/ \E err \in Error : RowRollback(w, err)
             \/ \E S \in SUBSET Event : ClaimBatch(w, S)
      PROVE  Quiet
  BY <1>3 DEF BatchBegin, BatchRollback, Crash, RowBegin, RowRollback, ReleaseClaims,
              ClaimBatch, rowVars, AppliedRows
<1>4. ASSUME NEW w \in Worker, NEW f \in Event, MarkFailed(w, f) PROVE Quiet
  <2>1. CASE Holds(w, f)
    <3>1. SettleFailed(f, error[w]) /\ error[w] \in Error
      BY <1>4, <2>1 DEF MarkFailed, TypeOK
    <3>2. ASSUME NEW e \in Event, e # f, e \in AppliedRows' PROVE e \in AppliedRows
      BY <3>1, <3>2, SettleFailedRows DEF AppliedRows
    <3>3. f \notin AppliedRows'
      <4>1. CASE AfterFailure(f, error[w]) = "processed"
        <5>1. SettleProcessed({f}, [g \in {f} |-> "noop"])
          BY <3>1, <4>1 DEF SettleFailed
        <5>2. outcome'[f] = "noop"
          BY <5>1, SettleProcessedRows
        <5>. QED
          BY <5>2 DEF AppliedRows
      <4>2. CASE AfterFailure(f, error[w]) # "processed"
        BY <3>1, <4>2 DEF SettleFailed, AppliedRows
      <4>. QED
        BY <4>1, <4>2
    <3>. QED
      BY <1>4, <3>2, <3>3 DEF MarkFailed, AppliedRows
  <2>2. CASE ~Holds(w, f)
    BY <1>4, <2>2 DEF MarkFailed, AppliedRows
  <2>. QED
    BY <2>1, <2>2
<1>5. ASSUME NEW w \in Worker, NEW noop \in SUBSET Event, NEW invalid \in SUBSET Event,
             BatchCommit(w, noop, invalid)
      PROVE  Commits(w, fresh[w] \ (noop \cup invalid))
  <2> DEFINE marks == work[w] \ invalid
             written == fresh[w] \ (noop \cup invalid)
             out == [f \in marks |-> IF f \notin fresh[w] THEN "superseded"
                                     ELSE IF f \in noop THEN "noop" ELSE "applied"]
  <2>1. SettleProcessed(marks, out) /\ marks \in SUBSET Event
    BY <1>5 DEF BatchCommit, TypeOK
  <2>2. ASSUME NEW e \in Event, e \in AppliedRows' PROVE e \in AppliedRows \cup written
    <3>1. e \notin marks => e \in AppliedRows
      <4>. HIDE DEF marks, out
      <4>. QED
        BY <2>1, <2>2, SettleProcessedRows DEF AppliedRows
    <3>2. e \in marks => out[e] = "applied"
      <4>. HIDE DEF marks, out
      <4>. QED
        BY <2>1, <2>2, SettleProcessedRows DEF AppliedRows
    <3>3. e \in marks => e \in written
      BY <3>2
    <3>. QED
      BY <3>1, <3>3
  <2>3. AppliedRows' \subseteq Event
    BY DEF AppliedRows
  <2>. QED
    BY <1>5, <2>2, <2>3 DEF BatchCommit, Commits
<1>6. ASSUME NEW w \in Worker, NEW noop \in BOOLEAN, RowCommit(w, noop)
      PROVE  Committed
  <2> DEFINE e == cur[w]
             out == IF e \notin fresh[w] THEN "superseded"
                    ELSE IF noop THEN "noop" ELSE "applied"
             written == IF out = "applied" THEN {e} ELSE {}
  <2>1. e \in Event
    BY <1>6 DEF RowCommit, OwnWork, TypeOK
  <2>2. written \subseteq fresh[w] /\ written \in SUBSET Event
    BY <2>1
  <2>3. Write(written) /\ fresh' = [fresh EXCEPT ![w] = {}]
    BY <1>6 DEF RowCommit
  <2>4. ASSUME NEW f \in Event, f \in AppliedRows' PROVE f \in AppliedRows \cup written
    <3>1. CASE Holds(w, e)
      <4>1. SettleProcessed({e}, [g \in {e} |-> out]) /\ {e} \in SUBSET Event
        BY <1>6, <2>1, <3>1 DEF RowCommit
      <4>2. f # e => f \in AppliedRows
        BY <2>4, <4>1, SettleProcessedRows DEF AppliedRows
      <4>3. f = e => outcome'[f] = out
        BY <4>1, SettleProcessedRows
      <4>. QED
        BY <2>4, <4>2, <4>3 DEF AppliedRows
    <3>2. CASE ~Holds(w, e)
      BY <1>6, <2>4, <3>2 DEF RowCommit, AppliedRows
    <3>. QED
      BY <3>1, <3>2
  <2>5. AppliedRows' \subseteq Event
    BY DEF AppliedRows
  <2>. QED
    BY <2>2, <2>3, <2>4, <2>5 DEF Commits
<1>7. ASSUME UNCHANGED vars PROVE Quiet
  BY <1>7 DEF vars, rowVars, AppliedRows
<1>8. ASSUME NEW w \in Worker, NEW noop \in SUBSET Event, NEW invalid \in SUBSET Event,
             BatchCommit(w, noop, invalid)
      PROVE  Committed
  <2>1. fresh[w] \ (noop \cup invalid) \in SUBSET Event
    BY DEF TypeOK
  <2>. QED
    BY <1>5, <1>8, <2>1
<1>9. Quiet \/ Committed
  <2>. HIDE DEF Quiet, Committed
  <2>. QED
    BY <1>1, <1>2, <1>3, <1>4, <1>6, <1>7, <1>8 DEF Next, WorkerNext
<1>. QED
  BY <1>9

\* A transaction starts from the rows that no processed version supersedes.
LEMMA FreshStep ==
    ASSUME TypeOK, OwnWork, [Next]_vars, NEW v \in Worker, NEW e \in fresh'[v]
    PROVE  \/ e \in fresh[v]
           \/ e \in Event /\ ~Superseded(e) /\ AppliedRows' = AppliedRows
<1> DEFINE Taken == e \in Event /\ ~Superseded(e) /\ AppliedRows' = AppliedRows
<1>1. ASSUME NEW w \in Worker, BatchBegin(w) PROVE e \in fresh[v] \/ Taken
  BY <1>1 DEF BatchBegin, rowVars, AppliedRows, TypeOK
<1>2. ASSUME NEW w \in Worker, NEW f \in Event, RowBegin(w, f)
      PROVE  e \in fresh[v] \/ Taken
  BY <1>2 DEF RowBegin, rowVars, AppliedRows, TypeOK
<1>3. ASSUME NEW w \in Worker,
             \/ ReleaseClaims(w) \/ BatchRollback(w) \/ Crash(w)
             \/ \E S \in SUBSET Event : ClaimBatch(w, S)
             \/ \E noop, invalid \in SUBSET Event : BatchCommit(w, noop, invalid)
             \/ \E noop \in BOOLEAN : RowCommit(w, noop)
             \/ \E err \in Error : RowRollback(w, err)
             \/ \E f \in Event : MarkFailed(w, f)
      PROVE  e \in fresh[v]
  BY <1>3 DEF ReleaseClaims, BatchRollback, Crash, ClaimBatch, BatchCommit, RowCommit,
              RowRollback, MarkFailed, TypeOK
<1>4. ASSUME NEW f \in Event, \/ Enqueue(f) \/ EnqueueRejected(f) \/ ClaimGoesStale(f)
                              \/ BudgetRunsOut(f) \/ DismissFailed(f) \/ ExpireStale(f)
      PROVE  e \in fresh[v]
  BY <1>4 DEF Enqueue, EnqueueRejected, ClaimGoesStale, BudgetRunsOut, DismissFailed,
              ExpireStale, workVars
<1>5. ASSUME NEW o \in Operator, \/ \E f \in Event : ReplayFailed(o, f)
                                 \/ ReplayAccepted(o) \/ ReplayRefused(o)
      PROVE  e \in fresh[v]
  BY <1>5 DEF ReplayFailed, ReplayAccepted, ReplayRefused, workVars
<1>6. ASSUME UNCHANGED vars PROVE e \in fresh[v]
  BY <1>6 DEF vars, workVars
<1>7. e \in fresh[v] \/ Taken
  <2>. HIDE DEF Taken
  <2>. QED
    BY <1>1, <1>2, <1>3, <1>4, <1>5, <1>6 DEF Next, WorkerNext
<1>. QED
  BY <1>7

\* Two open transactions never hold fresh rows of one entity, because of the advisory
\* lock or because there is a single run.
LEMMA FreshIsExclusive ==
    ASSUME TypeOK, OwnWork, LocksHeld,
           BatchCapable \/ \A v, w \in Worker : v = w,
           NEW v \in Worker, NEW w \in Worker,
           NEW e \in fresh[v], NEW f \in fresh[w], SameEntity(e, f)
    PROVE  v = w
<1>1. CASE BatchCapable
  <2>1. lock[EntityOf[e]] = v
    BY <1>1 DEF OwnWork, LocksHeld
  <2>2. lock[EntityOf[f]] = w
    BY <1>1 DEF OwnWork, LocksHeld
  <2>. QED
    BY <2>1, <2>2 DEF SameEntity
<1>. QED
  BY <1>1

LEMMA FreshIsNewestStep ==
    ASSUME TypeOK, OwnWork, LocksHeld, FreshIsNewest, [Next]_vars, OwnWork',
           BatchCapable \/ \A v, w \in Worker : v = w
    PROVE  FreshIsNewest'
<1> SUFFICES ASSUME NEW v \in Worker, NEW e \in fresh'[v], NEW f \in AppliedRows',
                    SameEntity(e, f)
             PROVE  VersionOf[f] <= VersionOf[e]
  BY DEF FreshIsNewest, SameEntity
<1>1. CASE e \in fresh[v]
  <2>1. f \in AppliedRows => VersionOf[f] <= VersionOf[e]
    BY <1>1 DEF FreshIsNewest
  <2>2. ASSUME NEW w \in Worker, NEW S \in SUBSET Event, Commits(w, S), f \in S PROVE FALSE
    <3>1. f \in fresh[w] /\ fresh'[w] = {}
      BY <2>2 DEF Commits, TypeOK
    <3>2. v = w
      BY ONLY TypeOK, OwnWork, LocksHeld, <1>1, <3>1, SameEntity(e, f), FreshIsExclusive,
              BatchCapable \/ \A v1, w1 \in Worker : v1 = w1
    <3>. QED
      BY <3>1, <3>2
  <2>3. f \in AppliedRows
    BY <2>2, AppliedStep DEF Commits
  <2>. QED
    BY <2>1, <2>3
<1>2. CASE e \in Event /\ ~Superseded(e) /\ AppliedRows' = AppliedRows
  BY <1>2, InboxAssumption DEF Superseded, AppliedRows, SameEntity
<1>. QED
  BY <1>1, <1>2, FreshStep

LEMMA StateCoversStep ==
    ASSUME TypeOK, OwnWork, FreshIsNewest, StateCoversProcessed, [Next]_vars
    PROVE  StateCoversProcessed'
<1> SUFFICES ASSUME NEW f \in AppliedRows'
             PROVE  applied'[EntityOf[f]] >= VersionOf[f]
  BY DEF StateCoversProcessed
<1>1. CASE UNCHANGED applied /\ AppliedRows' \subseteq AppliedRows
  BY <1>1 DEF StateCoversProcessed
<1>2. ASSUME NEW w \in Worker, NEW S \in SUBSET Event, Commits(w, S)
      PROVE  applied'[EntityOf[f]] >= VersionOf[f]
  <2> DEFINE a == EntityOf[f]
             mine == {e \in S : EntityOf[e] = a}
  <2>1. f \in Event /\ a \in Entity /\ (f \in AppliedRows \/ f \in S)
    BY <1>2, InboxAssumption DEF AppliedRows, Commits
  <2>2. applied'[a] = IF mine = {} THEN applied[a] ELSE VersionOf[LastOf(mine)]
    BY <1>2, <2>1 DEF Commits, Write
  <2>3. CASE mine = {}
    BY <2>1, <2>2, <2>3 DEF StateCoversProcessed
  <2>4. CASE mine # {}
    <3>1. mine \in SUBSET Event /\ mine \subseteq fresh[w]
      BY <1>2 DEF Commits
    <3>2. LastOf(mine) \in mine /\ \A g \in mine : VersionOf[g] <= VersionOf[LastOf(mine)]
      <4>. HIDE DEF mine
      <4>. QED
        BY <2>4, <3>1, LastOfIsLast
    <3>3. VersionOf[f] <= VersionOf[LastOf(mine)]
      <4>1. CASE f \in S
        BY <3>2, <4>1
      <4>2. CASE f \in AppliedRows
        <5>1. LastOf(mine) \in fresh[w] /\ EntityOf[LastOf(mine)] = EntityOf[f]
          BY <3>1, <3>2
        <5>. QED
          BY <4>2, <5>1 DEF FreshIsNewest, SameEntity
      <4>. QED
        BY <2>1, <4>1, <4>2
    <3>4. VersionOf[f] \in Nat /\ VersionOf[LastOf(mine)] \in Nat
      BY <2>1, <3>1, <3>2, InboxAssumption
    <3>. QED
      BY <2>2, <2>4, <3>3, <3>4
  <2>. QED
    BY <2>3, <2>4
<1>. QED
  BY <1>1, <1>2, AppliedStep

\* Whatever the arrival order, the reclaims and the crashes, an entity whose rows are
\* applied under its lock, or by one run at a time, is never left behind a version
\* recorded as applied.
THEOREM StateCovers ==
    ASSUME BatchCapable \/ \A v, w \in Worker : v = w
    PROVE  Spec => []StateCoversProcessed
<1>1. Init => CoverInv
  BY DEF Init, CoverInv, OwnWork, LocksHeld, FreshIsNewest, StateCoversProcessed, AppliedRows
<1>2. TypeOK /\ OwnWork /\ CoverInv /\ [Next]_vars => CoverInv'
  <2> SUFFICES ASSUME TypeOK, OwnWork, CoverInv, [Next]_vars PROVE CoverInv'
    OBVIOUS
  <2>1. OwnWork'
    BY OwnWorkStep
  <2>2. LocksHeld'
    BY LocksHeldStep DEF CoverInv
  <2>3. FreshIsNewest'
    BY <2>1, FreshIsNewestStep DEF CoverInv
  <2>4. StateCoversProcessed'
    BY StateCoversStep DEF CoverInv
  <2>. QED
    BY <2>1, <2>2, <2>3, <2>4 DEF CoverInv
<1>3. CoverInv => StateCoversProcessed
  BY DEF CoverInv
<1>. QED
  BY <1>1, <1>2, <1>3, Typed, PTL DEF Spec

-----------------------------------------------------------------------------
(* Replay requests: which arrivals answer them *)

\* What one step does to a row and to the replay requests: rows get their arrival time
\* once, a request its asking time when it is made, and a row that a worker settles
\* resolves every request it answers in the same step.
OpenReplay(e) == status[e] = "replay_requested"
Answers(n, r) == SameEntity(n, r) /\ askedAt[r] <= createdAt[n]
ArrivalTimes(e) ==
    createdAt'[e] = createdAt[e] \/ (status[e] = "absent" /\ createdAt'[e] = clock')
AskingTimes(e) ==
    OpenReplay(e)' \/ status'[e] = "resolved" =>
        \/ (OpenReplay(e) \/ status[e] = "resolved") /\ askedAt'[e] = askedAt[e]
        \/ /\ OpenReplay(e)' /\ askedAt'[e] = clock + 1 /\ UNCHANGED <<createdAt, clock>>
           /\ \A f \in Event : status'[f] = "processed" => status[f] = "processed"
Processing(e) ==
    status'[e] = "processed" =>
        \/ status[e] = "processed" /\ outcome'[e] = outcome[e]
        \/ status[e] # "absent" /\ outcome'[e] = "dismissed"
        \/ /\ status[e] # "absent"
           /\ \A r \in Event : OpenReplay(r) /\ Answers(e, r) => status'[r] = "resolved"
Resolving(e) ==
    status'[e] = "resolved" =>
        \/ status[e] = "resolved"
        \/ \E n \in Event : /\ Answers(n, e) /\ status[n] # "absent"
                            /\ status'[n] = "processed"
ReplayMoves ==
    /\ clock' \in {clock, clock + 1}
    /\ \A e \in Event : /\ ArrivalTimes(e) /\ AskingTimes(e) /\ Processing(e) /\ Resolving(e)
                        /\ status[e] \in {"processed", "resolved"} => status'[e] = status[e]

LEMMA SettleProcessedMoves ==
    ASSUME TypeOK, NEW S \in SUBSET Event, NEW out, SettleProcessed(S, out),
           \A e \in S : status[e] \in {"pending", "processing"},
           UNCHANGED <<createdAt, askedAt, clock>>
    PROVE  ReplayMoves
<1>1. \A e \in Event : /\ e \in S => status'[e] = "processed"
                       /\ e \notin S => /\ outcome'[e] = outcome[e]
                                        /\ status'[e] = IF e \in ReplaysAnsweredBy(S)
                                                        THEN "resolved" ELSE status[e]
  BY DEF SettleProcessed
<1>2. \A r \in Event : r \in ReplaysAnsweredBy(S) <=>
                          OpenReplay(r) /\ \E n \in S : Answers(n, r)
  BY DEF ReplaysAnsweredBy, OpenReplay, Answers, SameEntity
<1>3. ASSUME NEW e \in Event PROVE Processing(e)
  <2>1. CASE e \in S
    <3>1. ASSUME NEW r \in Event, OpenReplay(r), Answers(e, r) PROVE status'[r] = "resolved"
      <4>1. r \notin S
        BY <3>1 DEF OpenReplay
      <4>2. r \in ReplaysAnsweredBy(S)
        BY <1>2, <2>1, <3>1
      <4>. QED
        BY <1>1, <4>1, <4>2
    <3>. QED
      BY <2>1, <3>1 DEF Processing
  <2>2. CASE e \notin S
    BY <1>1, <2>2 DEF Processing
  <2>. QED
    BY <2>1, <2>2
<1>4. ASSUME NEW e \in Event PROVE Resolving(e)
  BY <1>1, <1>2 DEF Resolving
<1>5. ASSUME NEW e \in Event
      PROVE  /\ ArrivalTimes(e) /\ AskingTimes(e)
             /\ status[e] \in {"processed", "resolved"} => status'[e] = status[e]
  BY <1>1, <1>2 DEF ArrivalTimes, AskingTimes, OpenReplay
<1>. QED
  BY <1>3, <1>4, <1>5 DEF ReplayMoves

LEMMA SettleFailedMoves ==
    ASSUME TypeOK, NEW e \in Event, NEW err \in Error, SettleFailed(e, err),
           status[e] \in {"pending", "processing"}, UNCHANGED <<createdAt, clock>>
    PROVE  ReplayMoves
<1>1. CASE AfterFailure(e, err) = "processed"
  <2>1. SettleProcessed({e}, [f \in {e} |-> "noop"]) /\ UNCHANGED askedAt
    BY <1>1 DEF SettleFailed
  <2>. QED
    BY <2>1, SettleProcessedMoves
<1>2. CASE AfterFailure(e, err) # "processed"
  <2> DEFINE asked == IF AfterFailure(e, err) = "failed" THEN ReplaysAnsweredBy({e}) ELSE {}
  <2>1. /\ status' = [f \in Event |-> IF f = e THEN AfterFailure(e, err)
                                      ELSE IF f \in asked THEN "failed" ELSE status[f]]
        /\ askedAt' = [f \in Event |-> IF f \in asked THEN 0 ELSE askedAt[f]]
        /\ UNCHANGED outcome
    BY <1>2 DEF SettleFailed
  <2>2. \A f \in asked : status[f] = "replay_requested"
    BY DEF ReplaysAnsweredBy
  <2>3. AfterFailure(e, err) \in {"failed", "pending", "dependency_missing"}
    BY <1>2 DEF AfterFailure, Error, TypeOK
  <2>. HIDE DEF asked
  <2>4. ASSUME NEW f \in Event
        PROVE  /\ status'[f] \in {"replay_requested", "resolved", "processed"} =>
                      status'[f] = status[f] /\ askedAt'[f] = askedAt[f]
               /\ status[f] \in {"processed", "resolved"} => status'[f] = status[f]
    BY <2>1, <2>2, <2>3
  <2>. QED
    BY <2>1, <2>4 DEF ReplayMoves, ArrivalTimes, AskingTimes, Processing, Resolving, OpenReplay
<1>. QED
  BY <1>1, <1>2

LEMMA ReplayStep ==
    ASSUME TypeOK, OwnWork, [Next]_vars
    PROVE  ReplayMoves
<1> USE DEF ReplayMoves, ArrivalTimes, AskingTimes, Processing, Resolving, OpenReplay
<1>1. ASSUME NEW e \in Event, Enqueue(e) \/ EnqueueRejected(e) PROVE ReplayMoves
  BY <1>1 DEF Enqueue, EnqueueRejected, Insert, TypeOK
<1>2. ASSUME NEW e \in Event, ClaimGoesStale(e) \/ BudgetRunsOut(e) PROVE ReplayMoves
  BY <1>2 DEF ClaimGoesStale, BudgetRunsOut, TypeOK
<1>3. ASSUME NEW e \in Event, DismissFailed(e) \/ ExpireStale(e) PROVE ReplayMoves
  BY <1>3 DEF DismissFailed, ExpireStale, TypeOK
<1>4. ASSUME NEW o \in Operator, NEW e \in Event, ReplayFailed(o, e) PROVE ReplayMoves
  BY <1>4 DEF ReplayFailed, TypeOK
<1>5. ASSUME NEW o \in Operator, ReplayAccepted(o) \/ ReplayRefused(o) PROVE ReplayMoves
  BY <1>5 DEF ReplayAccepted, ReplayRefused, rowVars, TypeOK
<1>6. ASSUME NEW w \in Worker, NEW S \in SUBSET Event, ClaimBatch(w, S) PROVE ReplayMoves
  BY <1>6 DEF ClaimBatch, Claimable, TypeOK
<1>7. ASSUME NEW w \in Worker, ReleaseClaims(w) PROVE ReplayMoves
  BY <1>7 DEF ReleaseClaims, TypeOK
<1>8. ASSUME NEW w \in Worker, NEW noop \in SUBSET Event, NEW invalid \in SUBSET Event,
             BatchCommit(w, noop, invalid)
      PROVE  ReplayMoves
  <2>1. PICK out : SettleProcessed(work[w] \ invalid, out)
    BY <1>8 DEF BatchCommit
  <2>2. work[w] \ invalid \in SUBSET Event
    BY DEF TypeOK
  <2>3. \A e \in work[w] \ invalid : status[e] \in {"pending", "processing"}
    BY <1>8 DEF BatchCommit, Holds
  <2>4. UNCHANGED <<createdAt, askedAt, clock>>
    BY <1>8 DEF BatchCommit
  <2>. QED
    BY ONLY TypeOK, <2>1, <2>2, <2>3, <2>4, SettleProcessedMoves
<1>9. ASSUME NEW w \in Worker, NEW noop \in BOOLEAN, RowCommit(w, noop) PROVE ReplayMoves
  <2>1. CASE Holds(w, cur[w])
    <3>1. PICK out : SettleProcessed({cur[w]}, out)
      BY <1>9, <2>1 DEF RowCommit
    <3>2. {cur[w]} \in SUBSET Event
      BY <1>9 DEF RowCommit, OwnWork, TypeOK
    <3>3. status[cur[w]] \in {"pending", "processing"} /\ UNCHANGED <<createdAt, askedAt, clock>>
      BY <1>9, <2>1 DEF RowCommit, Holds
    <3>. QED
      BY ONLY TypeOK, <3>1, <3>2, <3>3, SettleProcessedMoves
  <2>2. CASE ~Holds(w, cur[w])
    BY <1>9, <2>2 DEF RowCommit
  <2>. QED
    BY <2>1, <2>2
<1>10. ASSUME NEW w \in Worker, NEW f \in Event, MarkFailed(w, f) PROVE ReplayMoves
  <2>1. CASE Holds(w, f)
    <3>1. SettleFailed(f, error[w]) /\ error[w] \in Error /\ UNCHANGED <<createdAt, clock>>
      BY <1>10, <2>1 DEF MarkFailed, TypeOK
    <3>2. status[f] \in {"pending", "processing"}
      BY <2>1 DEF Holds
    <3>. QED
      BY ONLY TypeOK, f \in Event, <3>1, <3>2, SettleFailedMoves
  <2>2. CASE ~Holds(w, f)
    BY <1>10, <2>2 DEF MarkFailed
  <2>. QED
    BY <2>1, <2>2
<1>11. ASSUME NEW w \in Worker,
              \/ BatchBegin(w) \/ BatchRollback(w) \/ Crash(w)
              \/ \E f \in Event : RowBegin(w, f)
              \/ \E err \in Error : RowRollback(w, err)
       PROVE  ReplayMoves
  BY <1>11 DEF BatchBegin, BatchRollback, Crash, RowBegin, RowRollback, rowVars
<1>12. CASE UNCHANGED vars
  BY <1>12 DEF vars, rowVars
<1>. HIDE DEF ReplayMoves, ArrivalTimes, AskingTimes, Processing, Resolving, OpenReplay
<1>13. ASSUME NEW w \in Worker, WorkerNext(w) PROVE ReplayMoves
  BY <1>6, <1>7, <1>8, <1>9, <1>10, <1>11, <1>13 DEF WorkerNext
<1>. QED
  BY <1>1, <1>2, <1>3, <1>4, <1>5, <1>12, <1>13 DEF Next

\* The clock of the database is never behind a row's arrival.
ArrivedByNow == \A e \in Event : createdAt[e] <= clock

LEMMA ArrivedByNowStep ==
    ASSUME TypeOK, ArrivedByNow, ReplayMoves
    PROVE  ArrivedByNow'
BY DEF TypeOK, ArrivedByNow, ReplayMoves, ArrivalTimes

LEMMA ResolvedByReplayedStep ==
    ASSUME TypeOK, ResolvedByReplayedEvent, ReplayMoves
    PROVE  ResolvedByReplayedEvent'
<1> SUFFICES ASSUME NEW r \in Event, status'[r] = "resolved"
             PROVE  \E n \in Event : /\ SameEntity(n, r) /\ status'[n] = "processed"
                                     /\ askedAt'[r] <= createdAt'[n]
  BY DEF ResolvedByReplayedEvent, SameEntity
<1>1. (OpenReplay(r) \/ status[r] = "resolved") /\ askedAt'[r] = askedAt[r]
  BY DEF ReplayMoves, AskingTimes, OpenReplay
<1>2. PICK n \in Event : /\ Answers(n, r) /\ status[n] # "absent" /\ status'[n] = "processed"
  <2>1. CASE status[r] = "resolved"
    BY <2>1 DEF ResolvedByReplayedEvent, Answers, ReplayMoves
  <2>2. CASE status[r] # "resolved"
    BY <2>2 DEF ReplayMoves, Resolving
  <2>. QED
    BY <2>1, <2>2
<1>3. createdAt'[n] = createdAt[n]
  BY <1>2 DEF ReplayMoves, ArrivalTimes
<1>. QED
  BY <1>1, <1>2, <1>3 DEF Answers

LEMMA AnsweredReplayStep ==
    ASSUME TypeOK, ArrivedByNow, AnsweredReplayIsClosed, ReplayMoves
    PROVE  AnsweredReplayIsClosed'
<1> SUFFICES ASSUME NEW r \in Event, NEW n \in Event,
                    OpenReplay(r)', SameEntity(n, r), status'[n] = "processed",
                    outcome'[n] # "dismissed"
             PROVE  createdAt'[n] < askedAt'[r]
  BY DEF AnsweredReplayIsClosed, OpenReplay, SameEntity
<1>1. CASE OpenReplay(r) /\ askedAt'[r] = askedAt[r]
  <2>1. status[n] # "absent"
    BY DEF ReplayMoves, Processing
  <2>2. createdAt'[n] = createdAt[n]
    BY <2>1 DEF ReplayMoves, ArrivalTimes
  <2>3. CASE status[n] = "processed" /\ outcome'[n] = outcome[n]
    BY <1>1, <2>2, <2>3 DEF AnsweredReplayIsClosed, OpenReplay
  <2>4. CASE ~(status[n] = "processed" /\ outcome'[n] = outcome[n])
    <3>1. ~Answers(n, r)
      BY <1>1, <2>4 DEF ReplayMoves, Processing, OpenReplay
    <3>. QED
      BY <1>1, <2>2, <3>1 DEF Answers, TypeOK
  <2>. QED
    BY <2>3, <2>4
<1>2. CASE askedAt'[r] = clock + 1 /\ UNCHANGED <<createdAt, clock>>
  BY <1>2 DEF ArrivedByNow, TypeOK
<1>. QED
  BY <1>1, <1>2 DEF ReplayMoves, AskingTimes, OpenReplay

ReplayInv == ArrivedByNow /\ ResolvedByReplayedEvent /\ AnsweredReplayIsClosed

LEMMA ReplayInvariant == Spec => []ReplayInv
<1>1. Init => ReplayInv
  BY DEF Init, ReplayInv, ArrivedByNow, ResolvedByReplayedEvent, AnsweredReplayIsClosed
<1>2. TypeOK /\ OwnWork /\ ReplayInv /\ [Next]_vars => ReplayInv'
  BY ReplayStep, ArrivedByNowStep, ResolvedByReplayedStep, AnsweredReplayStep DEF ReplayInv
<1>. QED
  BY <1>1, <1>2, Typed, PTL DEF Spec

\* A dead letter counts as resolved only if an event of its entity that arrived after
\* the replay was asked for has been processed (the resolving half of settleProcessed).
THEOREM ResolvedByEvent == Spec => []ResolvedByReplayedEvent
<1>1. ReplayInv => ResolvedByReplayedEvent
  BY DEF ReplayInv
<1>. QED
  BY <1>1, ReplayInvariant, PTL

\* Once a worker settles the replayed event, no dead letter of its entity is left waiting
\* for it: settling and resolving are one statement, and a later request asks for more.
THEOREM AnsweredCloses == Spec => []AnsweredReplayIsClosed
<1>1. ReplayInv => AnsweredReplayIsClosed
  BY DEF ReplayInv
<1>. QED
  BY <1>1, ReplayInvariant, PTL

=============================================================================
