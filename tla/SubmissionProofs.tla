--------------------------- MODULE SubmissionProofs ---------------------------
(***************************************************************************)
(* Proofs about Submission: types; one submission of an order; a cancelled *)
(* order that the ERP has is taken back, and nothing of it is sent late.   *)
(* For any rows, rebuilders and bounds, but for those a theorem names: a   *)
(* run shows, or the known limits in the README, what happens without.     *)
(***************************************************************************)
EXTENDS Submission, TLAPS

\* The order.confirmed on its way or sent, those with a dead letter, all ever recorded.
Active == RowsOf("confirmed", {"pending", "published"})
Live == RowsOf("confirmed", {"pending", "failed", "published"})
Asked == {r \in Row : kind[r] = "confirmed" /\ status[r] # "absent"}

-----------------------------------------------------------------------------
(* Types *)

OrderTyped ==
    /\ state \in {"open", "cancelled"}
    /\ lines \in 0..MaxEdits
    /\ reserve \in {"none", "auto", "manual"}
    /\ reserves \in 0..MaxReserves
    /\ erpStatus \in {"none", "submitted", "rejected", "picking"}
    /\ cancelRequest \in {"none", "REQUESTED", "REFUSED", "CANCELLED"}
    /\ job \in {"none", "cancel", "expire", "edit"}
    /\ dueReturn \in 0..MaxReserves
    /\ reserved \in Nat
    /\ statusEvents \subseteq {"submitted", "rejected"}

\* An edit under way is counted below its bound.
EditFits == job = "edit" => lines < MaxEdits

FlagsTyped == paid \in BOOLEAN /\ erpOrderId \in BOOLEAN /\ holding \in BOOLEAN

RowsTyped ==
    /\ status \in [Row -> {"absent", "pending", "failed", "published", "skipped", "resolved"}]
    /\ kind \in [Row -> Kind]
    /\ content \in [Row -> 0..MaxEdits]
    /\ reason \in [Row -> {"none", "held", "rebuild failed", "withdrawn", "other"}]

DeliveryTyped ==
    /\ publishing \in [Row -> {"no", "sending", "sent"}]
    /\ delivered \subseteq Row
    /\ answer \in [Row -> {"none", "registered", "rejected", "cancelled", "refused"}]

RebuildTyped ==
    rebuild \in [Rebuilder -> [at : {"idle", "order", "reservation", "insert"},
                               row : Row \cup {NoRow}, lines : 0..MaxEdits]]

Typed ==
    /\ OrderTyped /\ EditFits /\ FlagsTyped /\ RowsTyped /\ DeliveryTyped /\ RebuildTyped
    /\ bounds \in Counter

LEMMA CountTyped ==
  ASSUME bounds \in Counter
  PROVE  /\ Count("giveUps", MaxGiveUps) => bounds' \in Counter
         /\ Count("requeues", MaxRequeues) => bounds' \in Counter
         /\ Count("lost", MaxLost) => bounds' \in Counter
         /\ Count("dropped", MaxDropped) => bounds' \in Counter
         /\ Count("rejections", MaxRejections) => bounds' \in Counter
BY SubmissionAssumption DEF SubmissionAssumption, Counter, Count

LEMMA CountersStep ==
  ASSUME Typed, Next
  PROVE  bounds' \in Counter
<1>1. ASSUME Reservations \/ Rebuilds \/ Withdrawals PROVE bounds' = bounds
  BY <1>1 DEF Reservations, Reserve, ConfirmByStaff, ReleaseReservations, ReturnToConfirmationQueue,
     Rebuilds, RebuildBegin, RebuildInsert, RebuildAlreadySent, RebuildReadOrder, RebuildReadReservation,
     RebuildFail, Withdrawals, Cancel, SkipAndCancel, EditLines, SkipAndEdit
<1>2. ASSUME Enqueues PROVE bounds' = bounds \/ Count("dropped", MaxDropped)
  BY <1>2 DEF Enqueues, EnqueueConfirmed, EnqueueUnbuildable, LoseReservedEvent, Reconcile
<1>3. ASSUME Publishes
      PROVE  \/ bounds' = bounds \/ Count("giveUps", MaxGiveUps) \/ Count("lost", MaxLost)
             \/ Count("requeues", MaxRequeues)
  BY <1>3 DEF Publishes, PublishBegin, PublishSend, PublishCommit, PublishFail, PublishLost, RequeueFailed
<1>4. ASSUME Reports PROVE bounds' = bounds \/ Count("rejections", MaxRejections)
  BY <1>4 DEF Reports, RegistrationResult, CancelResult, UpdateStatus, OrderChanged, Pay, HoldChanges
<1> QED BY <1>1, <1>2, <1>3, <1>4, CountTyped DEF Typed, Next

LEMMA OrderStep ==
  ASSUME Typed, Next
  PROVE  OrderTyped' /\ EditFits'
<1> USE SubmissionAssumption
    DEF Typed, OrderTyped, EditFits, SubmissionAssumption, orderVars, erpVars
<1>1. ASSUME NEW trigger \in {"auto", "manual"}, Reserve(trigger) PROVE OrderTyped' /\ EditFits'
  BY <1>1 DEF Reserve
<1>2. CASE ConfirmByStaff \/ ReleaseReservations
  BY <1>2 DEF ConfirmByStaff, ReleaseReservations
<1>3. CASE ReturnToConfirmationQueue
  <2>1. reserve' \in {"none", reserve} /\ dueReturn' = 0
    BY <1>3 DEF ReturnToConfirmationQueue
  <2> QED BY <1>3, <2>1 DEF ReturnToConfirmationQueue
<1>4. CASE Enqueues
  <2>1. /\ UNCHANGED <<state, lines, reserve, reserves, erpStatus, cancelRequest, job, dueReturn, statusEvents>>
        /\ (reserved > 0 /\ reserved' = reserved - 1) \/ reserved' = 1
    BY <1>4 DEF Enqueues, EnqueueConfirmed, EnqueueUnbuildable, LoseReservedEvent, Reconcile
  <2>2. reserved' \in Nat
    BY <2>1
  <2> QED BY <2>1, <2>2
<1>5. CASE Publishes
  BY <1>5 DEF Publishes, PublishBegin, PublishSend, PublishCommit, PublishFail, PublishLost, RequeueFailed
<1>6. CASE Rebuilds
  <2>1. UNCHANGED <<orderVars, job, dueReturn, reserved, erpVars>>
    BY <1>6 DEF Rebuilds, RebuildBegin, RebuildInsert, RebuildAlreadySent, RebuildReadOrder,
       RebuildReadReservation, RebuildFail
  <2> QED BY <2>1
<1>7. ASSUME NEW r \in Row, (\E how \in CancelCause : Cancel(how, r)) \/ SkipAndCancel(r)
      PROVE  OrderTyped' /\ EditFits'
  BY <1>7 DEF Cancel, SkipAndCancel, Perform, RequestCancel, CancelLocally, OrderLockFree
<1>8. CASE EditLines \/ SkipAndEdit
  <2>1. /\ UNCHANGED <<state, reserves, erpStatus, cancelRequest, dueReturn, reserved, statusEvents>>
        /\ reserve' \in {reserve, "none"}
        /\ \/ lines' = lines /\ job' = "none"
           \/ lines < MaxEdits /\ lines' = lines /\ job' = "edit"
           \/ lines < MaxEdits /\ lines' = lines + 1 /\ job' = "none"
    BY <1>8 DEF EditLines, SkipAndEdit, OrderLockFree
  <2>2. lines' \in 0..MaxEdits
    BY <2>1
  <2> QED BY <2>1, <2>2
<1>9. ASSUME NEW r \in Row, RegistrationResult(r) \/ CancelResult(r) PROVE OrderTyped' /\ EditFits'
  BY <1>9 DEF RegistrationResult, CancelResult, CancelLocally
<1>10. ASSUME \/ \E s \in {"submitted", "rejected"} : UpdateStatus(s)
              \/ OrderChanged \/ Pay \/ HoldChanges
       PROVE  OrderTyped' /\ EditFits'
  BY <1>10 DEF UpdateStatus, OrderChanged, CancelLocally, Pay, HoldChanges
<1> QED BY <1>1, <1>2, <1>3, <1>4, <1>5, <1>6, <1>7, <1>8, <1>9, <1>10
        DEF Next, Reservations, Withdrawals, Reports

LEMMA FlagsStep ==
  ASSUME Typed, Next
  PROVE  FlagsTyped'
<1> USE DEF Typed, FlagsTyped, orderVars
<1>1. CASE Reservations \/ Withdrawals
  BY <1>1 DEF Reservations, Reserve, ConfirmByStaff, ReleaseReservations, ReturnToConfirmationQueue,
     Withdrawals, Cancel, SkipAndCancel, EditLines, SkipAndEdit
<1>2. CASE Enqueues \/ Publishes \/ Rebuilds
  BY <1>2 DEF Enqueues, EnqueueConfirmed, EnqueueUnbuildable, LoseReservedEvent, Reconcile,
     Publishes, PublishBegin, PublishSend, PublishCommit, PublishFail, PublishLost, RequeueFailed,
     Rebuilds, RebuildBegin, RebuildInsert, RebuildAlreadySent, RebuildReadOrder, RebuildReadReservation,
     RebuildFail
<1>3. CASE Reports
  BY <1>3 DEF Reports, RegistrationResult, CancelResult, UpdateStatus, OrderChanged, Pay, HoldChanges
<1> QED BY <1>1, <1>2, <1>3 DEF Next

LEMMA RowsStep ==
  ASSUME Typed, Next
  PROVE  RowsTyped'
<1>3. 0 \in 0..MaxEdits
  BY SubmissionAssumption DEF SubmissionAssumption
<1> USE DEF Typed, OrderTyped, RowsTyped, rowVars, Kind
<1>1. CASE Reservations \/ Reports
  <2>1. UNCHANGED rowVars
    BY <1>1 DEF Reservations, Reserve, ConfirmByStaff, ReleaseReservations, ReturnToConfirmationQueue,
       Reports, RegistrationResult, CancelResult, UpdateStatus, OrderChanged, Pay, HoldChanges
  <2> QED BY <2>1
<1>2. ASSUME NEW r \in Row, NEW k \in Kind, NEW t \in {"pending", "skipped"}, NEW why \in {"none", "held", "other"},
             NEW n \in 0..MaxEdits, Write(r, k, t, why, n)
      PROVE  RowsTyped'
  BY <1>2 DEF Write
<1>4. ASSUME NEW r \in Row, EnqueueConfirmed(r) \/ EnqueueUnbuildable(r) PROVE RowsTyped'
  <2>1. \/ Write(r, "confirmed", "skipped", "other", 0) \/ Write(r, "confirmed", "skipped", "held", 0)
        \/ Write(r, "confirmed", "pending", "none", lines)
    BY <1>4 DEF EnqueueConfirmed, EnqueueUnbuildable
  <2> QED BY <1>2, <1>3, <2>1
<1>5. CASE LoseReservedEvent \/ Reconcile
  BY <1>5 DEF LoseReservedEvent, Reconcile
<1>6. CASE Publishes
  <2>1. PICK r \in Row : \/ UNCHANGED rowVars
                         \/ /\ \E to \in {"pending", "failed", "published"} : status' = [status EXCEPT ![r] = to]
                            /\ UNCHANGED <<kind, content, reason>>
    BY <1>6 DEF Publishes, PublishBegin, PublishSend, PublishCommit, PublishFail, PublishLost, RequeueFailed
  <2> QED BY <2>1
<1>7. CASE Rebuilds
  <2>1. ASSUME NEW b \in Rebuilder, StillSkipped(b, "held") \/ StillSkipped(b, "other") \/ StillSkipped(b, "rebuild failed"),
               UNCHANGED <<status, kind, content>>
        PROVE  RowsTyped'
    BY <2>1 DEF StillSkipped
  <2>2. ASSUME NEW q, status' = [status EXCEPT ![q] = "resolved"], UNCHANGED <<kind, content, reason>>
        PROVE  RowsTyped'
    BY <2>2
  <2>3. ASSUME NEW b \in Rebuilder, NEW r \in Row, RebuildInsert(b, r) PROVE RowsTyped'
    <3>1. CASE /\ status' = [status EXCEPT ![r] = "pending", ![rebuild[b].row] = "resolved"]
               /\ kind' = [kind EXCEPT ![r] = "confirmed"]
               /\ content' = [content EXCEPT ![r] = rebuild[b].lines] /\ reason' = reason
      BY <3>1 DEF RebuildTyped
    <3> QED BY <2>1, <2>2, <2>3, <3>1, Zenon DEF RebuildInsert, Resolve
  <2>4. UNCHANGED rowVars => RowsTyped'
    OBVIOUS
  <2>5. ASSUME NEW b \in Rebuilder, RebuildReadOrder(b) \/ RebuildReadReservation(b) \/ RebuildFail(b)
        PROVE  RowsTyped'
    BY <2>1, <2>4, <2>5 DEF RebuildReadOrder, RebuildReadReservation, RebuildFail
  <2>6. ASSUME NEW r \in Row, (\E b \in Rebuilder : RebuildBegin(b, r)) \/ RebuildAlreadySent(r)
        PROVE  RowsTyped'
    BY <2>2, <2>4, <2>6 DEF RebuildBegin, RebuildAlreadySent, Resolve
  <2> QED BY <1>7, <2>3, <2>5, <2>6 DEF Rebuilds
<1>8. ASSUME NEW S, Skip(S), UNCHANGED <<kind, content>> PROVE RowsTyped'
  BY <1>8 DEF Skip
<1>9. CASE Withdrawals
  <2>1. \/ UNCHANGED rowVars
        \/ \E r \in Row : Write(r, "cancel-requested", "pending", "none", 0)
        \/ Skip(Waiting) /\ UNCHANGED <<kind, content>>
    BY <1>9 DEF Withdrawals, Cancel, SkipAndCancel, EditLines, SkipAndEdit, Perform, RequestCancel
  <2> QED BY <1>2, <1>3, <1>8, <2>1
<1> QED BY <1>1, <1>4, <1>5, <1>6, <1>7, <1>9 DEF Next, Enqueues

LEMMA DeliveryStep ==
  ASSUME Typed, Next
  PROVE  DeliveryTyped'
<1> USE DEF Typed, DeliveryTyped, erpVars
<1>1. CASE Reservations \/ Rebuilds
  <2>1. UNCHANGED <<publishing, delivered, answer>>
    BY <1>1 DEF Reservations, Reserve, ConfirmByStaff, ReleaseReservations, ReturnToConfirmationQueue,
       Rebuilds, RebuildBegin, RebuildInsert, RebuildAlreadySent, RebuildReadOrder,
       RebuildReadReservation, RebuildFail
  <2> QED BY <2>1
<1>2. CASE Enqueues \/ Withdrawals
  <2>1. UNCHANGED <<publishing, delivered, answer>>
    BY <1>2 DEF Enqueues, EnqueueConfirmed, EnqueueUnbuildable, LoseReservedEvent, Reconcile,
       Withdrawals, Cancel, SkipAndCancel, EditLines, SkipAndEdit
  <2> QED BY <2>1
<1>3. CASE Publishes
  <2>1. PICK r \in Row : /\ \E to \in {"no", "sending", "sent"} : publishing' \in {publishing, [publishing EXCEPT ![r] = to]}
                         /\ delivered' \in {delivered, delivered \cup {r}} /\ answer' = answer
    BY <1>3 DEF Publishes, PublishBegin, PublishSend, PublishCommit, PublishFail, PublishLost, RequeueFailed
  <2> QED BY <2>1
<1>4. CASE Reports
  <2>1. \/ UNCHANGED <<publishing, delivered, answer>>
        \/ \E r \in Row, a \in {"registered", "rejected", "cancelled", "refused"} :
              answer' = [answer EXCEPT ![r] = a] /\ UNCHANGED <<publishing, delivered>>
    BY <1>4 DEF Reports, RegistrationResult, CancelResult, UpdateStatus, OrderChanged, Pay, HoldChanges
  <2> QED BY <2>1
<1> QED BY <1>1, <1>2, <1>3, <1>4 DEF Next

LEMMA RebuildStep ==
  ASSUME Typed, Next
  PROVE  RebuildTyped'
<1> USE DEF Typed, RebuildTyped
<1>1. Idle \in [at : {"idle", "order", "reservation", "insert"}, row : Row \cup {NoRow}, lines : 0..MaxEdits]
  BY SubmissionAssumption DEF Idle, SubmissionAssumption
<1>2. CASE rebuild' = rebuild
  BY <1>2
<1>3. ASSUME NEW b \in Rebuilder, rebuild' = [rebuild EXCEPT ![b] = Idle] PROVE RebuildTyped'
  BY <1>1, <1>3
<1>4. ASSUME NEW b \in Rebuilder, NEW r \in Row, RebuildBegin(b, r) PROVE RebuildTyped'
  BY <1>4, SubmissionAssumption DEF RebuildBegin, SubmissionAssumption
<1>5. ASSUME NEW b \in Rebuilder, RebuildReadOrder(b) PROVE RebuildTyped'
  <2>1. CASE rebuild' = [rebuild EXCEPT ![b].at = "reservation", ![b].lines = lines]
    BY <2>1 DEF OrderTyped
  <2> QED BY <1>3, <1>5, <2>1 DEF RebuildReadOrder, StillSkipped
<1>6. ASSUME NEW b \in Rebuilder, RebuildReadReservation(b) PROVE RebuildTyped'
  <2>1. CASE rebuild' = [rebuild EXCEPT ![b].at = "insert"]
    BY <2>1
  <2> QED BY <1>3, <1>6, <2>1 DEF RebuildReadReservation, StillSkipped
<1>7. ASSUME NEW b \in Rebuilder, NEW r \in Row, RebuildInsert(b, r) \/ RebuildFail(b) PROVE RebuildTyped'
  BY <1>3, <1>7 DEF RebuildInsert, RebuildFail, StillSkipped
<1>8. ASSUME Reservations \/ Enqueues \/ Publishes PROVE rebuild' = rebuild
  BY <1>8 DEF Reservations, Reserve, ConfirmByStaff, ReleaseReservations, ReturnToConfirmationQueue,
       Enqueues, EnqueueConfirmed, EnqueueUnbuildable, LoseReservedEvent, Reconcile,
       Publishes, PublishBegin, PublishSend, PublishCommit, PublishFail, PublishLost, RequeueFailed
<1>9. ASSUME Withdrawals \/ Reports PROVE rebuild' = rebuild
  BY <1>9 DEF Withdrawals, Cancel, SkipAndCancel, EditLines, SkipAndEdit,
       Reports, RegistrationResult, CancelResult, UpdateStatus, OrderChanged, Pay, HoldChanges
<1>10. ASSUME NEW b \in Rebuilder, RebuildFail(b) PROVE RebuildTyped'
  BY <1>3, <1>10 DEF RebuildFail, StillSkipped
<1>11. ASSUME NEW r \in Row, RebuildAlreadySent(r) PROVE RebuildTyped'
  BY <1>2, <1>11 DEF RebuildAlreadySent
<1> QED BY <1>2, <1>4, <1>5, <1>6, <1>7, <1>8, <1>9, <1>10, <1>11 DEF Next, Rebuilds

LEMMA TypedInit == Init => Typed
<1> SUFFICES ASSUME Init PROVE Typed
  OBVIOUS
<1> USE SubmissionAssumption DEF Init, SubmissionAssumption
<1>1. OrderTyped /\ EditFits
  BY DEF OrderTyped, EditFits
<1>2. FlagsTyped
  BY DEF FlagsTyped
<1>3. RowsTyped
  BY DEF RowsTyped, Kind
<1>4. DeliveryTyped
  BY DEF DeliveryTyped
<1>5. RebuildTyped
  BY DEF RebuildTyped, Idle
<1>6. bounds \in Counter
  BY DEF Zero, Counter
<1> QED BY <1>1, <1>2, <1>3, <1>4, <1>5, <1>6 DEF Typed

LEMMA TypedStep == Typed /\ [Next]_vars => Typed'
<1> SUFFICES ASSUME Typed, [Next]_vars PROVE Typed'
  OBVIOUS
<1>1. CASE Next
  BY <1>1, OrderStep, FlagsStep, RowsStep, DeliveryStep, RebuildStep, CountersStep DEF Typed
<1>2. CASE UNCHANGED vars
  <2> USE <1>2 DEF vars, orderVars, rowVars, erpVars, Typed
  <2>1. OrderTyped' /\ EditFits'
    BY DEF OrderTyped, EditFits
  <2>2. FlagsTyped'
    BY DEF FlagsTyped
  <2>3. RowsTyped'
    BY DEF RowsTyped
  <2>4. DeliveryTyped' /\ RebuildTyped' /\ bounds' \in Counter
    BY DEF DeliveryTyped, RebuildTyped
  <2> QED BY <2>1, <2>2, <2>3, <2>4
<1> QED BY <1>1, <1>2

\* Every variable keeps its type, and no count passes its bound.
THEOREM SubmissionTyped == Spec => []TypeOK
<1>1. Typed => TypeOK
  BY Zenon DEF Typed, TypeOK, OrderTyped, FlagsTyped, RowsTyped, DeliveryTyped, RebuildTyped
<1> QED BY <1>1, TypedInit, TypedStep, PTL DEF Spec

-----------------------------------------------------------------------------
(* How rows change *)

Adds(r, k, s) ==
    status[r] = "absent" /\ status' = [status EXCEPT ![r] = s] /\ kind' = [kind EXCEPT ![r] = k]

Moves(r, s) == status' = [status EXCEPT ![r] = s] /\ kind' = kind

\* A withdrawal skips the waiting rows, none of which is being published.
Withdrawn == Waiting # {} /\ Unlocked(Waiting) /\ Skip(Waiting) /\ kind' = kind

LEMMA RowsMove ==
  ASSUME Next
  PROVE  \/ UNCHANGED <<status, kind>>
         \/ \E r \in Row :
               \/ EnqueueConfirmed(r) /\ Adds(r, "confirmed", "pending") /\ state = "open" /\ ~AlreadySubmitted
               \/ (EnqueueConfirmed(r) \/ EnqueueUnbuildable(r)) /\ Adds(r, "confirmed", "skipped")
               \/ PublishCommit(r) /\ Moves(r, "published")
               \/ PublishFail(r) /\ Count("giveUps", MaxGiveUps) /\ Moves(r, "failed")
               \/ RequeueFailed(r) /\ Moves(r, "pending")
               \/ Rebuilder # {} /\ RebuildAlreadySent(r) /\ Moves(r, "resolved")
               \/ \E b \in Rebuilder : RebuildInsert(b, r)
               \/ /\ SkipAndCancel(r) \/ \E how \in CancelCause : Cancel(how, r)
                  /\ Adds(r, "cancel-requested", "pending")
         \/ Withdrawn /\ ((\E r \in Row : SkipAndCancel(r)) \/ SkipAndEdit)
<1> USE DEF rowVars
<1>1. ASSUME NEW r \in Row, EnqueueConfirmed(r)
      PROVE  \/ Adds(r, "confirmed", "pending") /\ state = "open" /\ ~AlreadySubmitted
             \/ Adds(r, "confirmed", "skipped")
  BY <1>1 DEF EnqueueConfirmed, Write, Adds
<1>2. ASSUME NEW r \in Row, EnqueueUnbuildable(r) PROVE Adds(r, "confirmed", "skipped")
  BY <1>2 DEF EnqueueUnbuildable, Write, Adds
<1>3. ASSUME NEW r \in Row, Publishes
      PROVE  \E q \in Row : \/ UNCHANGED <<status, kind>>
                            \/ PublishCommit(q) /\ Moves(q, "published")
                            \/ PublishFail(q) /\ Count("giveUps", MaxGiveUps) /\ Moves(q, "failed")
                            \/ RequeueFailed(q) /\ Moves(q, "pending")
  BY <1>3 DEF Publishes, PublishBegin, PublishSend, PublishCommit, PublishFail, PublishLost, RequeueFailed, Moves
<1>4. CASE Rebuilds
  BY <1>4 DEF Rebuilds, RebuildBegin, RebuildAlreadySent, RebuildReadOrder, RebuildReadReservation,
     RebuildFail, Resolve, Moves
<1>5. ASSUME NEW r \in Row, NEW how \in CancelCause, Cancel(how, r)
      PROVE  UNCHANGED <<status, kind>> \/ Adds(r, "cancel-requested", "pending")
  BY <1>5 DEF Cancel, Perform, RequestCancel, Write, Adds
<1>6. ASSUME NEW r \in Row, SkipAndCancel(r)
      PROVE  UNCHANGED <<status, kind>> \/ Adds(r, "cancel-requested", "pending") \/ Withdrawn
  BY <1>6 DEF SkipAndCancel, Perform, RequestCancel, Write, Adds, Withdrawn
<1>7. CASE EditLines \/ SkipAndEdit
  BY <1>7 DEF EditLines, SkipAndEdit, Withdrawn
<1>8. ASSUME Reservations \/ Reports \/ LoseReservedEvent \/ Reconcile PROVE UNCHANGED <<status, kind>>
  BY <1>8 DEF Reservations, Reserve, ConfirmByStaff, ReleaseReservations, ReturnToConfirmationQueue,
     LoseReservedEvent, Reconcile,
     Reports, RegistrationResult, CancelResult, UpdateStatus, OrderChanged, Pay, HoldChanges
<1> QED BY <1>1, <1>2, <1>3, <1>4, <1>5, <1>6, <1>7, <1>8 DEF Next, Enqueues, Publishes, Withdrawals

\* A bound of zero excludes its event.
LEMMA NoneCounted ==
  ASSUME Typed
  PROVE  /\ MaxGiveUps = 0 => ~Count("giveUps", MaxGiveUps)
         /\ MaxRequeues = 0 => ~Count("requeues", MaxRequeues)
         /\ MaxLost = 0 => ~Count("lost", MaxLost)
         /\ MaxRejections = 0 => ~Count("rejections", MaxRejections)
<1>1. bounds \in Counter
  BY DEF Typed
<1> QED BY <1>1 DEF Counter, Count

-----------------------------------------------------------------------------
(* Row locks *)

\* A row that is being published waits to be.
SentWaits == \A r \in Row : publishing[r] # "no" => status[r] = "pending"

\* A row that is being rebuilt is skipped ...
RebuiltSkipped ==
    \A b \in Rebuilder : rebuild[b].at # "idle" =>
        rebuild[b].row \in Row /\ status[rebuild[b].row] = "skipped"

\* ... and its rebuilder is the only one.
OneRebuilder ==
    \A b, c \in Rebuilder : b # c /\ rebuild[b].at # "idle" => rebuild[b].row # rebuild[c].row

LockedRows == SentWaits /\ RebuiltSkipped /\ OneRebuilder

\* What a step does to the rows and their publishers, when no rebuilder moves.
RowsKept ==
    /\ rebuild' = rebuild
    /\ \A r \in Row : /\ status[r] = "skipped" => status'[r] = "skipped"
                      /\ publishing'[r] # "no" => status'[r] = "pending"

LEMMA RowsKeptLock == ASSUME LockedRows, RowsKept PROVE LockedRows'
<1>1. SentWaits'
  BY DEF RowsKept, SentWaits
<1>2. RebuiltSkipped'
  BY DEF RowsKept, LockedRows, RebuiltSkipped
<1>3. OneRebuilder'
  BY DEF RowsKept, LockedRows, OneRebuilder
<1> QED BY <1>1, <1>2, <1>3 DEF LockedRows

LEMMA PublishKeeps ==
  ASSUME Typed, LockedRows, Publishes
  PROVE  RowsKept
<1>1. /\ status \in [Row -> {"absent", "pending", "failed", "published", "skipped", "resolved"}]
      /\ publishing \in [Row -> {"no", "sending", "sent"}]
  BY DEF Typed, RowsTyped, DeliveryTyped
<1>2. SentWaits
  BY DEF LockedRows
<1> USE <1>1, <1>2 DEF SentWaits, RowsKept
<1>3. ASSUME NEW r \in Row, PublishBegin(r) PROVE RowsKept
  BY <1>3 DEF PublishBegin, rowVars
<1>4. ASSUME NEW r \in Row, PublishSend(r) PROVE RowsKept
  BY <1>4 DEF PublishSend, rowVars
<1>5. ASSUME NEW r \in Row, PublishLost(r) PROVE RowsKept
  BY <1>5 DEF PublishLost, rowVars
<1>6. ASSUME NEW r \in Row, PublishCommit(r) PROVE RowsKept
  BY <1>6 DEF PublishCommit
<1>7. ASSUME NEW r \in Row, PublishFail(r) PROVE RowsKept
  BY <1>7 DEF PublishFail
<1>8. ASSUME NEW r \in Row, RequeueFailed(r) PROVE RowsKept
  BY <1>8 DEF RequeueFailed
<1> QED BY <1>3, <1>4, <1>5, <1>6, <1>7, <1>8 DEF Publishes

LEMMA OthersKeep ==
  ASSUME Typed, LockedRows, Reservations \/ Enqueues \/ Withdrawals \/ Reports
  PROVE  RowsKept
<1>1. /\ status \in [Row -> {"absent", "pending", "failed", "published", "skipped", "resolved"}]
      /\ publishing \in [Row -> {"no", "sending", "sent"}]
  BY DEF Typed, RowsTyped, DeliveryTyped
<1>2. SentWaits
  BY DEF LockedRows
<1>3. UNCHANGED <<publishing, rebuild>>
  <2>1. CASE Reservations \/ Enqueues
    BY <2>1 DEF Reservations, Reserve, ConfirmByStaff, ReleaseReservations, ReturnToConfirmationQueue,
       Enqueues, EnqueueConfirmed, EnqueueUnbuildable, LoseReservedEvent, Reconcile
  <2>2. CASE Withdrawals
    BY <2>2 DEF Withdrawals, Cancel, SkipAndCancel, EditLines, SkipAndEdit
  <2>3. CASE Reports
    BY <2>3 DEF Reports, RegistrationResult, CancelResult, UpdateStatus, OrderChanged, Pay, HoldChanges
  <2> QED BY <2>1, <2>2, <2>3
<1>4. \/ status' = status \/ Withdrawn
      \/ \E r \in Row, k \in Kind, s \in {"pending", "skipped"} : Adds(r, k, s)
  <2>1. CASE Reservations \/ Enqueues
    BY <2>1 DEF Reservations, Reserve, ConfirmByStaff, ReleaseReservations, ReturnToConfirmationQueue,
       Enqueues, EnqueueConfirmed, EnqueueUnbuildable, LoseReservedEvent, Reconcile, Write, Adds, Kind, rowVars
  <2>2. CASE Withdrawals
    BY <2>2 DEF Withdrawals, Cancel, SkipAndCancel, EditLines, SkipAndEdit, Perform, RequestCancel,
       Withdrawn, Write, Adds, Kind, rowVars
  <2>3. CASE Reports
    BY <2>3 DEF Reports, RegistrationResult, CancelResult, UpdateStatus, OrderChanged, Pay, HoldChanges, rowVars
  <2> QED BY <2>1, <2>2, <2>3
<1>5. \A q \in Row : \/ status'[q] = status[q]
                     \/ status[q] = "absent"
                     \/ status'[q] = "skipped" /\ publishing[q] = "no"
  <2>1. CASE Withdrawn
    BY <1>1, <2>1 DEF Withdrawn, Skip, Unlocked
  <2>2. ASSUME NEW r \in Row, NEW k, NEW s, Adds(r, k, s)
        PROVE  \A q \in Row : status'[q] = status[q] \/ status[q] = "absent"
    BY <1>1, <2>2 DEF Adds
  <2> QED BY <1>4, <2>1, <2>2
<1> QED BY <1>1, <1>2, <1>3, <1>5 DEF RowsKept, SentWaits

LEMMA RebuildKeeps ==
  ASSUME Typed, LockedRows, Rebuilds
  PROVE  LockedRows'
<1>1. /\ status \in [Row -> {"absent", "pending", "failed", "published", "skipped", "resolved"}]
      /\ publishing \in [Row -> {"no", "sending", "sent"}]
  BY DEF Typed, RowsTyped, DeliveryTyped
<1>2. rebuild \in [Rebuilder -> [at : {"idle", "order", "reservation", "insert"},
                                 row : Row \cup {NoRow}, lines : 0..MaxEdits]]
  BY DEF Typed, RebuildTyped
<1>3. SentWaits /\ RebuiltSkipped /\ OneRebuilder
  BY DEF LockedRows
<1>4. NoRow \notin Row
  BY SubmissionAssumption DEF SubmissionAssumption
<1>5. ASSUME NEW r \in Row, RebuildAlreadySent(r) PROVE LockedRows'
  <2>1. /\ UNCHANGED <<rebuild, publishing>>
        /\ status[r] = "skipped"
        /\ \A b \in Rebuilder : rebuild[b].row # r
        /\ \A q \in Row \ {r} : status'[q] = status[q]
    BY <1>1, <1>5 DEF RebuildAlreadySent, Rebuildable, Rebuilding, Resolve
  <2>2. SentWaits' /\ RebuiltSkipped' /\ OneRebuilder'
    BY <1>3, <2>1 DEF SentWaits, RebuiltSkipped, OneRebuilder
  <2> QED BY <2>2 DEF LockedRows
<1>6. ASSUME NEW b \in Rebuilder, NEW r \in Row, RebuildBegin(b, r) PROVE LockedRows'
  <2>1. /\ UNCHANGED <<status, publishing>>
        /\ status[r] = "skipped"
        /\ \A c \in Rebuilder : rebuild[c].row # r
        /\ rebuild' = [rebuild EXCEPT ![b] = [at |-> "order", row |-> r, lines |-> 0]]
    BY <1>6 DEF RebuildBegin, Rebuildable, Rebuilding, rowVars
  <2>2. rebuild'[b].row = r /\ \A c \in Rebuilder \ {b} : rebuild'[c] = rebuild[c]
    BY <1>2, <2>1
  <2>3. SentWaits' /\ RebuiltSkipped' /\ OneRebuilder'
    BY <1>3, <2>1, <2>2 DEF SentWaits, RebuiltSkipped, OneRebuilder
  <2> QED BY <2>3 DEF LockedRows
\* The other rebuilders keep their rows, and this one its row or none.
<1>7. ASSUME NEW b \in Rebuilder, rebuild[b].at # "idle", publishing' = publishing,
             \A c \in Rebuilder \ {b} : rebuild'[c] = rebuild[c],
             \/ rebuild'[b] = Idle
             \/ rebuild'[b].row = rebuild[b].row /\ status'[rebuild[b].row] = "skipped",
             \A r \in Row \ {rebuild[b].row} : status'[r] = status[r] \/ status[r] = "absent"
      PROVE  LockedRows'
  <2>1. rebuild[b].row \in Row /\ status[rebuild[b].row] = "skipped"
    BY <1>3, <1>7 DEF RebuiltSkipped
  <2>2. SentWaits'
    BY <1>3, <1>7, <2>1 DEF SentWaits
  <2>3. \A c \in Rebuilder \ {b} : rebuild[c].at # "idle" => rebuild[c].row # rebuild[b].row
    BY <1>3 DEF OneRebuilder
  <2>4. RebuiltSkipped'
    BY <1>3, <1>7, <2>1, <2>3 DEF RebuiltSkipped, Idle
  <2>5. OneRebuilder'
    <3> SUFFICES ASSUME NEW c \in Rebuilder, NEW e \in Rebuilder, c # e, rebuild'[c].at # "idle"
                 PROVE  rebuild'[c].row # rebuild'[e].row
      BY DEF OneRebuilder
    <3>1. CASE c = b
      BY <1>3, <1>7, <3>1 DEF OneRebuilder, Idle
    <3>2. CASE e = b
      <4>1. rebuild'[c] = rebuild[c] /\ rebuild[c].row \in Row /\ rebuild[c].row # rebuild[b].row
        BY <1>3, <1>7, <2>3, <3>2 DEF RebuiltSkipped
      <4>2. rebuild'[b].row \in {NoRow, rebuild[b].row}
        BY <1>7 DEF Idle
      <4> QED BY <1>4, <3>2, <4>1, <4>2
    <3>3. CASE c # b /\ e # b
      BY <1>3, <1>7, <3>3 DEF OneRebuilder
    <3> QED BY <3>1, <3>2, <3>3
  <2> QED BY <2>2, <2>4, <2>5 DEF LockedRows
<1>8. ASSUME NEW b \in Rebuilder, RebuildReadOrder(b) \/ RebuildReadReservation(b) \/ RebuildFail(b)
      PROVE  LockedRows'
  <2>1. rebuild[b].at # "idle" /\ UNCHANGED <<publishing, status>>
    BY <1>8 DEF RebuildReadOrder, RebuildReadReservation, RebuildFail
  <2>2. \/ rebuild' = [rebuild EXCEPT ![b] = Idle]
        \/ rebuild' = [rebuild EXCEPT ![b].at = "reservation", ![b].lines = lines]
        \/ rebuild' = [rebuild EXCEPT ![b].at = "insert"]
    BY <1>8 DEF RebuildReadOrder, RebuildReadReservation, RebuildFail, StillSkipped
  <2>3. rebuild'[b] = Idle \/ rebuild'[b].row = rebuild[b].row
    BY <1>2, <2>2
  <2>4. \A c \in Rebuilder \ {b} : rebuild'[c] = rebuild[c]
    BY <1>2, <2>2
  <2>5. status'[rebuild[b].row] = "skipped"
    BY <1>3, <2>1 DEF RebuiltSkipped
  <2> QED BY <1>7, <2>1, <2>3, <2>4, <2>5
<1>9. ASSUME NEW b \in Rebuilder, NEW r \in Row, RebuildInsert(b, r) PROVE LockedRows'
  <2>1. /\ rebuild[b].at # "idle" /\ publishing' = publishing
        /\ rebuild' = [rebuild EXCEPT ![b] = Idle]
    BY <1>9 DEF RebuildInsert, StillSkipped
  <2>2. rebuild'[b] = Idle /\ \A c \in Rebuilder \ {b} : rebuild'[c] = rebuild[c]
    BY <1>2, <2>1
  <2>3. \/ status' = status
        \/ status' = [status EXCEPT ![rebuild[b].row] = "resolved"]
        \/ /\ status[r] = "absent"
           /\ status' = [status EXCEPT ![r] = "pending", ![rebuild[b].row] = "resolved"]
    BY <1>9 DEF RebuildInsert, Resolve
  <2>4. \A q \in Row \ {rebuild[b].row} : status'[q] = status[q] \/ status[q] = "absent"
    BY <1>1, <2>3
  <2> QED BY <1>7, <2>1, <2>2, <2>4
<1> QED BY <1>5, <1>6, <1>8, <1>9 DEF Rebuilds

LEMMA LockedStep ==
  ASSUME Typed, LockedRows, Next
  PROVE  LockedRows'
BY PublishKeeps, OthersKeep, RebuildKeeps, RowsKeptLock DEF Next

LEMMA LockedAlways == Spec => [](Typed /\ LockedRows)
<1>1. Init => LockedRows
  BY DEF Init, LockedRows, SentWaits, RebuiltSkipped, OneRebuilder, Idle
<1>2. Typed /\ LockedRows /\ UNCHANGED vars => LockedRows'
  BY DEF vars, rowVars, LockedRows, SentWaits, RebuiltSkipped, OneRebuilder
<1> QED BY <1>1, <1>2, TypedInit, TypedStep, LockedStep, PTL DEF Spec

-----------------------------------------------------------------------------
(* One submission *)

\* What the theorems about a single submission assume: no submission is rejected, and no
\* row whose retries were given up is put back.
NoSecondChance == MaxRejections = 0 /\ (MaxGiveUps = 0 \/ MaxRequeues = 0)

NoRejection ==
    /\ erpStatus # "rejected" /\ "rejected" \notin statusEvents
    /\ \A r \in Row : answer[r] # "rejected"

NoFailure == MaxGiveUps = 0 => \A r \in Row : status[r] # "failed"

OneActive == \A r, s \in Active : r = s

SingleInv == Typed /\ LockedRows /\ NoRejection /\ NoFailure /\ OneActive

LEMMA RejectionStep ==
  ASSUME SingleInv, MaxRejections = 0, Next
  PROVE  NoRejection'
<1> USE DEF SingleInv, NoRejection, erpVars, orderVars
<1>1. CASE Reservations \/ Rebuilds
  <2>1. UNCHANGED <<erpStatus, statusEvents, answer>>
    BY <1>1 DEF Reservations, Reserve, ConfirmByStaff, ReleaseReservations, ReturnToConfirmationQueue,
       Rebuilds, RebuildBegin, RebuildInsert, RebuildAlreadySent, RebuildReadOrder,
       RebuildReadReservation, RebuildFail
  <2> QED BY <2>1
<1>2. CASE Enqueues \/ Withdrawals
  <2>1. UNCHANGED <<erpStatus, statusEvents, answer>>
    BY <1>2 DEF Enqueues, EnqueueConfirmed, EnqueueUnbuildable, LoseReservedEvent, Reconcile,
       Withdrawals, Cancel, SkipAndCancel, EditLines, SkipAndEdit
  <2> QED BY <2>1
<1>3. CASE Publishes
  <2>1. UNCHANGED <<erpStatus, statusEvents, answer>>
    BY <1>3 DEF Publishes, PublishBegin, PublishSend, PublishCommit, PublishFail, PublishLost, RequeueFailed
  <2> QED BY <2>1
<1>4. ASSUME NEW r \in Row, RegistrationResult(r) PROVE NoRejection'
  <2>1. ~Count("rejections", MaxRejections)
    BY NoneCounted
  <2> QED BY <1>4, <2>1 DEF RegistrationResult, Typed, DeliveryTyped
<1>5. ASSUME NEW r \in Row, CancelResult(r) PROVE NoRejection'
  BY <1>5 DEF CancelResult, Typed, DeliveryTyped
<1>6. CASE (\E s \in {"submitted", "rejected"} : UpdateStatus(s)) \/ OrderChanged \/ Pay \/ HoldChanges
  BY <1>6 DEF UpdateStatus, OrderChanged, Pay, HoldChanges
<1> QED BY <1>1, <1>2, <1>3, <1>4, <1>5, <1>6 DEF Next, Reports

\* A row becomes active when none is.
LEMMA ActiveStep ==
  ASSUME SingleInv, NoSecondChance, Next
  PROVE  Active' \subseteq Active \/ (Active = {} /\ \E r \in Row : Active' \subseteq {r})
<1> USE DEF SingleInv, Typed, RowsTyped, Active, RowsOf
<1>1. HasActiveEntry("confirmed") <=> Active # {}
  BY DEF HasActiveEntry
<1>2. ASSUME NEW r \in Row, Adds(r, "confirmed", "pending"), ~AlreadySubmitted
      PROVE  Active = {} /\ Active' \subseteq {r}
  <2>1. Active = {}
    BY <1>1, <1>2 DEF AlreadySubmitted, NoRejection
  <2> QED BY <1>2, <2>1 DEF Adds
<1>3. ASSUME NEW r \in Row, NEW k \in Kind, NEW s \in {"pending", "skipped"}, Adds(r, k, s),
             k = "cancel-requested" \/ s = "skipped"
      PROVE  Active' \subseteq Active
  BY <1>3 DEF Adds
<1>4. ASSUME NEW r \in Row, NEW s \in {"published", "failed", "resolved"}, Moves(r, s),
             s = "published" => r \in Active \/ kind[r] # "confirmed"
      PROVE  Active' \subseteq Active
  BY <1>4 DEF Moves
<1>5. ASSUME NEW r \in Row, NEW b \in Rebuilder, RebuildInsert(b, r)
      PROVE  Active' \subseteq Active \/ (Active = {} /\ Active' \subseteq {r})
  <2>1. CASE UNCHANGED <<status, kind>>
    BY <2>1
  <2>2. CASE status' = [status EXCEPT ![rebuild[b].row] = "resolved"] /\ kind' = kind
    BY <2>2
  <2>3. CASE /\ ~HasActiveEntry("confirmed")
             /\ status' = [status EXCEPT ![r] = "pending", ![rebuild[b].row] = "resolved"]
             /\ kind' = [kind EXCEPT ![r] = "confirmed"]
    BY <1>1, <2>3
  <2> QED BY <1>5, <2>1, <2>2, <2>3, Zenon DEF RebuildInsert, Resolve
<1>6. ASSUME Withdrawn PROVE Active' \subseteq Active
  BY <1>6 DEF Withdrawn, Skip
<1>7. ASSUME NEW r \in Row, RequeueFailed(r) PROVE FALSE
  BY <1>7, NoneCounted DEF RequeueFailed, NoFailure, NoSecondChance
<1>8. ASSUME NEW r \in Row, PublishCommit(r) PROVE r \in Active \/ kind[r] # "confirmed"
  BY <1>8 DEF PublishCommit, LockedRows, SentWaits
<1>9. CASE UNCHANGED <<status, kind>>
  BY <1>9
<1> QED BY <1>2, <1>3, <1>4, <1>5, <1>6, <1>7, <1>8, <1>9, RowsMove DEF Kind

LEMMA SingleAlways == ASSUME NoSecondChance PROVE Spec => []SingleInv
<1>1. Init => SingleInv
  <2> SUFFICES ASSUME Init PROVE SingleInv
    OBVIOUS
  <2>1. NoRejection
    BY DEF Init, NoRejection
  <2>2. NoFailure /\ OneActive
    BY DEF Init, NoFailure, OneActive, Active, RowsOf
  <2>3. LockedRows
    BY DEF Init, LockedRows, SentWaits, RebuiltSkipped, OneRebuilder, Idle
  <2> QED BY <2>1, <2>2, <2>3, TypedInit DEF SingleInv
<1>2. SingleInv /\ Next => SingleInv'
  <2> SUFFICES ASSUME SingleInv, Next PROVE SingleInv'
    OBVIOUS
  <2>1. Typed' /\ LockedRows' /\ NoRejection'
    BY TypedStep, LockedStep, RejectionStep DEF SingleInv, NoSecondChance
  <2>2. OneActive'
    BY ActiveStep DEF SingleInv, OneActive
  <2>3. NoFailure'
    <3> SUFFICES ASSUME MaxGiveUps = 0, NEW q \in Row PROVE status'[q] # "failed"
      BY DEF NoFailure
    <3> USE DEF SingleInv, Typed, RowsTyped, NoFailure
    <3>1. ~Count("giveUps", MaxGiveUps)
      BY NoneCounted
    <3>2. ASSUME NEW r \in Row, NEW k, NEW s \in {"pending", "skipped"}, Adds(r, k, s) PROVE status'[q] # "failed"
      BY <3>2 DEF Adds
    <3>3. ASSUME NEW r \in Row, NEW s \in {"pending", "published", "resolved"}, Moves(r, s) PROVE status'[q] # "failed"
      BY <3>3 DEF Moves
    <3>4. ASSUME NEW r \in Row, NEW b \in Rebuilder, RebuildInsert(b, r) PROVE status'[q] # "failed"
      BY <3>4 DEF RebuildInsert, Resolve
    <3>5. Withdrawn => status'[q] # "failed"
      BY DEF Withdrawn, Skip
    <3> QED BY <3>1, <3>2, <3>3, <3>4, <3>5, RowsMove
  <2> QED BY <2>1, <2>2, <2>3 DEF SingleInv
<1>3. SingleInv /\ UNCHANGED vars => SingleInv'
  <2> SUFFICES ASSUME SingleInv, UNCHANGED vars PROVE SingleInv'
    OBVIOUS
  <2>1. Typed'
    BY TypedStep DEF SingleInv
  <2> QED BY <2>1 DEF SingleInv, vars, orderVars, rowVars, erpVars, LockedRows, SentWaits, RebuiltSkipped,
         OneRebuilder, NoRejection, NoFailure,
         OneActive, Active, RowsOf
<1> QED BY <1>1, <1>2, <1>3, PTL DEF Spec

\* An order is on its way to the ERP, or there, once, for any number of reservations, holds,
\* edits, lost commits, lost events and concurrent rebuilds.
THEOREM SubmittedOnce == ASSUME NoSecondChance PROVE Spec => []OneSubmission
<1>1. SingleInv => OneSubmission
  BY DEF SingleInv, OneActive, Active, OneSubmission
<1> QED BY <1>1, SingleAlways, PTL
-----------------------------------------------------------------------------
(* One row to withdraw *)

\* No rebuild, no lost commit, and one order.confirmed at a time: either the order is
\* reserved once, or no row is given up and none rejected.
Quiet ==
    /\ Rebuilder = {} /\ MaxLost = 0
    /\ MaxReserves <= 1 \/ (MaxGiveUps = 0 /\ MaxRejections = 0)

OneLive == \A r, s \in Live : r = s

\* One reservation is asked to be sent once.
OnlyRow ==
    /\ \A r, s \in Asked : r = s
    /\ reserved <= 1 /\ (reserved > 0 => Asked = {})
    /\ reserves = 0 => reserve = "none" /\ reserved = 0 /\ Asked = {}

\* What a step does to one row.
RowCycle(q) ==
    LET Kept == status'[q] = status[q] /\ kind'[q] = kind[q]
        Still == publishing'[q] = publishing[q] /\ (q \in delivered' <=> q \in delivered)
        Unsent == publishing'[q] = "no" /\ (q \in delivered' <=> q \in delivered)
    IN
    \/ Kept /\ Still
    \/ /\ status[q] = "absent" /\ Still
       /\ \/ status'[q] = "skipped" /\ kind'[q] = "confirmed" /\ reserved > 0 /\ reserved' = reserved - 1
          \/ /\ status'[q] = "pending" /\ kind'[q] = "confirmed" /\ state = "open"
             /\ reserved > 0 /\ reserved' = reserved - 1
          \/ /\ status'[q] = "pending" /\ kind'[q] = "cancel-requested"
             /\ SkipAndCancel(q) \/ \E how \in CancelCause : Cancel(how, q)
    \/ /\ Kept /\ status[q] = "pending" /\ publishing[q] = "no" /\ publishing'[q] = "sending"
       /\ q \in delivered' <=> q \in delivered
    \/ Kept /\ status[q] = "pending" /\ publishing'[q] = "sent" /\ q \in delivered'
    \/ kind'[q] = kind[q] /\ publishing[q] = "sent" /\ status'[q] = "published" /\ Unsent
    \/ Kept /\ publishing[q] = "sending" /\ Unsent
    \/ kind'[q] = kind[q] /\ publishing[q] = "sending" /\ status'[q] = "failed" /\ Unsent
    \/ kind'[q] = kind[q] /\ status[q] = "failed" /\ status'[q] = "pending" /\ Still
    \/ /\ kind[q] = "confirmed" /\ kind'[q] = kind[q]
       /\ status[q] \in {"pending", "failed"} /\ status'[q] = "skipped"
       /\ publishing[q] = "no" /\ Still /\ job # "none" /\ job' = "none"

LEMMA RowCycles ==
  ASSUME Typed, SentWaits, Rebuilder = {}, MaxLost = 0, Next, NEW q \in Row
  PROVE  RowCycle(q)
<1>1. /\ status \in [Row -> {"absent", "pending", "failed", "published", "skipped", "resolved"}]
      /\ kind \in [Row -> Kind]
      /\ publishing \in [Row -> {"no", "sending", "sent"}]
  BY DEF Typed, RowsTyped, DeliveryTyped
<1>2. ~Count("lost", MaxLost)
  BY NoneCounted
<1> USE <1>1
<1>3. ASSUME UNCHANGED <<status, kind, publishing, delivered>> PROVE RowCycle(q)
  BY <1>3 DEF RowCycle
<1>4. ASSUME NEW r \in Row, NEW s, Adds(r, "confirmed", s), UNCHANGED <<publishing, delivered>>,
             reserved > 0, reserved' = reserved - 1, s = "skipped" \/ (s = "pending" /\ state = "open")
      PROVE  RowCycle(q)
  BY <1>4 DEF RowCycle, Adds
<1>5. ASSUME NEW r \in Row, Adds(r, "cancel-requested", "pending"), UNCHANGED <<publishing, delivered>>,
             SkipAndCancel(r) \/ \E how \in CancelCause : Cancel(how, r)
      PROVE  RowCycle(q)
  BY <1>5 DEF RowCycle, Adds
<1>6. ASSUME Withdrawn, UNCHANGED <<publishing, delivered>>, job # "none", job' = "none" PROVE RowCycle(q)
  BY <1>6 DEF RowCycle, Withdrawn, Waiting, RowsOf, Skip, Unlocked
<1>7. CASE Publishes
  <2> USE DEF RowCycle, SentWaits
  <2>1. ASSUME NEW r \in Row, PublishBegin(r) PROVE RowCycle(q)
    BY <2>1 DEF PublishBegin, rowVars, erpVars
  <2>2. ASSUME NEW r \in Row, PublishSend(r) PROVE RowCycle(q)
    BY <2>2 DEF PublishSend, rowVars
  <2>3. ASSUME NEW r \in Row, PublishCommit(r) PROVE RowCycle(q)
    BY <2>3 DEF PublishCommit, erpVars
  <2>4. ASSUME NEW r \in Row, PublishFail(r) PROVE RowCycle(q)
    BY <2>4 DEF PublishFail, erpVars
  <2>5. ASSUME NEW r \in Row, RequeueFailed(r) PROVE RowCycle(q)
    BY <2>5 DEF RequeueFailed, erpVars
  <2>6. ASSUME NEW r \in Row, PublishLost(r) PROVE FALSE
    BY <1>2, <2>6 DEF PublishLost
  <2> QED BY <1>7, <2>1, <2>2, <2>3, <2>4, <2>5, <2>6 DEF Publishes
<1>8. CASE Enqueues
  <2>1. UNCHANGED <<publishing, delivered>>
    BY <1>8 DEF Enqueues, EnqueueConfirmed, EnqueueUnbuildable, LoseReservedEvent, Reconcile, erpVars
  <2>2. \/ UNCHANGED <<status, kind>>
        \/ \E r \in Row : /\ reserved > 0 /\ reserved' = reserved - 1
                          /\ \/ Adds(r, "confirmed", "skipped")
                             \/ Adds(r, "confirmed", "pending") /\ state = "open"
    BY <1>8 DEF Enqueues, EnqueueConfirmed, EnqueueUnbuildable, LoseReservedEvent, Reconcile, rowVars, Write, Adds
  <2> QED BY <1>3, <1>4, <2>1, <2>2
<1>9. CASE Withdrawals
  <2>1. UNCHANGED <<publishing, delivered>>
    BY <1>9 DEF Withdrawals, Cancel, SkipAndCancel, EditLines, SkipAndEdit, erpVars
  <2>2. ASSUME NEW r \in Row, NEW how \in CancelCause, Cancel(how, r)
        PROVE  UNCHANGED <<status, kind>> \/ Adds(r, "cancel-requested", "pending")
    BY <2>2 DEF Cancel, Perform, RequestCancel, Write, Adds, rowVars
  <2>3. ASSUME NEW r \in Row, SkipAndCancel(r)
        PROVE  \/ UNCHANGED <<status, kind>> \/ Adds(r, "cancel-requested", "pending")
               \/ Withdrawn /\ job # "none" /\ job' = "none"
    BY <2>3 DEF SkipAndCancel, Perform, RequestCancel, Write, Adds, Withdrawn, rowVars
  <2>4. CASE EditLines \/ SkipAndEdit
    <3>1. UNCHANGED <<status, kind>> \/ (Withdrawn /\ job # "none" /\ job' = "none")
      BY <2>4 DEF EditLines, SkipAndEdit, Withdrawn, rowVars
    <3> QED BY <1>3, <1>6, <2>1, <3>1
  <2> QED BY <1>3, <1>5, <1>6, <1>9, <2>1, <2>2, <2>3, <2>4 DEF Withdrawals
<1>10. CASE Reservations \/ Reports
  BY <1>3, <1>10 DEF Reservations, Reserve, ConfirmByStaff, ReleaseReservations, ReturnToConfirmationQueue,
     Reports, RegistrationResult, CancelResult, UpdateStatus, OrderChanged, Pay, HoldChanges, rowVars, erpVars
<1>11. CASE Rebuilds
  BY <1>11 DEF Rebuilds
<1> QED BY <1>7, <1>8, <1>9, <1>10, <1>11 DEF Next

\* A step asks for one row more at most, for an event.
LEMMA AskedStep ==
  ASSUME Typed, SentWaits, Rebuilder = {}, MaxLost = 0, Next
  PROVE  \/ Asked' \subseteq Asked
         \/ \E r \in Row : Asked' \subseteq Asked \cup {r} /\ reserved > 0 /\ reserved' = reserved - 1
<1>1. /\ status \in [Row -> {"absent", "pending", "failed", "published", "skipped", "resolved"}]
      /\ kind \in [Row -> Kind]
  BY DEF Typed, RowsTyped
<1>2. \A q \in Row : q \in Asked' =>
         q \in Asked \/ (status[q] = "absent" /\ reserved > 0 /\ reserved' = reserved - 1)
  <2> SUFFICES ASSUME NEW q \in Row, q \in Asked'
               PROVE  q \in Asked \/ (status[q] = "absent" /\ reserved > 0 /\ reserved' = reserved - 1)
    OBVIOUS
  <2> QED BY <1>1, RowCycles DEF RowCycle, Asked, SentWaits
<1>3. ASSUME NEW r \in Row, \A q \in Row \ {r} : q \in Asked' => q \in Asked
      PROVE  \/ Asked' \subseteq Asked
             \/ Asked' \subseteq Asked \cup {r} /\ reserved > 0 /\ reserved' = reserved - 1
  BY <1>2, <1>3 DEF Asked
<1>4. ASSUME NEW r \in Row, NEW k, NEW s, Adds(r, k, s) PROVE \A q \in Row \ {r} : q \in Asked' => q \in Asked
  BY <1>1, <1>4 DEF Adds, Asked
<1>5. ASSUME NEW r \in Row, NEW s, Moves(r, s) PROVE \A q \in Row \ {r} : q \in Asked' => q \in Asked
  BY <1>1, <1>5 DEF Moves, Asked
<1>6. CASE Withdrawn
  BY <1>1, <1>6 DEF Withdrawn, Skip, Waiting, RowsOf, Asked
<1>7. CASE UNCHANGED <<status, kind>>
  BY <1>7 DEF Asked
<1> QED BY <1>3, <1>4, <1>5, <1>6, <1>7, RowsMove

LEMMA ReservedStep ==
  ASSUME Next, Rebuilder = {}
  PROVE  \/ UNCHANGED <<reserves, reserved>> /\ (reserve = "none" => reserve' = "none")
         \/ /\ reserves < MaxReserves /\ UNCHANGED <<status, kind>>
            /\ reserves' = reserves + 1 /\ reserved' = reserved + 1
         \/ reserved > 0 /\ reserved' = reserved - 1 /\ UNCHANGED <<reserves, reserve>>
         \/ /\ Redrivable /\ reserved = 0 /\ reserved' = 1
            /\ UNCHANGED <<reserves, reserve, status, kind>>
<1>1. CASE Reservations
  BY <1>1 DEF Reservations, Reserve, ConfirmByStaff, ReleaseReservations, ReturnToConfirmationQueue, rowVars
<1>2. CASE Enqueues
  BY <1>2 DEF Enqueues, EnqueueConfirmed, EnqueueUnbuildable, LoseReservedEvent, Reconcile, orderVars, rowVars
<1>3. CASE Publishes
  BY <1>3 DEF Publishes, PublishBegin, PublishSend, PublishCommit, PublishFail, PublishLost, RequeueFailed, orderVars
<1>4. CASE Rebuilds
  BY <1>4 DEF Rebuilds
<1>5. CASE Withdrawals
  BY <1>5 DEF Withdrawals, Cancel, SkipAndCancel, EditLines, SkipAndEdit, Perform, CancelLocally
<1>6. CASE Reports
  BY <1>6 DEF Reports, RegistrationResult, CancelResult, UpdateStatus, OrderChanged, Pay, HoldChanges, CancelLocally
<1> QED BY <1>1, <1>2, <1>3, <1>4, <1>5, <1>6 DEF Next

LEMMA OnlyStep ==
  ASSUME Typed, SentWaits, OnlyRow, Rebuilder = {}, MaxLost = 0, MaxReserves <= 1, Next
  PROVE  OnlyRow'
<1>1. reserves \in Nat /\ reserved \in Nat /\ MaxReserves \in Nat
  BY SubmissionAssumption DEF SubmissionAssumption, Typed, OrderTyped
<1>2. \/ Asked' \subseteq Asked
      \/ Asked = {} /\ (\E r \in Row : Asked' \subseteq {r}) /\ reserved > 0 /\ reserved' = reserved - 1
  BY AskedStep DEF OnlyRow
<1>3. CASE UNCHANGED <<reserves, reserved>> /\ (reserve = "none" => reserve' = "none")
  BY <1>1, <1>2, <1>3 DEF OnlyRow
<1>4. CASE /\ reserves < MaxReserves /\ UNCHANGED <<status, kind>>
           /\ reserves' = reserves + 1 /\ reserved' = reserved + 1
  <2>1. Asked' = Asked
    BY <1>4 DEF Asked
  <2> QED BY <1>1, <1>4, <2>1 DEF OnlyRow
<1>5. CASE reserved > 0 /\ reserved' = reserved - 1 /\ UNCHANGED <<reserves, reserve>>
  BY <1>1, <1>2, <1>5 DEF OnlyRow
<1>6. CASE /\ Redrivable /\ reserved = 0 /\ reserved' = 1
           /\ UNCHANGED <<reserves, reserve, status, kind>>
  <2>1. status \in [Row -> {"absent", "pending", "failed", "published", "skipped", "resolved"}]
    BY DEF Typed, RowsTyped
  <2>2. Asked' = {} /\ reserve # "none"
    BY <1>6, <2>1 DEF Redrivable, RowsOf, Asked
  <2> QED BY <1>6, <2>2 DEF OnlyRow
<1> QED BY <1>3, <1>4, <1>5, <1>6, ReservedStep

LEMMA OneLiveAlways == ASSUME Quiet PROVE Spec => [](Typed /\ LockedRows /\ OneLive)
<1>1. ASSUME MaxReserves <= 1, Rebuilder = {}, MaxLost = 0
      PROVE  Spec => [](Typed /\ LockedRows /\ OneLive)
  <2>1. Init => OnlyRow
    BY DEF Init, OnlyRow, Asked
  <2>2. Typed /\ LockedRows /\ OnlyRow /\ Next => OnlyRow'
    BY <1>1, OnlyStep DEF LockedRows
  <2>3. Typed /\ LockedRows /\ OnlyRow /\ UNCHANGED vars => OnlyRow'
    BY DEF vars, orderVars, rowVars, OnlyRow, Asked
  <2>4. OnlyRow => OneLive
    BY DEF OnlyRow, OneLive, Live, RowsOf, Asked
  <2> QED BY <2>1, <2>2, <2>3, <2>4, LockedAlways, PTL DEF Spec
<1>2. ASSUME MaxGiveUps = 0, MaxRejections = 0
      PROVE  Spec => [](Typed /\ LockedRows /\ OneLive)
  <2>1. NoSecondChance
    BY <1>2 DEF NoSecondChance
  <2>2. SingleInv => Typed /\ LockedRows /\ OneLive
    BY <1>2 DEF SingleInv, NoFailure, OneActive, Active, OneLive, Live, RowsOf
  <2> QED BY <2>1, <2>2, SingleAlways, PTL
<1> QED BY <1>1, <1>2 DEF Quiet

-----------------------------------------------------------------------------
(* What the ERP knows of a cancelled order *)

\* Without a lost commit the ERP has what was published and what is being published.
Publication ==
    \A r \in Row :
        /\ publishing[r] = "sent" => r \in delivered
        /\ status[r] = "published" => r \in delivered
        /\ r \in delivered => publishing[r] = "sent" \/ status[r] = "published"

Known == \E r \in delivered : kind[r] = "confirmed"
Rejected == \E r \in delivered : kind[r] = "confirmed" /\ answer[r] = "rejected"

\* What the order says of the ERP, and every request, comes after a submission it has.
Reported ==
    /\ erpOrderId => Known
    /\ erpStatus = "rejected" \/ "rejected" \in statusEvents => Rejected
    /\ \A r \in Row : kind[r] = "cancel-requested" /\ status[r] # "absent" => Known

\* A cancel that is about to skip still has its row, sent meanwhile or not.
OpenJob ==
    /\ job \in {"cancel", "expire"} => Live # {}
    /\ job # "none" => state = "open"

ShutOrder == state = "cancelled" => Live \subseteq delivered

QuietInv ==
    /\ Typed /\ LockedRows /\ OneLive
    /\ Publication /\ Reported /\ OpenJob /\ ShutOrder /\ CancelIsTold

LEMMA PublicationStep ==
  ASSUME Typed, SentWaits, Publication, Rebuilder = {}, MaxLost = 0, Next
  PROVE  Publication'
<1> SUFFICES ASSUME NEW q \in Row
             PROVE  /\ publishing'[q] = "sent" => q \in delivered'
                    /\ status'[q] = "published" => q \in delivered'
                    /\ q \in delivered' => publishing'[q] = "sent" \/ status'[q] = "published"
  BY DEF Publication
<1>1. RowCycle(q)
  BY RowCycles
<1>2. /\ publishing[q] # "no" => status[q] = "pending"
      /\ publishing[q] = "sent" => q \in delivered
      /\ status[q] = "published" => q \in delivered
      /\ q \in delivered => publishing[q] = "sent" \/ status[q] = "published"
  BY DEF SentWaits, Publication
<1> QED BY <1>1, <1>2 DEF RowCycle

\* What was delivered waits for its commit or is published; its kind stays.
LEMMA DeliveredStays ==
  ASSUME QuietInv, Quiet, Next, NEW q \in delivered
  PROVE  /\ q \in Row /\ status[q] \in {"pending", "published"}
         /\ kind[q] = "confirmed" => q \in Live
         /\ q \in delivered' /\ kind'[q] = kind[q]
<1>1. q \in Row
  BY DEF QuietInv, Typed, DeliveryTyped
<1>2. status[q] \in {"pending", "published"}
  BY <1>1 DEF QuietInv, LockedRows, SentWaits, Publication
<1>3. RowCycle(q)
  BY <1>1, RowCycles DEF QuietInv, LockedRows, Quiet
<1>4. publishing[q] = "sent" \/ status[q] = "published"
  BY <1>1 DEF QuietInv, Publication
<1>5. q \in delivered' /\ kind'[q] = kind[q]
  BY <1>2, <1>3, <1>4 DEF RowCycle
<1> QED BY <1>1, <1>2, <1>5 DEF Live, RowsOf

\* An answer is given once, and a rejection is announced.
LEMMA AnswerStep ==
  ASSUME Typed, Next
  PROVE  /\ \A r \in Row : answer[r] # "none" => answer'[r] = answer[r]
         /\ "rejected" \in statusEvents' =>
               \/ "rejected" \in statusEvents
               \/ \E r \in delivered : kind[r] = "confirmed" /\ answer'[r] = "rejected"
         /\ erpStatus' = "rejected" => erpStatus = "rejected" \/ "rejected" \in statusEvents
         /\ erpOrderId' => erpOrderId \/ Known
<1>1. answer \in [Row -> {"none", "registered", "rejected", "cancelled", "refused"}]
  BY DEF Typed, DeliveryTyped
<1>2. ASSUME UNCHANGED <<erpStatus, statusEvents, erpOrderId>>
      PROVE  /\ "rejected" \in statusEvents' => "rejected" \in statusEvents
             /\ erpStatus' = "rejected" => erpStatus = "rejected"
             /\ erpOrderId' => erpOrderId
  BY <1>2
<1>3. CASE Reservations \/ Enqueues
  <2>1. UNCHANGED <<erpStatus, statusEvents, erpOrderId, answer>>
    BY <1>3 DEF Reservations, Reserve, ConfirmByStaff, ReleaseReservations, ReturnToConfirmationQueue,
       Enqueues, EnqueueConfirmed, EnqueueUnbuildable, LoseReservedEvent, Reconcile, orderVars, erpVars
  <2> QED BY <1>2, <2>1
<1>4. CASE Publishes \/ Rebuilds \/ Withdrawals
  <2>1. UNCHANGED <<erpStatus, statusEvents, erpOrderId, answer>>
    BY <1>4 DEF Publishes, PublishBegin, PublishSend, PublishCommit, PublishFail, PublishLost, RequeueFailed,
       Rebuilds, RebuildBegin, RebuildAlreadySent, RebuildReadOrder, RebuildReadReservation, RebuildInsert,
       RebuildFail, Withdrawals, Cancel, SkipAndCancel, EditLines, SkipAndEdit, orderVars, erpVars
  <2> QED BY <1>2, <2>1
<1>5. ASSUME NEW r \in Row, RegistrationResult(r)
      PROVE  /\ r \in delivered /\ kind[r] = "confirmed" /\ answer[r] = "none"
             /\ answer' = [answer EXCEPT ![r] = "rejected"] \/ answer' = [answer EXCEPT ![r] = "registered"]
             /\ answer' = [answer EXCEPT ![r] = "registered"] => statusEvents' \subseteq statusEvents \cup {"submitted"}
             /\ erpStatus' = erpStatus
  BY <1>1, <1>5 DEF RegistrationResult, Answers
<1>6. ASSUME NEW r \in Row, RegistrationResult(r)
      PROVE  /\ \A q \in Row : answer[q] # "none" => answer'[q] = answer[q]
             /\ "rejected" \in statusEvents' =>
                   "rejected" \in statusEvents \/ (kind[r] = "confirmed" /\ answer'[r] = "rejected")
  BY <1>1, <1>5, <1>6
<1>7. ASSUME NEW r \in Row, CancelResult(r)
      PROVE  /\ \A q \in Row : answer[q] # "none" => answer'[q] = answer[q]
             /\ UNCHANGED <<erpStatus, statusEvents, erpOrderId>>
  BY <1>1, <1>7 DEF CancelResult, Answers
<1>8. ASSUME NEW s, UpdateStatus(s)
      PROVE  /\ UNCHANGED <<answer, erpOrderId>> /\ erpStatus' \in statusEvents
             /\ statusEvents' \subseteq statusEvents
  BY <1>8 DEF UpdateStatus
<1>9. CASE OrderChanged \/ Pay \/ HoldChanges
  BY <1>9 DEF OrderChanged, Pay, HoldChanges, erpVars
<1>10. CASE Reports
  <2>1. CASE \E r \in Row : RegistrationResult(r)
    BY <1>5, <1>6, <2>1 DEF Known
  <2>2. CASE \E r \in Row : CancelResult(r)
    BY <1>2, <1>7, <2>2
  <2>3. CASE \E s \in {"submitted", "rejected"} : UpdateStatus(s)
    BY <1>8, <2>3
  <2> QED BY <1>9, <1>10, <2>1, <2>2, <2>3 DEF Reports
<1> QED BY <1>3, <1>4, <1>10 DEF Next

\* decideCancellation, by what it decides.
LEMMA Decisions ==
  ASSUME Typed, NEW how \in {"cancel", "expire"}
  PROVE  LET decision == Decide(Submission, how) IN
         /\ decision = "cancel-locally" =>
               state = "open" /\ (erpStatus = "rejected" \/ (~erpOrderId /\ Submission = "none"))
         /\ decision = "request-only" => erpOrderId
         /\ decision = "request-and-cancel" => state = "open" /\ Submission = "sent"
         /\ decision = "skip" => state = "open" /\ Submission = "pending"
<1>1. state \in {"open", "cancelled"} /\ Submission \in {"none", "pending", "sent"}
  BY DEF Typed, OrderTyped, Submission
<1> HIDE DEF Submission
<1> QED BY <1>1 DEF Decide

LEMMA ReportedStep ==
  ASSUME QuietInv, Quiet, Next
  PROVE  Reported'
<1>1. Known => Known'
  BY DeliveredStays DEF Known
<1>2. Rejected => Rejected'
  <2> SUFFICES ASSUME NEW q \in delivered, kind[q] = "confirmed", answer[q] = "rejected" PROVE Rejected'
    BY DEF Rejected
  <2> QED BY DeliveredStays, AnswerStep DEF Rejected, QuietInv
<1>3. (\E r \in delivered : kind[r] = "confirmed" /\ answer'[r] = "rejected") => Rejected'
  BY DeliveredStays DEF Rejected
<1>4. Typed /\ Reported
  BY DEF QuietInv
<1>5. erpOrderId' => Known'
  BY <1>1, <1>4, AnswerStep DEF Reported
<1>6. erpStatus' = "rejected" \/ "rejected" \in statusEvents' => Rejected'
  BY <1>2, <1>3, <1>4, AnswerStep DEF Reported
<1>7. ASSUME NEW r \in Row, SkipAndCancel(r) \/ (\E how \in CancelCause : Cancel(how, r)),
             ~(UNCHANGED <<status, kind>>), ~Withdrawn
      PROVE  Known
  <2>1. ASSUME NEW q \in Row, kind[q] = "confirmed", status[q] = "published" PROVE Known
    BY <2>1 DEF QuietInv, Publication, Known
  <2>2. ASSUME NEW how \in CancelCause, Cancel(how, r) PROVE Known
    <3>1. how \in {"cancel", "expire"}
      BY SubmissionAssumption DEF SubmissionAssumption
    <3>2. Decide(Submission, how) \in {"request-only", "request-and-cancel"}
      BY <1>7, <2>2 DEF Cancel, Perform, rowVars
    <3>3. erpOrderId \/ Submission = "sent"
      BY <1>4, <3>1, <3>2, Decisions
    <3> QED BY <1>4, <2>1, <3>3 DEF Reported, Submission, RowsOf
  <2>3. CASE SkipAndCancel(r)
    <3>1. job \in {"cancel", "expire"} /\ Waiting = {}
      BY <1>7, <2>3 DEF SkipAndCancel, Withdrawn
    <3>2. Live # {}
      BY <3>1 DEF QuietInv, OpenJob
    <3> QED BY <2>1, <3>1, <3>2 DEF Live, Waiting, RowsOf
  <2> QED BY <1>7, <2>2, <2>3
<1>8. ASSUME NEW q \in Row, kind'[q] = "cancel-requested", status'[q] # "absent" PROVE Known'
  <2>1. CASE kind[q] = "cancel-requested" /\ status[q] # "absent"
    BY <1>1, <1>4, <2>1 DEF Reported
  <2>2. CASE kind[q] # "cancel-requested" \/ status[q] = "absent"
    <3>1. RowCycle(q)
      BY RowCycles DEF QuietInv, LockedRows, Quiet
    <3>2. SentWaits
      BY DEF QuietInv, LockedRows
    <3>3. /\ status[q] = "absent" /\ status'[q] = "pending"
          /\ SkipAndCancel(q) \/ \E how \in CancelCause : Cancel(how, q)
      BY <1>8, <2>2, <3>1, <3>2 DEF RowCycle, SentWaits
    <3>4. ~(UNCHANGED <<status, kind>>) /\ ~Withdrawn
      BY <3>3 DEF Withdrawn, Skip, Waiting, RowsOf
    <3> QED BY <1>1, <1>7, <3>3, <3>4
  <2> QED BY <2>1, <2>2
<1> QED BY <1>5, <1>6, <1>8 DEF Reported

LEMMA JobStep ==
  ASSUME Typed, Next
  PROVE  \/ job' = "none"
         \/ job # "none" /\ job' = job /\ state' = state
         \/ /\ job = "none" /\ state = "open" /\ UNCHANGED <<state, status, kind>>
            /\ job' = "edit" \/ Waiting # {}
<1>1. ASSUME NEW how \in CancelCause, NEW r \in Row, Cancel(how, r)
      PROVE  \/ job = "none" /\ job' = job
             \/ job = "none" /\ state = "open" /\ Submission = "pending" /\ UNCHANGED <<state, status, kind>>
  <2>1. how \in {"cancel", "expire"}
    BY SubmissionAssumption DEF SubmissionAssumption
  <2> QED BY <1>1, <2>1, Decisions DEF Cancel, OrderLockFree, rowVars
<1>2. Submission = "pending" => Waiting # {}
  BY DEF Submission
<1>3. ASSUME NEW r \in Row, SkipAndCancel(r) PROVE job' = "none"
  BY <1>3 DEF SkipAndCancel
<1>4. CASE EditLines \/ SkipAndEdit
  BY <1>4 DEF EditLines, SkipAndEdit, Editable, OrderLockFree, rowVars
<1>5. CASE Withdrawals
  BY <1>1, <1>2, <1>3, <1>4, <1>5 DEF Withdrawals
<1>6. CASE Reservations \/ Enqueues
  <2>1. UNCHANGED <<job, state>>
    BY <1>6 DEF Reservations, Reserve, ConfirmByStaff, ReleaseReservations, ReturnToConfirmationQueue,
       Enqueues, EnqueueConfirmed, EnqueueUnbuildable, LoseReservedEvent, Reconcile, orderVars
  <2> QED BY <2>1
<1>7. CASE Publishes \/ Rebuilds
  <2>1. UNCHANGED <<job, state>>
    BY <1>7 DEF Publishes, PublishBegin, PublishSend, PublishCommit, PublishFail, PublishLost, RequeueFailed,
       Rebuilds, RebuildBegin, RebuildAlreadySent, RebuildReadOrder, RebuildReadReservation, RebuildInsert,
       RebuildFail, orderVars
  <2> QED BY <2>1
<1>8. CASE Reports
  <2>1. job' = job /\ (job = "none" \/ state' = state)
    BY <1>8 DEF Reports, RegistrationResult, CancelResult, UpdateStatus, OrderChanged, Pay, HoldChanges,
       Answers, OrderLockFree
  <2> QED BY <2>1
<1> QED BY <1>5, <1>6, <1>7, <1>8 DEF Next

LEMMA OpenJobStep ==
  ASSUME QuietInv, Quiet, Next
  PROVE  OpenJob'
<1>1. Typed /\ OpenJob
  BY DEF QuietInv
<1>2. CASE job' = "none"
  BY <1>2 DEF OpenJob
<1>3. CASE job # "none" /\ job' = job /\ state' = state
  <2>1. ASSUME NEW q \in Live PROVE q \in Live'
    <3>1. RowCycle(q) /\ q \in Row
      BY RowCycles DEF QuietInv, LockedRows, Quiet, Live, RowsOf
    <3> QED BY <1>3, <2>1, <3>1 DEF RowCycle, Live, RowsOf
  <2> QED BY <1>1, <1>3, <2>1 DEF OpenJob
<1>4. CASE /\ job = "none" /\ state = "open" /\ UNCHANGED <<state, status, kind>>
           /\ job' = "edit" \/ Waiting # {}
  <2>1. Live' = Live /\ Waiting \subseteq Live
    BY <1>4 DEF Live, Waiting, RowsOf
  <2> QED BY <1>4, <2>1 DEF OpenJob
<1> QED BY <1>1, <1>2, <1>3, <1>4, JobStep

\* A cancelled order stays so; the ERP's own word and every request stay too.
LEMMA CancelledStep ==
  ASSUME QuietInv, Quiet, Next, state = "cancelled"
  PROVE  /\ state' = "cancelled"
         /\ cancelRequest = "CANCELLED" => cancelRequest' = "CANCELLED"
<1>1. Typed /\ job = "none"
  BY DEF QuietInv, OpenJob
<1>2. ASSUME NEW how \in CancelCause, NEW r \in Row, Cancel(how, r) PROVE UNCHANGED <<state, cancelRequest>>
  <2>1. Decide(Submission, how) = "already-cancelled"
    BY DEF Decide
  <2> QED BY <1>2, <2>1 DEF Cancel, Perform
<1>3. CASE Withdrawals
  BY <1>1, <1>2, <1>3 DEF Withdrawals, SkipAndCancel, SkipAndEdit, EditLines
<1>4. CASE Reservations \/ Enqueues
  BY <1>4 DEF Reservations, Reserve, ConfirmByStaff, ReleaseReservations, ReturnToConfirmationQueue,
     Enqueues, EnqueueConfirmed, EnqueueUnbuildable, LoseReservedEvent, Reconcile, orderVars
<1>5. CASE Publishes \/ Rebuilds
  BY <1>5 DEF Publishes, PublishBegin, PublishSend, PublishCommit, PublishFail, PublishLost, RequeueFailed,
     Rebuilds, RebuildBegin, RebuildAlreadySent, RebuildReadOrder, RebuildReadReservation, RebuildInsert,
     RebuildFail, orderVars
<1>6. CASE Reports
  BY <1>6 DEF Reports, RegistrationResult, CancelResult, UpdateStatus, OrderChanged, Pay, HoldChanges, CancelLocally
<1> QED BY <1>3, <1>4, <1>5, <1>6 DEF Next

\* After the cancel no row comes to life and nothing more is sent.
LEMMA StaysShut ==
  ASSUME QuietInv, Quiet, Next, state = "cancelled"
  PROVE  ShutOrder' /\ CancelIsTold'
<1>1. /\ Typed /\ SentWaits /\ delivered \subseteq Row /\ Live \subseteq delivered /\ CancelIsTold
  BY DEF QuietInv, LockedRows, Typed, DeliveryTyped, ShutOrder
<1>2. ASSUME NEW q \in Row PROVE RowCycle(q)
  BY <1>1, RowCycles DEF Quiet
<1>3. \A q \in delivered : q \in delivered' /\ kind'[q] = kind[q]
  BY DeliveredStays
<1>4. ASSUME NEW q \in Live' PROVE q \in Live
  <2>1. q \in Row /\ kind'[q] = "confirmed" /\ status'[q] \in {"pending", "failed", "published"}
    BY <1>4 DEF Live, RowsOf
  <2>2. kind[q] = "confirmed" /\ status[q] \in {"pending", "failed", "published"}
    BY <1>1, <1>2, <2>1 DEF RowCycle, SentWaits
  <2> QED BY <2>1, <2>2 DEF Live, RowsOf
<1>5. ShutOrder'
  BY <1>1, <1>3, <1>4 DEF ShutOrder
<1>6. ASSUME NEW q \in Row, Submitted(q)' PROVE Submitted(q)
  <2>1. q \in delivered' /\ kind'[q] = "confirmed" /\ answer'[q] # "rejected"
    BY <1>6 DEF Submitted
  <2>2. q \in delivered
    <3> SUFFICES ASSUME q \notin delivered PROVE q \in Live
      BY <1>1
    <3>1. kind[q] = "confirmed" /\ status[q] = "pending"
      BY <1>2, <2>1 DEF RowCycle
    <3> QED BY <3>1 DEF Live, RowsOf
  <2>3. answer[q] # "rejected"
    BY <1>1, <2>1, AnswerStep
  <2> QED BY <1>3, <2>1, <2>2, <2>3 DEF Submitted
<1>7. ASSUME NEW q \in RowsOf("cancel-requested", {"pending", "failed", "published"})
      PROVE  q \in RowsOf("cancel-requested", {"pending", "failed", "published"})'
  <2>1. q \in Row /\ kind[q] = "cancel-requested" /\ status[q] \in {"pending", "failed", "published"}
    BY <1>7 DEF RowsOf
  <2>2. kind'[q] = "cancel-requested" /\ status'[q] \in {"pending", "failed", "published"}
    BY <1>2, <2>1 DEF RowCycle
  <2> QED BY <2>1, <2>2 DEF RowsOf
<1>8. CancelIsTold'
  BY <1>1, <1>6, <1>7, CancelledStep DEF CancelIsTold
<1> QED BY <1>5, <1>8

\* The step that cancels: here, with a request or because nothing was sent, or the ERP's own.
LEMMA ClosingStep ==
  ASSUME QuietInv, Next, Rebuilder = {}, state = "open", state' = "cancelled"
  PROVE  \/ /\ UNCHANGED <<status, kind, delivered, answer>>
            /\ erpStatus = "rejected" \/ Submission = "none"
         \/ /\ UNCHANGED <<delivered, answer>> /\ RowsOf("confirmed", {"published"}) # {}
            /\ \E r \in Row : RequestCancel(r)
         \/ Withdrawn /\ UNCHANGED <<delivered, answer>>
         \/ UNCHANGED <<status, kind, delivered>> /\ cancelRequest' = "CANCELLED" /\ Known
<1>1. Typed /\ Publication /\ SentWaits /\ Reported
  BY DEF QuietInv, LockedRows
<1>2. ASSUME NEW how \in CancelCause, NEW r \in Row, Cancel(how, r)
      PROVE  /\ UNCHANGED <<delivered, answer>>
             /\ \/ UNCHANGED <<status, kind>> /\ (erpStatus = "rejected" \/ Submission = "none")
                \/ RowsOf("confirmed", {"published"}) # {} /\ RequestCancel(r)
  <2>1. how \in {"cancel", "expire"}
    BY SubmissionAssumption DEF SubmissionAssumption
  <2>2. UNCHANGED <<delivered, answer>>
    BY <1>2 DEF Cancel, erpVars
  <2>3. Perform(Decide(Submission, how), r)
    BY <1>2 DEF Cancel
  <2>4. CASE Decide(Submission, how) = "cancel-locally"
    BY <1>1, <2>1, <2>2, <2>3, <2>4, Decisions DEF Perform, rowVars
  <2>5. CASE Decide(Submission, how) = "request-and-cancel"
    <3>1. Submission = "sent" /\ RequestCancel(r)
      BY <1>1, <2>1, <2>3, <2>5, Decisions DEF Perform
    <3> QED BY <2>2, <3>1 DEF Submission
  <2> QED BY <2>3, <2>4, <2>5 DEF Perform
<1>3. ASSUME NEW r \in Row, SkipAndCancel(r)
      PROVE  /\ UNCHANGED <<delivered, answer>>
             /\ Withdrawn \/ (RowsOf("confirmed", {"published"}) # {} /\ RequestCancel(r))
  <2>1. UNCHANGED <<delivered, answer>>
    BY <1>3 DEF SkipAndCancel, erpVars
  <2>2. CASE Waiting # {}
    BY <1>3, <2>1, <2>2 DEF SkipAndCancel, Withdrawn
  <2>3. CASE Waiting = {}
    <3>1. RequestCancel(r) /\ job \in {"cancel", "expire"}
      BY <1>3, <2>3 DEF SkipAndCancel, Perform
    <3>2. Live # {}
      BY <3>1 DEF QuietInv, OpenJob
    <3>3. RowsOf("confirmed", {"published"}) # {}
      BY <2>3, <3>2 DEF Live, Waiting, RowsOf
    <3> QED BY <2>1, <3>1, <3>3
  <2> QED BY <2>2, <2>3
<1>4. CASE EditLines \/ SkipAndEdit
  BY <1>4 DEF EditLines, SkipAndEdit
<1>5. CASE Withdrawals
  BY <1>2, <1>3, <1>4, <1>5 DEF Withdrawals
<1>6. CASE Reservations \/ Enqueues \/ Publishes \/ Rebuilds
  BY <1>6 DEF Reservations, Reserve, ConfirmByStaff, ReleaseReservations, ReturnToConfirmationQueue,
     Enqueues, EnqueueConfirmed, EnqueueUnbuildable, LoseReservedEvent, Reconcile,
     Publishes, PublishBegin, PublishSend, PublishCommit, PublishFail, PublishLost, RequeueFailed,
     Rebuilds, orderVars
<1>7. ASSUME NEW r \in Row, CancelResult(r)
      PROVE  UNCHANGED <<status, kind, delivered>> /\ cancelRequest' = "CANCELLED" /\ Known
  <2>1. r \in delivered /\ kind[r] = "cancel-requested"
    BY <1>7 DEF CancelResult, Answers
  <2>2. status[r] # "absent"
    BY <1>1, <2>1 DEF Publication, SentWaits
  <2>3. Known
    BY <1>1, <2>1, <2>2 DEF Reported
  <2> QED BY <1>7, <2>3 DEF CancelResult, rowVars
<1>8. ASSUME OrderChanged
      PROVE  UNCHANGED <<status, kind, delivered>> /\ cancelRequest' = "CANCELLED" /\ Known
  BY <1>8 DEF OrderChanged, rowVars, erpVars, Submitted, Known
<1>9. CASE Reports
  BY <1>7, <1>8, <1>9 DEF Reports, RegistrationResult, UpdateStatus, Pay, HoldChanges
<1> QED BY <1>5, <1>6, <1>9 DEF Next

\* An order whose live row the ERP has, or with no live row: nothing is left to be sent.
LEMMA ShutsOrder ==
  ASSUME QuietInv, Quiet, Next, state = "open", state' = "cancelled"
  PROVE  ShutOrder' /\ CancelIsTold'
<1>1. /\ Typed /\ OneLive /\ Publication /\ Reported /\ Rebuilder = {}
      /\ status \in [Row -> {"absent", "pending", "failed", "published", "skipped", "resolved"}]
      /\ kind \in [Row -> Kind] /\ delivered \subseteq Row
  BY DEF QuietInv, Quiet, Typed, RowsTyped, DeliveryTyped
<1>2. \A q \in delivered : q \in Row /\ (kind[q] = "confirmed" => q \in Live)
  BY DeliveredStays
<1>3. Known => Live \subseteq delivered
  BY <1>1, <1>2 DEF Known, OneLive
<1>4. ASSUME UNCHANGED <<status, kind, delivered>>, Known PROVE ShutOrder'
  BY <1>3, <1>4 DEF ShutOrder, Live, RowsOf
<1>5. CASE /\ UNCHANGED <<status, kind, delivered, answer>>
           /\ erpStatus = "rejected" \/ Submission = "none"
  <2>1. CASE erpStatus = "rejected"
    <3>1. PICK x \in delivered : kind[x] = "confirmed" /\ answer[x] = "rejected"
      BY <1>1, <2>1 DEF Reported, Rejected
    <3>2. ShutOrder'
      BY <1>4, <1>5, <3>1 DEF Known
    <3>3. \A q \in Row : ~Submitted(q)'
      BY <1>1, <1>2, <1>5, <3>1 DEF Submitted, OneLive
    <3> QED BY <3>2, <3>3 DEF CancelIsTold
  <2>2. CASE Submission = "none"
    <3>1. Live = {}
      BY <2>2 DEF Submission, Waiting, Live, RowsOf
    <3>2. Live' = {}
      BY <1>5, <3>1 DEF Live, RowsOf
    <3>3. \A q \in Row : ~Submitted(q)'
      BY <1>2, <1>5, <3>1 DEF Submitted
    <3> QED BY <3>2, <3>3 DEF CancelIsTold, ShutOrder
  <2> QED BY <1>5, <2>1, <2>2
<1>6. ASSUME NEW r \in Row, RequestCancel(r), UNCHANGED <<delivered, answer>>,
             RowsOf("confirmed", {"published"}) # {}
      PROVE  ShutOrder' /\ CancelIsTold'
  <2>1. Known
    BY <1>1, <1>6 DEF RowsOf, Publication, Known
  <2>2. \/ UNCHANGED <<status, kind>> /\ HasActiveEntry("cancel-requested")
        \/ Adds(r, "cancel-requested", "pending")
    BY <1>6 DEF RequestCancel, Write, Adds, rowVars
  <2>3. CASE UNCHANGED <<status, kind>> /\ HasActiveEntry("cancel-requested")
    BY <1>4, <1>6, <2>1, <2>3 DEF CancelIsTold, HasActiveEntry, RowsOf
  <2>4. CASE Adds(r, "cancel-requested", "pending")
    <3>1. Live' \subseteq Live
      BY <1>1, <2>4 DEF Adds, Live, RowsOf
    <3>2. r \in RowsOf("cancel-requested", {"pending", "failed", "published"})'
      BY <1>1, <2>4 DEF Adds, RowsOf
    <3> QED BY <1>3, <1>6, <2>1, <3>1, <3>2 DEF ShutOrder, CancelIsTold
  <2> QED BY <2>2, <2>3, <2>4
<1>7. CASE Withdrawn /\ UNCHANGED <<delivered, answer>>
  <2>1. PICK x \in Waiting : publishing[x] = "no"
    BY <1>7 DEF Withdrawn, Unlocked
  <2>2. x \in Row /\ x \in Live /\ status[x] \in {"pending", "failed"}
    BY <2>1 DEF Waiting, Live, RowsOf
  <2>3. x \notin delivered
    BY <1>1, <2>1, <2>2 DEF Publication
  <2>4. \A q \in delivered : kind[q] # "confirmed"
    BY <1>1, <1>2, <2>2, <2>3 DEF OneLive
  <2>5. \A q \in Row : ~Submitted(q)'
    BY <1>7, <2>4 DEF Withdrawn, Submitted
  <2>6. Live' = {}
    <3>1. \A q \in Live : q \in Waiting
      BY <1>1, <2>1, <2>2 DEF OneLive
    <3>2. \A q \in Live' : q \in Live /\ q \notin Waiting
      BY <1>7 DEF Withdrawn, Skip, Live, RowsOf
    <3> QED BY <3>1, <3>2
  <2> QED BY <2>5, <2>6 DEF ShutOrder, CancelIsTold
<1>8. CASE UNCHANGED <<status, kind, delivered>> /\ cancelRequest' = "CANCELLED" /\ Known
  BY <1>4, <1>8 DEF CancelIsTold
<1> QED BY <1>1, <1>5, <1>6, <1>7, <1>8, ClosingStep

LEMMA QuietAlways == ASSUME Quiet PROVE Spec => []QuietInv
<1> DEFINE Rest == Publication /\ Reported /\ OpenJob /\ ShutOrder /\ CancelIsTold
<1>1. Init => Rest
  BY DEF Init, Publication, Reported, OpenJob, ShutOrder, CancelIsTold
<1>2. Typed /\ LockedRows /\ OneLive /\ Rest /\ Next => Rest'
  <2> SUFFICES ASSUME QuietInv, Next PROVE Rest'
    BY DEF QuietInv
  <2>1. Publication' /\ Reported' /\ OpenJob'
    BY PublicationStep, ReportedStep, OpenJobStep DEF QuietInv, LockedRows, Quiet
  <2>2. state \in {"open", "cancelled"} /\ state' \in {"open", "cancelled"}
    BY TypedStep DEF QuietInv, Typed, OrderTyped
  <2>3. ShutOrder' /\ CancelIsTold'
    BY <2>2, StaysShut, ShutsOrder DEF ShutOrder, CancelIsTold
  <2> QED BY <2>1, <2>3
<1>3. Rest /\ UNCHANGED vars => Rest'
  BY DEF vars, orderVars, rowVars, erpVars, Publication, Reported, Known, Rejected, OpenJob, Live, RowsOf,
     ShutOrder, CancelIsTold, Submitted
<1>4. Typed /\ LockedRows /\ OneLive /\ Rest <=> QuietInv
  BY DEF QuietInv
<1> HIDE DEF Rest
<1> QED BY <1>1, <1>2, <1>3, <1>4, OneLiveAlways, PTL DEF Spec

\* When no rebuild is under way, no commit is lost and one order.confirmed is asked for at a
\* time, a cancel and the publisher that overtakes it never leave the ERP with an order it is
\* not asked to cancel ...
THEOREM CancelsAreTold == ASSUME Quiet PROVE Spec => []CancelIsTold
<1>1. QuietInv => CancelIsTold
  BY DEF QuietInv
<1> QED BY <1>1, QuietAlways, PTL

\* ... and leave no row behind that would be sent late.
THEOREM NothingIsSentLate == ASSUME Quiet PROVE Spec => []NothingSentAfterCancel
<1>1. QuietInv => NothingSentAfterCancel
  BY DEF QuietInv, ShutOrder, NothingSentAfterCancel, Live, RowsOf
<1> QED BY <1>1, QuietAlways, PTL

=============================================================================
