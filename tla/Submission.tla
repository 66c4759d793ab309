----------------------------- MODULE Submission -----------------------------
(***************************************************************************)
(* How one order reaches the ERP and how it is taken back: reservation     *)
(* (packages/plugins/reservation), the outbox of order.confirmed and       *)
(* order.cancel-requested (packages/plugins/erp-integration), the rebuild  *)
(* of skipped rows, cancellation, staff line edits and the ERP's answers.  *)
(* Everything about one order runs under reserve-order:<id>; the publisher *)
(* and the first half of a rebuild do not.                                 *)
(***************************************************************************)
EXTENDS Naturals

CONSTANTS
    Row,            \* ids of integration_outbox rows of the order
    Rebuilder,      \* concurrent rebuildSkipped calls (sweep, dashboard)
    CancelCause,    \* who cancels: people ("cancel") and the deadline ("expire")
    MaxReserves,    \* bounds: successful reservations,
    MaxEdits,       \*   line edits,
    MaxGiveUps,     \*   rows whose retry budget is spent,
    MaxRequeues,    \*   requeued failed rows,
    MaxLost,        \*   publications whose commit is lost,
    MaxDropped,     \*   events lost, or not buildable, when first handled,
    MaxRejections,  \*   submissions the ERP rejects,
    NoRow

ASSUME SubmissionAssumption ==
    /\ {MaxReserves, MaxEdits, MaxGiveUps, MaxRequeues, MaxLost,
      MaxDropped, MaxRejections}
           \subseteq Nat
    /\ CancelCause \subseteq {"cancel", "expire"}
    /\ NoRow \notin Row

VARIABLES
    state,          \* order.state: "open" or "cancelled"
    lines,          \* version of the order's lines
    reserve,        \* its active reservation, by creation or confirmation
    reserves,       \* reservations made so far
    paid,           \* has it a settled payment?
    erpStatus,      \* the ERP's stage of the order; "picking": warehouse started
    erpOrderId,     \* is the ERP's order id known?
    cancelRequest,  \* customFields.cancelRequestStatus
    holding,        \* would the policies hold the order's send?
    status, kind, content, reason,  \* per outbox row
    publishing,     \* per row, the publisher transaction that locks it
    rebuild,        \* per rebuilder: where it is, its row, the lines it read
    job,            \* the transaction that saw a waiting row and will skip it
    dueReturn,      \* the reservation whose refused expiry returns to the queue
    reserved,       \* OrderReservedEvents not yet handled
    statusEvents,   \* ErpOrderStatusEvents not yet handled
    delivered,      \* rows the ERP has received
    answer,         \* the ERP's applied answer to a row
    bounds          \* the counters of the bounded events

orderVars == <<state, lines, reserve, reserves, paid, erpStatus,
               erpOrderId, cancelRequest, holding>>
rowVars == <<status, kind, content, reason>>
erpVars == <<statusEvents, delivered, answer>>
vars == <<orderVars, rowVars, publishing, rebuild, job, dueReturn, reserved,
          erpVars, bounds>>

Kind == {"confirmed", "cancel-requested"}
Idle == [at |-> "idle", row |-> NoRow, lines |-> 0]
Zero == [giveUps |-> 0, requeues |-> 0, lost |-> 0, dropped |-> 0,
         rejections |-> 0]
Counter == [giveUps : 0..MaxGiveUps, requeues : 0..MaxRequeues,
            lost : 0..MaxLost, dropped : 0..MaxDropped,
            rejections : 0..MaxRejections]

TypeOK ==
    /\ state \in {"open", "cancelled"}
    /\ lines \in 0..MaxEdits
    /\ reserve \in {"none", "auto", "manual"}
    /\ reserves \in 0..MaxReserves
    /\ paid \in BOOLEAN
    /\ erpStatus \in {"none", "submitted", "rejected", "picking"}
    /\ erpOrderId \in BOOLEAN
    /\ cancelRequest \in {"none", "REQUESTED", "REFUSED", "CANCELLED"}
    /\ holding \in BOOLEAN
    /\ status \in [Row -> {"absent", "pending", "failed", "published", "skipped",
                           "resolved"}]
    /\ kind \in [Row -> Kind]
    /\ content \in [Row -> 0..MaxEdits]
    /\ reason \in [Row -> {"none", "held", "rebuild failed", "withdrawn", "other"}]
    /\ publishing \in [Row -> {"no", "sending", "sent"}]
    /\ rebuild \in [Rebuilder -> [at : {"idle", "order", "reservation", "insert"},
                                  row : Row \cup {NoRow}, lines : 0..MaxEdits]]
    /\ job \in {"none", "cancel", "expire", "edit"}
    /\ dueReturn \in 0..MaxReserves
    /\ reserved \in Nat
    /\ statusEvents \subseteq {"submitted", "rejected"}
    /\ delivered \subseteq Row
    /\ answer \in [Row -> {"none", "registered", "rejected", "cancelled", "refused"}]
    /\ bounds \in Counter

Init ==
    /\ state = "open" /\ lines = 0 /\ reserve = "none" /\ reserves = 0
    /\ paid = FALSE
    /\ erpStatus = "none" /\ erpOrderId = FALSE /\ cancelRequest = "none"
    /\ holding \in BOOLEAN
    /\ status = [r \in Row |-> "absent"]
    /\ kind = [r \in Row |-> "confirmed"]
    /\ content = [r \in Row |-> 0]
    /\ reason = [r \in Row |-> "none"]
    /\ publishing = [r \in Row |-> "no"]
    /\ rebuild = [b \in Rebuilder |-> Idle]
    /\ job = "none" /\ dueReturn = 0
    /\ reserved = 0 /\ statusEvents = {}
    /\ delivered = {} /\ answer = [r \in Row |-> "none"]
    /\ bounds = Zero

-----------------------------------------------------------------------------
(* Locks and the outbox table *)

\* reserve-order:<id> is free: no transaction that spans steps holds it.
OrderLockFree == job = "none"

\* The row locks held across a publish and across a rebuild.
Rebuilding(r) == \E b \in Rebuilder : rebuild[b].row = r

RowsOf(k, S) == {r \in Row : kind[r] = k /\ status[r] \in S}
WaitingFirstTry == RowsOf("confirmed", {"pending"})
Waiting == RowsOf("confirmed", {"pending", "failed"})
HasUnsentEntry(k) == RowsOf(k, {"pending"}) # {}
HasActiveEntry(k) == RowsOf(k, {"pending", "published"}) # {}

\* writeToOutbox and writeSkipped.
Write(r, k, s, why, version) ==
    /\ status[r] = "absent"
    /\ status' = [status EXCEPT ![r] = s]
    /\ kind' = [kind EXCEPT ![r] = k]
    /\ content' = [content EXCEPT ![r] = version]
    /\ reason' = [reason EXCEPT ![r] = why]

Count(c, limit) ==
    /\ bounds[c] < limit
    /\ bounds' = [bounds EXCEPT ![c] = @ + 1]

-----------------------------------------------------------------------------
(* Reservation *)

\* An automatic reservation meets the hold policies, a manual one skips them.
Reserve(trigger) ==
    /\ OrderLockFree
    /\ reserve = "none" /\ state = "open"
    /\ trigger = "auto" => ~holding
    /\ reserves < MaxReserves
    /\ reserve' = trigger
    /\ reserves' = reserves + 1
    /\ reserved' = reserved + 1
    /\ UNCHANGED <<state, lines, paid, erpStatus, erpOrderId,
                   cancelRequest, holding, rowVars, publishing, rebuild, job,
                   dueReturn, erpVars, bounds>>

\* stampStaffConfirmation of an order that is already reserved.
ConfirmByStaff ==
    /\ OrderLockFree
    /\ reserve = "auto"
    /\ reserve' = "manual"
    /\ UNCHANGED <<state, lines, reserves, paid, erpStatus, erpOrderId,
                   cancelRequest, holding, rowVars, publishing, rebuild, job,
                   dueReturn, reserved, erpVars, bounds>>

\* Staff, or the deadline of a rejected order, release the reservation.
ReleaseKeepsRow ==
    /\ OrderLockFree
    /\ reserve # "none"
    /\ reserve' = "released"
    /\ UNCHANGED <<state, lines, reserves, paid, erpStatus, erpOrderId,
                   cancelRequest, holding, rowVars, publishing, rebuild, job,
                   dueReturn, reserved, erpVars, bounds>>
ReleaseReservations ==
    /\ OrderLockFree
    /\ reserve # "none"
    /\ reserve' = "none"
    /\ UNCHANGED <<state, lines, reserves, paid, erpStatus, erpOrderId,
                   cancelRequest, holding, rowVars, publishing, rebuild, job,
                   dueReturn, reserved, erpVars, bounds>>

\* returnToConfirmationQueue takes no order lock; it expires the rows the sweep
\* saw, unless they were extended since.
ReturnToConfirmationQueue ==
    /\ dueReturn # 0
    /\ dueReturn' = 0
    /\ \/ reserve' = IF reserves = dueReturn THEN "none" ELSE reserve
       \/ UNCHANGED reserve
    /\ UNCHANGED <<state, lines, reserves, paid, erpStatus, erpOrderId,
                   cancelRequest, holding, rowVars, publishing, rebuild, job,
                   reserved, erpVars, bounds>>

-----------------------------------------------------------------------------
(* Building and recording order.confirmed *)

\* An ERP rejection lets the order be submitted again.
AlreadySubmitted == erpStatus # "rejected" /\ HasActiveEntry("confirmed")

\* The reservations are read under the order lock; staff's own never hold.
IsHeld == holding /\ reserve # "manual"

\* enqueueConfirmed: check and insert under the order lock.
EnqueueConfirmed(r) ==
    /\ OrderLockFree
    /\ reserved > 0
    /\ reserved' = reserved - 1
    /\ \/ /\ state = "cancelled" \/ AlreadySubmitted \/ reserve = "none"
          /\ Write(r, "confirmed", "skipped", "other", 0)
       \/ /\ state = "open" /\ ~AlreadySubmitted /\ reserve # "none" /\ IsHeld
          /\ Write(r, "confirmed", "skipped", "held", 0)
       \/ /\ state = "open" /\ ~AlreadySubmitted /\ reserve # "none" /\ ~IsHeld
          /\ Write(r, "confirmed", "pending", "none", lines)
    /\ UNCHANGED <<orderVars, publishing, rebuild, job, dueReturn, erpVars, bounds>>

\* The data has a gap, or the builder throws: the failure is recorded.
EnqueueUnbuildable(r) ==
    /\ OrderLockFree
    /\ reserved > 0
    /\ Count("dropped", MaxDropped)
    /\ reserved' = reserved - 1
    /\ Write(r, "confirmed", "skipped", "other", 0)
    /\ UNCHANGED <<orderVars, publishing, rebuild, job, dueReturn, erpVars>>

\* The server dies between the reservation's commit and the listener's.
LoseReservedEvent ==
    /\ reserved > 0
    /\ Count("dropped", MaxDropped)
    /\ reserved' = reserved - 1
    /\ UNCHANGED <<orderVars, rowVars, publishing, rebuild, job, dueReturn, erpVars>>

\* The reconciler re-drives a reserved order without any row, long enough after
\* the reservation for the listener to be out of the way.
Redrivable ==
    /\ reserve # "none" /\ state = "open"
    /\ RowsOf("confirmed", {"pending", "failed", "published", "skipped", "resolved"}) = {}
Reconcile ==
    /\ Redrivable
    /\ reserved = 0
    /\ reserved' = 1
    /\ UNCHANGED <<orderVars, rowVars, publishing, rebuild, job, dueReturn, erpVars,
                   bounds>>

-----------------------------------------------------------------------------
(* Publishing: the row lock is held from the first step to the last *)

PublishBegin(r) ==
    /\ status[r] = "pending" /\ publishing[r] = "no"
    /\ publishing' = [publishing EXCEPT ![r] = "sending"]
    /\ UNCHANGED <<orderVars, rowVars, rebuild, job, dueReturn, reserved, erpVars, bounds>>

PublishSend(r) ==
    /\ publishing[r] = "sending"
    /\ publishing' = [publishing EXCEPT ![r] = "sent"]
    /\ delivered' = delivered \cup {r}
    /\ UNCHANGED <<orderVars, rowVars, rebuild, job, dueReturn, reserved, statusEvents,
                   answer, bounds>>

PublishCommit(r) ==
    /\ publishing[r] = "sent"
    /\ publishing' = [publishing EXCEPT ![r] = "no"]
    /\ status' = [status EXCEPT ![r] = "published"]
    /\ UNCHANGED <<orderVars, kind, content, reason, rebuild, job, dueReturn, reserved,
                   erpVars, bounds>>

\* The broker refused; the row waits for another try or is given up.
PublishFail(r) ==
    /\ publishing[r] = "sending"
    /\ publishing' = [publishing EXCEPT ![r] = "no"]
    /\ \/ UNCHANGED <<status, bounds>>
       \/ /\ Count("giveUps", MaxGiveUps)
          /\ status' = [status EXCEPT ![r] = "failed"]
    /\ UNCHANGED <<orderVars, kind, content, reason, rebuild, job, dueReturn, reserved,
                   erpVars>>

\* The message is out, its commit is not: a crash or a lost acknowledgement.
PublishLost(r) ==
    /\ publishing[r] = "sent"
    /\ Count("lost", MaxLost)
    /\ publishing' = [publishing EXCEPT ![r] = "no"]
    /\ UNCHANGED <<orderVars, rowVars, rebuild, job, dueReturn, reserved, erpVars>>

RequeueFailed(r) ==
    /\ status[r] = "failed"
    /\ Count("requeues", MaxRequeues)
    /\ status' = [status EXCEPT ![r] = "pending"]
    /\ UNCHANGED <<orderVars, kind, content, reason, publishing, rebuild, job,
                   dueReturn, reserved, erpVars>>

-----------------------------------------------------------------------------
(* rebuildSkipped: the row lock first, the order lock only before the insert *)

Resolve(r) == status' = [status EXCEPT ![r] = "resolved"]
Rebuildable(r) ==
    /\ status[r] = "skipped"
    /\ ~Rebuilding(r)

RebuildAlreadySent(r) ==
    /\ Rebuildable(r) /\ HasActiveEntry("confirmed")
    /\ Resolve(r)
    /\ UNCHANGED <<orderVars, kind, content, reason, publishing, rebuild, job,
                   dueReturn, reserved, erpVars, bounds>>

RebuildBegin(b, r) ==
    /\ rebuild[b].at = "idle"
    /\ Rebuildable(r) /\ ~HasActiveEntry("confirmed")
    /\ rebuild' = [rebuild EXCEPT ![b] = [at |-> "order", row |-> r, lines |-> 0]]
    /\ UNCHANGED <<orderVars, rowVars, publishing, job, dueReturn, reserved, erpVars,
                   bounds>>

\* The rows the sweep retries by itself; an operator may rebuild any.
SweepsHeldOnly(r) == reason[r] = "held"
Sweeps(r) == reason[r] \in {"held", "rebuild failed"}

\* The row stays skipped, for the reason the build gave.
StillSkipped(b, why) ==
    /\ reason' = [reason EXCEPT ![rebuild[b].row] = why]
    /\ rebuild' = [rebuild EXCEPT ![b] = Idle]

\* build reads the order and whether it was submitted ...
RebuildReadOrder(b) ==
    /\ rebuild[b].at = "order"
    /\ \/ /\ state = "cancelled" \/ AlreadySubmitted
          /\ StillSkipped(b, "other")
       \/ /\ state = "open" /\ ~AlreadySubmitted
          /\ rebuild' = [rebuild EXCEPT ![b].at = "reservation", ![b].lines = lines]
          /\ UNCHANGED reason
    /\ UNCHANGED <<orderVars, status, kind, content, publishing, job, dueReturn,
                   reserved, erpVars, bounds>>

\* ... then its reservations ...
RebuildReadReservation(b) ==
    /\ rebuild[b].at = "reservation"
    /\ \/ /\ reserve = "none"
          /\ StillSkipped(b, "other")
       \/ /\ reserve # "none"
          /\ rebuild' = [rebuild EXCEPT ![b].at = "insert"]
          /\ UNCHANGED reason
    /\ UNCHANGED <<orderVars, status, kind, content, publishing, job, dueReturn,
                   reserved, erpVars, bounds>>

\* ... and then, under the order lock, the hold; another row may have won meanwhile.
RebuildInsert(b, r) ==
    /\ rebuild[b].at = "insert"
    /\ OrderLockFree
    /\ \/ /\ IsHeld
          /\ StillSkipped(b, "held")
          /\ UNCHANGED <<status, kind, content>>
       \/ /\ ~IsHeld /\ HasActiveEntry("confirmed")
          /\ Resolve(rebuild[b].row)
          /\ rebuild' = [rebuild EXCEPT ![b] = Idle]
          /\ UNCHANGED <<kind, content, reason>>
       \/ /\ ~IsHeld /\ ~HasActiveEntry("confirmed")
          /\ status[r] = "absent"
          /\ status' = [status EXCEPT ![r] = "pending", ![rebuild[b].row] = "resolved"]
          /\ kind' = [kind EXCEPT ![r] = "confirmed"]
          /\ content' = [content EXCEPT ![r] = rebuild[b].lines]
          /\ rebuild' = [rebuild EXCEPT ![b] = Idle]
          /\ UNCHANGED reason
    /\ UNCHANGED <<orderVars, publishing, job, dueReturn, reserved, erpVars, bounds>>

\* The build throws: everything rolls back, the failure is recorded on the row.
RebuildFail(b) ==
    /\ rebuild[b].at # "idle"
    /\ StillSkipped(b, "rebuild failed")
    /\ UNCHANGED <<orderVars, status, kind, content, publishing, job, dueReturn,
                   reserved, erpVars, bounds>>

-----------------------------------------------------------------------------
(* Cancelling *)

Submission == IF RowsOf("confirmed", {"published"}) # {} THEN "sent"
              ELSE IF Waiting # {} THEN "pending" ELSE "none"

\* decideCancellation, in the order of its checks.
Decide(submission, how) ==
    CASE state = "cancelled" -> "already-cancelled"
      [] state = "open" /\ erpStatus = "picking" -> "refuse"
      [] state = "open" /\ erpStatus # "picking" /\ paid -> "return"
      [] state = "open" /\ ~paid /\ erpStatus = "rejected" ->
             IF how = "expire" THEN "return" ELSE "cancel-locally"
      [] OTHER ->
             IF cancelRequest = "REQUESTED" THEN "already-requested"
             ELSE IF erpOrderId THEN IF how = "expire" THEN "leave-to-erp" ELSE "request-only"
             ELSE IF submission = "pending" THEN "skip"
             ELSE IF submission = "sent" THEN "request-and-cancel"
             ELSE "cancel-locally"

CancelLocally == state' = "cancelled" /\ reserve' = "none"

\* One cancel-requested while a request is open; after a refusal a new one.
RequestCancel(r) ==
    /\ cancelRequest' = "REQUESTED"
    /\ IF cancelRequest # "REFUSED" /\ HasActiveEntry("cancel-requested")
       THEN UNCHANGED rowVars
       ELSE Write(r, "cancel-requested", "pending", "none", 0)

\* What perform does about a decision, r being the row of a request.
Perform(decision, r) ==
    \/ /\ decision = "cancel-locally"
       /\ CancelLocally
       /\ UNCHANGED <<rowVars, cancelRequest>>
    \/ /\ decision = "request-only"
       /\ RequestCancel(r)
       /\ UNCHANGED <<state, reserve>>
    \/ /\ decision = "request-and-cancel"
       /\ RequestCancel(r)
       /\ CancelLocally

\* The reserve deadline cancels only while a reservation is due.
Cancel(how, r) ==
    LET decision == Decide(Submission, how) IN
    /\ OrderLockFree
    /\ how = "expire" => reserve # "none"
    /\ \/ /\ Perform(decision, r)
          /\ UNCHANGED <<job, dueReturn>>
       \/ /\ decision = "skip"
          /\ job' = how
          /\ UNCHANGED <<state, reserve, cancelRequest, rowVars, dueReturn>>
       \/ /\ decision = "return" /\ how = "expire"
          /\ dueReturn' = reserves
          /\ UNCHANGED <<state, reserve, cancelRequest, rowVars, job>>
    /\ UNCHANGED <<lines, reserves, paid, erpStatus, erpOrderId, holding,
                   publishing, rebuild, reserved, erpVars, bounds>>

\* skipWaitingConfirmed waits for a publisher that holds a waiting row.
SkipLocked(S) == TRUE
Unlocked(S) == \A r \in S : publishing[r] = "no"
Skip(S) ==
    /\ status' = [r \in Row |-> IF r \in S THEN "skipped" ELSE status[r]]
    /\ reason' = [r \in Row |-> IF r \in S THEN "withdrawn" ELSE reason[r]]

\* The second half of a cancel that saw a waiting row: it counts the rows it
\* skipped.  None means sent, which the facts read before turn into a request.
SkipAndCancel(r) ==
    /\ job \in {"cancel", "expire"}
    /\ Unlocked(Waiting)
    /\ job' = "none"
    /\ \/ /\ Waiting # {}
          /\ Skip(Waiting)
          /\ CancelLocally
          /\ UNCHANGED <<kind, content, cancelRequest>>
       \/ /\ Waiting = {}
          /\ Perform("request-and-cancel", r)
    /\ UNCHANGED <<lines, reserves, paid, erpStatus, erpOrderId, holding,
                   publishing, rebuild, dueReturn, reserved, erpVars, bounds>>

-----------------------------------------------------------------------------
(* Staff line edits: assertEditable, then the change *)

Editable ==
    /\ state = "open" /\ erpStatus # "picking"
    /\ erpStatus = "rejected" \/ (~erpOrderId /\ Submission # "sent")

\* An edit releases the reservation; without one it leaves the outbox alone.
EditLines ==
    /\ OrderLockFree
    /\ Editable
    /\ lines < MaxEdits
    /\ \/ /\ reserve # "none" /\ ~erpOrderId /\ Submission = "pending"
          /\ job' = "edit"
          /\ UNCHANGED <<lines, reserve>>
       \/ /\ reserve = "none" \/ erpOrderId \/ Submission # "pending"
          /\ lines' = lines + 1
          /\ reserve' = "none"
          /\ UNCHANGED job
    /\ UNCHANGED <<state, reserves, paid, erpStatus, erpOrderId, cancelRequest,
                   holding, rowVars, publishing, rebuild, dueReturn, reserved, erpVars,
                   bounds>>

SkipAndEdit ==
    /\ job = "edit"
    /\ Unlocked(Waiting)
    /\ job' = "none"
    /\ \/ /\ Waiting # {}
          /\ Skip(Waiting)
          /\ lines' = lines + 1
          /\ reserve' = "none"
       \/ /\ Waiting = {}
          /\ UNCHANGED <<lines, reserve, status, reason>>
    /\ UNCHANGED <<state, reserves, paid, erpStatus, erpOrderId, cancelRequest,
                   holding, kind, content, publishing, rebuild, dueReturn, reserved,
                   erpVars, bounds>>

-----------------------------------------------------------------------------
(* What the ERP and the world report *)

\* The ERP has this submission and did not reject it.
Submitted(r) == r \in delivered /\ kind[r] = "confirmed" /\ answer[r] # "rejected"

Answers(r, k) ==
    /\ OrderLockFree
    /\ r \in delivered /\ kind[r] = k /\ answer[r] = "none"

\* handleOrderRegistrationResult: the ERP holds the stock now, or it refuses.
RegistrationResult(r) ==
    /\ Answers(r, "confirmed")
    /\ \/ /\ Count("rejections", MaxRejections)
          /\ answer' = [answer EXCEPT ![r] = "rejected"]
          /\ statusEvents' = statusEvents \cup {"rejected"}
          /\ UNCHANGED <<erpOrderId, reserve>>
       \/ /\ answer' = [answer EXCEPT ![r] = "registered"]
          /\ statusEvents' = IF erpStatus # "submitted" \/ ~erpOrderId
                             THEN statusEvents \cup {"submitted"} ELSE statusEvents
          /\ erpOrderId' = TRUE
          /\ reserve' \in {reserve, "none"}
          /\ UNCHANGED bounds
    /\ UNCHANGED <<state, lines, reserves, paid, erpStatus, cancelRequest,
                   holding, rowVars, publishing, rebuild, job, dueReturn, reserved,
                   delivered>>

\* updateStatus runs from the event bus, after the commit, without the lock and
\* without the forward-only rule: a late event overwrites a later stage.
UpdateStatus(s) ==
    /\ s \in statusEvents
    /\ statusEvents' = statusEvents \ {s}
    /\ erpStatus' = s
    /\ UNCHANGED <<state, lines, reserve, reserves, paid, erpOrderId,
                   cancelRequest, holding, rowVars, publishing, rebuild, job, dueReturn,
                   reserved, delivered, answer, bounds>>

\* OrderCancelResultService.apply.
CancelResult(r) ==
    /\ Answers(r, "cancel-requested")
    /\ \/ /\ answer' = [answer EXCEPT ![r] = "cancelled"]
          /\ cancelRequest' = "CANCELLED"
          /\ CancelLocally
       \/ /\ answer' = [answer EXCEPT ![r] = "refused"]
          /\ cancelRequest' = IF cancelRequest = "REQUESTED" THEN "REFUSED"
                              ELSE cancelRequest
          /\ UNCHANGED <<state, reserve>>
    /\ UNCHANGED <<lines, reserves, paid, erpStatus, erpOrderId, holding,
                   rowVars, publishing, rebuild, job, dueReturn, reserved, statusEvents,
                   delivered, bounds>>

\* order-changed of an order the ERP has: it cancelled it, or its warehouse started
\* (canAdvance: forward from any other stage).
OrderChanged ==
    /\ OrderLockFree
    /\ \E r \in Row : Submitted(r)
    /\ \/ /\ cancelRequest' = "CANCELLED"
          /\ CancelLocally
          /\ UNCHANGED erpStatus
       \/ /\ state = "open"
          /\ erpStatus' = "picking"
          /\ UNCHANGED <<state, reserve, cancelRequest>>
    /\ UNCHANGED <<lines, reserves, paid, erpOrderId, holding, rowVars, publishing,
                   rebuild, job, dueReturn, reserved, erpVars, bounds>>

\* A payment is settled; a check policy starts or stops holding the order.
Pay ==
    /\ state = "open" /\ OrderLockFree
    /\ paid' = TRUE
    /\ UNCHANGED <<state, lines, reserve, reserves, erpStatus, erpOrderId,
                   cancelRequest, holding, rowVars, publishing, rebuild, job, dueReturn,
                   reserved, erpVars, bounds>>
HoldChanges ==
    /\ holding' = ~holding
    /\ UNCHANGED <<state, lines, reserve, reserves, paid, erpStatus, erpOrderId,
                   cancelRequest, rowVars, publishing, rebuild, job, dueReturn, reserved,
                   erpVars, bounds>>

-----------------------------------------------------------------------------
Reservations ==
    \/ \E trigger \in {"auto", "manual"} : Reserve(trigger)
    \/ ConfirmByStaff \/ ReleaseReservations \/ ReturnToConfirmationQueue
Enqueues ==
    \/ \E r \in Row : EnqueueConfirmed(r) \/ EnqueueUnbuildable(r)
    \/ LoseReservedEvent \/ Reconcile
Publishes == \E r \in Row : \/ PublishBegin(r) \/ PublishSend(r) \/ PublishCommit(r)
                            \/ PublishFail(r) \/ PublishLost(r) \/ RequeueFailed(r)
Rebuilds ==
    \/ \E b \in Rebuilder, r \in Row : RebuildBegin(b, r) \/ RebuildInsert(b, r)
    \/ \E r \in Row : Rebuilder # {} /\ RebuildAlreadySent(r)
    \/ \E b \in Rebuilder : \/ RebuildReadOrder(b) \/ RebuildReadReservation(b)
                            \/ RebuildFail(b)
Withdrawals ==
    \/ \E r \in Row : \/ \E how \in CancelCause : Cancel(how, r)
                      \/ SkipAndCancel(r)
    \/ EditLines \/ SkipAndEdit
Reports ==
    \/ \E r \in Row : RegistrationResult(r) \/ CancelResult(r)
    \/ \E s \in {"submitted", "rejected"} : UpdateStatus(s)
    \/ OrderChanged \/ Pay \/ HoldChanges

Next == Reservations \/ Enqueues \/ Publishes \/ Rebuilds \/ Withdrawals \/ Reports

Spec == Init /\ [][Next]_vars

\* The listener, the outbox sweep and the held-send sweep are scheduled forever.
Fairness ==
    /\ WF_vars(\E r \in Row : EnqueueConfirmed(r)) /\ WF_vars(Reconcile)
    /\ \A r \in Row : WF_vars(PublishBegin(r)) /\ SF_vars(PublishSend(r))
                      /\ WF_vars(PublishCommit(r)) /\ WF_vars(RebuildAlreadySent(r))
    /\ WF_vars(\E r \in Row : SkipAndCancel(r)) /\ WF_vars(SkipAndEdit)
    /\ \A r \in Row : SF_vars(Sweeps(r) /\ \E b \in Rebuilder : RebuildBegin(b, r))
    /\ \A b \in Rebuilder : /\ SF_vars(RebuildReadOrder(b))
                            /\ SF_vars(RebuildReadReservation(b))
                            /\ SF_vars(\E r \in Row : RebuildInsert(b, r))
FairSpec == Spec /\ Fairness

-----------------------------------------------------------------------------
(* Properties *)

\* An order that was cancelled here does not live on in the ERP unasked: if the
\* ERP holds a submission it did not reject, a cancel-requested was recorded, or
\* the cancellation is the ERP's own (docs/order-contracts.md, the reserve
\* deadline; OrderCancellationService.cancel).
CancelIsTold ==
    state = "cancelled" /\ (\E r \in Row : Submitted(r)) =>
        \/ cancelRequest = "CANCELLED"
        \/ RowsOf("cancel-requested", {"pending", "failed", "published"}) # {}

\* Once the order is cancelled no unsent order.confirmed is left waiting, so that
\* none can be sent late (skipWaitingConfirmed, docs/order-contracts.md).
NothingSentAfterCancel ==
    state = "cancelled" => RowsOf("confirmed", {"pending", "failed"}) \subseteq delivered

\* One submission per order unless the ERP rejected the previous one: no two
\* rows are on their way to the ERP or there, whatever enqueues and rebuilds race
\* (OrderSubmittedBuilder.wasAlreadySubmitted, isAlreadySent).
OneSubmission ==
    \A r, s \in RowsOf("confirmed", {"pending", "published"}) :
        answer[r] # "rejected" /\ answer[s] # "rejected" => r = s

\* A hold can never block the send for good, whatever rebuilds fail meanwhile: an
\* order that stays reserved, open and not held gets its order.confirmed to the
\* ERP (OrderSubmittedListener, HeldSendRedriveService).
SendIsOwed == reserve # "none" /\ state = "open" /\ ~holding
OwedSendIsSent ==
    <>[]SendIsOwed => <>(\E r \in delivered : kind[r] = "confirmed")
=============================================================================
