------------------------------- MODULE Inbox -------------------------------
(***************************************************************************)
(* The ERP integration inbox (packages/plugins/erp-integration): one row   *)
(* of integration_inbox_event per Kafka message, claimed in batches by the *)
(* scheduled workers, applied by a stream handler and settled; dead        *)
(* letters are replayed or dismissed by an operator.  One inbound stream.  *)
(***************************************************************************)
EXTENDS Naturals

CONSTANTS
    Event,          \* sourceEventIds: the dedup key, so also the rows
    Entity,         \* ERP entities of the stream
    Worker,         \* concurrent runs of processPendingBatch
    Operator,       \* concurrent replay requests from the dashboard
    EntityOf,       \* entity_id of an event's payload
    VersionOf,      \* its version, ordered by isVersionNewer
    MaxVersion,     \* bound of the versions
    Rejected,       \* messages the consumer dead-letters on arrival
    Undecodable,    \* the rejected ones without an entity id to replay
    BatchCapable,   \* does the stream's handler implement applyBatch?
    MaxCrashes,     \* bound of the worker crashes
    NoWorker, NoEvent

ASSUME InboxAssumption ==
    /\ EntityOf \in [Event -> Entity]
    /\ MaxVersion \in Nat
    /\ VersionOf \in [Event -> 0..MaxVersion]
    /\ Undecodable \subseteq Rejected /\ Rejected \subseteq Event
    /\ \A e \in Rejected : VersionOf[e] = 0      \* the row's version is ''
    /\ BatchCapable \in BOOLEAN
    /\ MaxCrashes \in Nat
    /\ NoWorker \notin Worker
    /\ NoEvent \notin Event

VARIABLES
    status,     \* the row's status, "absent" before the insert
    holder,     \* claim_token: the worker whose claim the row carries
    stale,      \* processing for longer than STUCK_PROCESSING_THRESHOLD_MS
    budget,     \* the 24 h retry budget that starts at first_failed_at
    outcome,    \* the row's outcome column
    createdAt, askedAt,   \* created_at and replay_requested_at (0: NULL)
    clock,      \* database time, one tick per insert
    applied,    \* per entity, the version its handler wrote last
    lock,       \* the advisory lock inbox-entity:<stream>:<entity>
    pc,         \* where the worker is in processPendingBatch
    work,       \* its claimed rows not yet settled or released
    cur,        \* the row its open row transaction is about
    fresh,      \* rows its open transaction found not superseded
    failing,    \* rows whose failure it has yet to record
    error,      \* the class of that failure
    asking,     \* per operator, the row its replay call is about
    crashes

rowVars == <<status, holder, stale, budget, outcome, createdAt, askedAt, clock>>
workVars == <<pc, work, cur, fresh, failing, error>>
vars == <<rowVars, applied, lock, workVars, asking, crashes>>

Status == {"absent", "pending", "processing", "processed", "failed",
           "dependency_missing", "replay_requested", "resolved"}
Outcome == {"none", "applied", "noop", "superseded", "dismissed"}
Error == {"retryable", "nonRetryable", "missingReference", "unknownOrder"}

TypeOK ==
    /\ status \in [Event -> Status]
    /\ holder \in [Event -> Worker \cup {NoWorker}]
    /\ stale \in [Event -> BOOLEAN]
    /\ budget \in [Event -> {"unused", "running", "spent"}]
    /\ outcome \in [Event -> Outcome]
    /\ createdAt \in [Event -> Nat] /\ askedAt \in [Event -> Nat] /\ clock \in Nat
    /\ applied \in [Entity -> Nat]
    /\ lock \in [Entity -> Worker \cup {NoWorker}]
    /\ pc \in [Worker -> {"idle", "batch", "batchTx", "rows", "rowTx", "failing"}]
    /\ work \in [Worker -> SUBSET Event]
    /\ cur \in [Worker -> Event \cup {NoEvent}]
    /\ fresh \in [Worker -> SUBSET Event]
    /\ failing \in [Worker -> SUBSET Event]
    /\ error \in [Worker -> Error]
    /\ asking \in [Operator -> Event \cup {NoEvent}]
    /\ crashes \in 0..MaxCrashes

Init ==
    /\ status = [e \in Event |-> "absent"]
    /\ holder = [e \in Event |-> NoWorker]
    /\ stale = [e \in Event |-> FALSE]
    /\ budget = [e \in Event |-> "unused"]
    /\ outcome = [e \in Event |-> "none"]
    /\ createdAt = [e \in Event |-> 0] /\ askedAt = [e \in Event |-> 0] /\ clock = 0
    /\ applied = [a \in Entity |-> 0]
    /\ lock = [a \in Entity |-> NoWorker]
    /\ pc = [w \in Worker |-> "idle"]
    /\ work = [w \in Worker |-> {}]
    /\ cur = [w \in Worker |-> NoEvent]
    /\ fresh = [w \in Worker |-> {}]
    /\ failing = [w \in Worker |-> {}]
    /\ error = [w \in Worker |-> "retryable"]
    /\ asking = [o \in Operator |-> NoEvent]
    /\ crashes = 0

SameEntity(e, f) == EntityOf[e] = EntityOf[f]
EntitiesOf(S) == {EntityOf[e] : e \in S}

-----------------------------------------------------------------------------
(* Arrival: the Kafka consumer *)

InsertOrReset(e, s) ==
    /\ status' = [status EXCEPT ![e] = s]
    /\ clock' = clock + 1
    /\ createdAt' = [createdAt EXCEPT ![e] = clock + 1]
Insert(e, s) ==
    /\ status[e] = "absent"
    /\ status' = [status EXCEPT ![e] = s]
    /\ clock' = clock + 1
    /\ createdAt' = [createdAt EXCEPT ![e] = clock + 1]

\* A redelivery finds the row by its sourceEventId and changes nothing.
Enqueue(e) ==
    /\ e \notin Rejected
    /\ Insert(e, "pending")
    /\ UNCHANGED <<holder, stale, budget, outcome, askedAt, applied, lock,
                   workVars, asking, crashes>>

\* insertRejectedInboxRow dead-letters the message, its firstFailedAt set at once.
EnqueueRejected(e) ==
    /\ e \in Rejected
    /\ Insert(e, "failed")
    /\ budget' = [budget EXCEPT ![e] = "running"]
    /\ UNCHANGED <<holder, stale, outcome, askedAt, applied, lock, workVars,
                   asking, crashes>>

-----------------------------------------------------------------------------
(* Claiming *)

ClaimableNeverAgain(e) == status[e] \in {"pending", "dependency_missing"}
Claimable(e) ==
    \/ status[e] \in {"pending", "dependency_missing"}
    \/ status[e] = "processing" /\ stale[e]

\* One transaction claims due rows, fresh or abandoned, under a new token.
ClaimBatch(w, S) ==
    /\ pc[w] = "idle"
    /\ S # {} /\ \A e \in S : Claimable(e)
    /\ status' = [e \in Event |-> IF e \in S THEN "processing" ELSE status[e]]
    /\ holder' = [e \in Event |-> IF e \in S THEN w ELSE holder[e]]
    /\ stale' = [e \in Event |-> stale[e] /\ e \notin S]
    /\ work' = [work EXCEPT ![w] = S]
    /\ pc' = [pc EXCEPT ![w] = IF BatchCapable THEN "batch" ELSE "rows"]
    /\ UNCHANGED <<budget, outcome, createdAt, askedAt, clock, applied, lock, cur,
                   fresh, failing, error, asking, crashes>>

\* The token and status guard every settling statement carries.
HoldsAnyToken(w, e) == status[e] \in {"pending", "processing"}
Holds(w, e) == status[e] \in {"pending", "processing"} /\ holder[e] = w

\* The deadline passed: what was not reached goes back to pending.
ReleaseClaims(w) ==
    LET mine == {e \in work[w] : status[e] = "processing" /\ holder[e] = w} IN
    /\ pc[w] \in {"batch", "rows"}
    /\ status' = [e \in Event |-> IF e \in mine THEN "pending" ELSE status[e]]
    /\ holder' = [e \in Event |-> IF e \in mine THEN NoWorker ELSE holder[e]]
    /\ stale' = [e \in Event |-> stale[e] /\ e \notin mine]
    /\ work' = [work EXCEPT ![w] = {}]
    /\ pc' = [pc EXCEPT ![w] = "idle"]
    /\ UNCHANGED <<budget, outcome, createdAt, askedAt, clock, applied, lock,
                   cur, fresh, failing, error, asking, crashes>>

-----------------------------------------------------------------------------
(* Settling *)

\* The replay requests that a settled row of the same entity answers: those
\* made before the row arrived.
ReplaysOfAnyAge(S) ==
    {r \in Event : status[r] = "replay_requested" /\ \E d \in S : SameEntity(r, d)}
ReplaysAskedBefore(S) ==
    {r \in Event : /\ status[r] = "replay_requested"
                   /\ \E d \in S : SameEntity(r, d) /\ askedAt[r] < createdAt[d]}
ReplaysAnsweredBy(S) ==
    {r \in Event : /\ status[r] = "replay_requested"
                   /\ \E d \in S : SameEntity(r, d) /\ askedAt[r] <= createdAt[d]}

\* settleProcessed, one statement: mark the rows of S, resolve the requests they answer.
SettleProcessed(S, out) ==
    /\ status' = [e \in Event |-> IF e \in S THEN "processed"
                                  ELSE IF e \in ReplaysAnsweredBy(S) THEN "resolved"
                                  ELSE status[e]]
    /\ outcome' = [e \in Event |-> IF e \in S THEN out[e] ELSE outcome[e]]
    /\ holder' = [e \in Event |-> IF e \in S THEN NoWorker ELSE holder[e]]
    /\ stale' = [e \in Event |-> stale[e] /\ e \notin S]

\* The decision of settleFailed: the status a failed row moves to.
AfterFailureOutcome(e, err) ==
    IF err = "unknownOrder" /\ budget[e] = "spent" THEN "noop" ELSE "pending"
AfterFailure(e, err) ==
    CASE err = "nonRetryable" -> "failed"
      [] err # "nonRetryable" /\ budget[e] # "spent" -> "pending"
      [] err = "unknownOrder" /\ budget[e] = "spent" -> "processed"
      [] err = "missingReference" /\ budget[e] = "spent" -> "dependency_missing"
      [] err = "retryable" /\ budget[e] = "spent" -> "failed"

\* settleFailed under the row lock: retry later, park, drop as a noop or dead-letter.
SettleFailed(e, err) ==
    LET next == AfterFailure(e, err)
        asked == IF next = "failed" THEN ReplaysAnsweredBy({e}) ELSE {}
    IN  /\ IF next = "processed"
              THEN SettleProcessed({e}, [f \in {e} |-> "noop"]) /\ UNCHANGED askedAt
              ELSE /\ status' = [f \in Event |-> IF f = e THEN next
                                                 ELSE IF f \in asked THEN "failed"
                                                 ELSE status[f]]
                   /\ askedAt' = [f \in Event |-> IF f \in asked THEN 0 ELSE askedAt[f]]
                   /\ holder' = [holder EXCEPT ![e] = NoWorker]
                   /\ stale' = [stale EXCEPT ![e] = FALSE]
                   /\ UNCHANGED outcome
        /\ budget' = [budget EXCEPT ![e] = IF @ = "unused" THEN "running" ELSE @]

-----------------------------------------------------------------------------
(* Applying: one transaction for the batch, or one per row *)

\* isSupersededByNewerVersion: a processed row of any outcome counts.
NeverSuperseded(e) == FALSE
Superseded(e) ==
    \E f \in Event : /\ SameEntity(e, f) /\ status[f] = "processed"
                     /\ VersionOf[f] > VersionOf[e]

AlwaysFree(a) == TRUE
EntityFree(a) == lock[a] = NoWorker

Locked(w, S) ==
    [a \in Entity |-> IF BatchCapable /\ a \in EntitiesOf(S) THEN w ELSE lock[a]]
Unlocked(w) == [a \in Entity |-> IF lock[a] = w THEN NoWorker ELSE lock[a]]

\* The batch transaction takes its entity locks, then reads the processed versions.
BatchBegin(w) ==
    /\ pc[w] = "batch"
    /\ \A a \in EntitiesOf(work[w]) : EntityFree(a)
    /\ lock' = Locked(w, work[w])
    /\ fresh' = [fresh EXCEPT ![w] = {e \in work[w] : ~Superseded(e)}]
    /\ pc' = [pc EXCEPT ![w] = "batchTx"]
    /\ UNCHANGED <<rowVars, applied, work, cur, failing, error, asking, crashes>>

\* The rows the handler applied, in version order: the last one written stays.
LastOf(S) == CHOOSE e \in S : \A f \in S : VersionOf[f] <= VersionOf[e]
Write(S) ==
    applied' = [a \in Entity |->
        LET mine == {e \in S : EntityOf[e] = a}
        IN  IF mine = {} THEN applied[a] ELSE VersionOf[LastOf(mine)]]

\* The handler applied, skipped or refused each fresh row; all marks must still
\* be ours.  The refused rows are failed after the commit.
BatchCommit(w, noop, invalid) ==
    LET marks == work[w] \ invalid IN
    /\ pc[w] = "batchTx"
    /\ noop \subseteq fresh[w] /\ invalid \subseteq fresh[w] \ noop
    /\ \A e \in marks : Holds(w, e)
    /\ Write(fresh[w] \ (noop \cup invalid))
    /\ SettleProcessed(marks, [e \in marks |-> IF e \notin fresh[w] THEN "superseded"
                                               ELSE IF e \in noop THEN "noop"
                                               ELSE "applied"])
    /\ lock' = Unlocked(w)
    /\ work' = [work EXCEPT ![w] = invalid]
    /\ failing' = [failing EXCEPT ![w] = invalid]
    /\ error' = [error EXCEPT ![w] = IF invalid = {} THEN @ ELSE "nonRetryable"]
    /\ fresh' = [fresh EXCEPT ![w] = {}]
    /\ pc' = [pc EXCEPT ![w] = IF invalid = {} THEN "idle" ELSE "failing"]
    /\ UNCHANGED <<budget, createdAt, askedAt, clock, cur, asking, crashes>>

\* The handler threw or a claim was lost: roll back and go row by row.
BatchRollback(w) ==
    /\ pc[w] = "batchTx"
    /\ lock' = Unlocked(w)
    /\ fresh' = [fresh EXCEPT ![w] = {}]
    /\ pc' = [pc EXCEPT ![w] = "rows"]
    /\ UNCHANGED <<rowVars, applied, work, cur, failing, error, asking, crashes>>

\* processOne opens the row's transaction: lock (batch-capable streams only), then
\* the version check.  Rows come in version order.
RowBegin(w, e) ==
    /\ pc[w] = "rows"
    /\ e \in work[w]
    /\ \A f \in work[w] : SameEntity(e, f) => VersionOf[e] <= VersionOf[f]
    /\ BatchCapable => EntityFree(EntityOf[e])
    /\ lock' = Locked(w, {e})
    /\ cur' = [cur EXCEPT ![w] = e]
    /\ fresh' = [fresh EXCEPT ![w] = IF Superseded(e) THEN {} ELSE {e}]
    /\ pc' = [pc EXCEPT ![w] = "rowTx"]
    /\ UNCHANGED <<rowVars, applied, work, failing, error, asking, crashes>>

AfterRow(w, rest) == IF rest = {} THEN "idle" ELSE "rows"

\* The transaction commits.  The mark is silently skipped when the claim is lost;
\* what the handler wrote is committed all the same.
RowCommit(w, noop) ==
    LET e == cur[w]
        out == IF e \notin fresh[w] THEN "superseded" ELSE IF noop THEN "noop" ELSE "applied"
        rest == work[w] \ {e}
    IN  /\ pc[w] = "rowTx"
        /\ Write(IF out = "applied" THEN {e} ELSE {})
        /\ IF Holds(w, e)
              THEN SettleProcessed({e}, [f \in {e} |-> out])
              ELSE UNCHANGED <<status, outcome, holder, stale>>
        /\ lock' = Unlocked(w)
        /\ cur' = [cur EXCEPT ![w] = NoEvent]
        /\ fresh' = [fresh EXCEPT ![w] = {}]
        /\ work' = [work EXCEPT ![w] = rest]
        /\ pc' = [pc EXCEPT ![w] = AfterRow(w, rest)]
        /\ UNCHANGED <<budget, createdAt, askedAt, clock, failing, error, asking, crashes>>

\* The handler threw: the transaction rolls back, the failure is recorded by another.
RowRollback(w, err) ==
    /\ pc[w] = "rowTx"
    /\ cur[w] \in fresh[w] \/ err = "retryable"
    /\ lock' = Unlocked(w)
    /\ failing' = [failing EXCEPT ![w] = {cur[w]}]
    /\ error' = [error EXCEPT ![w] = err]
    /\ cur' = [cur EXCEPT ![w] = NoEvent]
    /\ fresh' = [fresh EXCEPT ![w] = {}]
    /\ pc' = [pc EXCEPT ![w] = "failing"]
    /\ UNCHANGED <<rowVars, applied, work, asking, crashes>>

MarkFailed(w, e) ==
    LET left == failing[w] \ {e}
        rest == work[w] \ {e}
    IN  /\ pc[w] = "failing" /\ e \in failing[w]
        /\ IF Holds(w, e)
              THEN SettleFailed(e, error[w])
              ELSE UNCHANGED <<status, outcome, holder, stale, askedAt, budget>>
        /\ failing' = [failing EXCEPT ![w] = left]
        /\ work' = [work EXCEPT ![w] = rest]
        /\ pc' = [pc EXCEPT ![w] = IF left # {} THEN "failing" ELSE AfterRow(w, rest)]
        /\ error' = [error EXCEPT ![w] = IF left # {} THEN @ ELSE "retryable"]
        /\ UNCHANGED <<createdAt, clock, applied, lock, cur, fresh, asking, crashes>>

\* The process dies: its transaction rolls back, its claims stay on the rows.
Crash(w) ==
    /\ pc[w] # "idle" /\ crashes < MaxCrashes
    /\ crashes' = crashes + 1
    /\ lock' = Unlocked(w)
    /\ pc' = [pc EXCEPT ![w] = "idle"]
    /\ work' = [work EXCEPT ![w] = {}]
    /\ cur' = [cur EXCEPT ![w] = NoEvent]
    /\ fresh' = [fresh EXCEPT ![w] = {}]
    /\ failing' = [failing EXCEPT ![w] = {}]
    /\ error' = [error EXCEPT ![w] = "retryable"]
    /\ UNCHANGED <<rowVars, applied, asking>>

-----------------------------------------------------------------------------
(* Time *)

ClaimGoesStale(e) ==
    /\ status[e] = "processing" /\ ~stale[e]
    /\ stale' = [stale EXCEPT ![e] = TRUE]
    /\ UNCHANGED <<status, holder, budget, outcome, createdAt, askedAt, clock, applied,
                   lock, workVars, asking, crashes>>

\* (of a row still being retried: nothing reads the budget of a settled one)
BudgetRunsOut(e) ==
    /\ budget[e] = "running"
    /\ status[e] \in {"pending", "processing", "dependency_missing"}
    /\ budget' = [budget EXCEPT ![e] = "spent"]
    /\ UNCHANGED <<status, holder, stale, outcome, createdAt, askedAt, clock, applied,
                   lock, workVars, asking, crashes>>

-----------------------------------------------------------------------------
(* Dead letters: dismissal and the replay lifecycle *)

DismissFailed(e) ==
    /\ status[e] = "failed"
    /\ status' = [status EXCEPT ![e] = "processed"]
    /\ outcome' = [outcome EXCEPT ![e] = "dismissed"]
    /\ UNCHANGED <<holder, stale, budget, createdAt, askedAt, clock, applied, lock,
                   workVars, asking, crashes>>

\* claimForReplay, then the call to the Integration Service.
ReplayFailed(o, e) ==
    /\ asking[o] = NoEvent
    /\ status[e] = "failed" /\ e \notin Undecodable
    /\ status' = [status EXCEPT ![e] = "replay_requested"]
    /\ askedAt' = [askedAt EXCEPT ![e] = clock + 1]
    /\ asking' = [asking EXCEPT ![o] = e]
    /\ UNCHANGED <<holder, stale, budget, outcome, createdAt, clock, applied, lock,
                   workVars, crashes>>

\* The call was accepted, or the server died before it was answered.
ReplayAccepted(o) ==
    /\ asking[o] # NoEvent
    /\ asking' = [asking EXCEPT ![o] = NoEvent]
    /\ UNCHANGED <<rowVars, applied, lock, workVars, crashes>>

\* Refused, unknown or timed out: releaseClaim, unless something closed the row.
ReplayRefused(o) ==
    LET r == asking[o] IN
    /\ r # NoEvent
    /\ asking' = [asking EXCEPT ![o] = NoEvent]
    /\ IF status[r] = "replay_requested"
          THEN /\ status' = [status EXCEPT ![r] = "failed"]
               /\ askedAt' = [askedAt EXCEPT ![r] = 0]
          ELSE UNCHANGED <<status, askedAt>>
    /\ UNCHANGED <<holder, stale, budget, outcome, createdAt, clock, applied, lock,
                   workVars, crashes>>

InFlightOrParked == {"pending", "processing", "dependency_missing"}
InFlight == {"pending", "processing"}
ArrivedSince(r) == {n \in Event : SameEntity(n, r) /\ createdAt[n] >= askedAt[r]}

\* The sweep: the replayed event failed, or the wait timed out with none in flight.
ExpireStale(r) ==
    /\ status[r] = "replay_requested"
    /\ \/ \E n \in ArrivedSince(r) : status[n] = "failed"
       \/ \A n \in ArrivedSince(r) : status[n] \notin InFlight
    /\ status' = [status EXCEPT ![r] = "failed"]
    /\ askedAt' = [askedAt EXCEPT ![r] = 0]
    /\ UNCHANGED <<holder, stale, budget, outcome, createdAt, clock, applied, lock,
                   workVars, asking, crashes>>

-----------------------------------------------------------------------------

WorkerNext(w) ==
    \/ \E S \in SUBSET Event : ClaimBatch(w, S)
    \/ ReleaseClaims(w)
    \/ BatchBegin(w)
    \/ \E noop, invalid \in SUBSET Event : BatchCommit(w, noop, invalid)
    \/ BatchRollback(w)
    \/ \E e \in Event : RowBegin(w, e)
    \/ \E noop \in BOOLEAN : RowCommit(w, noop)
    \/ \E err \in Error : RowRollback(w, err)
    \/ \E e \in Event : MarkFailed(w, e)
    \/ Crash(w)

Next ==
    \/ \E e \in Event : Enqueue(e) \/ EnqueueRejected(e)
    \/ \E w \in Worker : WorkerNext(w)
    \/ \E e \in Event : ClaimGoesStale(e) \/ BudgetRunsOut(e)
    \/ \E e \in Event : DismissFailed(e) \/ ExpireStale(e)
    \/ \E o \in Operator, e \in Event : ReplayFailed(o, e)
    \/ \E o \in Operator : ReplayAccepted(o) \/ ReplayRefused(o)

Spec == Init /\ [][Next]_vars

\* The scheduler ticks forever and the claim query is first come first served, so a
\* row that is due again and again is claimed, and one whose worker has time left is
\* reached; a transaction ends; wall-clock waits elapse; the sweep meets every state
\* that lasts for its interval (a parked row waits longer than that between tries).
Fairness ==
    /\ \A e \in Event :
          /\ SF_vars(\E w \in Worker, S \in SUBSET Event : e \in S /\ ClaimBatch(w, S))
          /\ SF_vars(\E w \in Worker : RowBegin(w, e))
          /\ WF_vars(\E w \in Worker : MarkFailed(w, e))
          /\ WF_vars(ClaimGoesStale(e))
          /\ WF_vars(BudgetRunsOut(e))
          /\ SF_vars(ExpireStale(e))
    /\ \A w \in Worker :
          /\ WF_vars(BatchBegin(w))
          /\ WF_vars(BatchRollback(w) \/ \E noop, invalid \in SUBSET Event :
                                            BatchCommit(w, noop, invalid))
          /\ WF_vars(\/ \E noop \in BOOLEAN : RowCommit(w, noop)
                     \/ \E err \in Error : RowRollback(w, err))

FairSpec == Spec /\ Fairness

-----------------------------------------------------------------------------
(* Properties *)

AppliedRows == {e \in Event : status[e] = "processed" /\ outcome[e] = "applied"}

\* Whatever the arrival order, the reclaims and the crashes, what an entity's handler
\* wrote last is never older than a version recorded as applied
\* (the version check of applyAndSettle and applyInboxBatch).
StateCoversProcessed ==
    \A e \in AppliedRows : applied[EntityOf[e]] >= VersionOf[e]

\* A claimed row leaves 'processing' only by the hand of the run that holds its claim:
\* a worker that was reclaimed from cannot overwrite the new claimant's row.
OnlyHolderSettles ==
    [][\A e \in Event : status[e] = "processing" /\ status'[e] # "processing" =>
           holder[e] \in Worker /\ e \in work[holder[e]] /\ e \notin work'[holder[e]]]_vars

\* A settled row is never reopened nor given another outcome.
SettledForGood ==
    [][\A e \in Event : status[e] \in {"processed", "resolved"} =>
           status'[e] = status[e] /\ outcome'[e] = outcome[e]]_vars

\* A dead letter counts as resolved only if an event of its entity that arrived after
\* the replay was asked for has been processed.
ResolvedByReplayedEvent ==
    \A r \in Event : status[r] = "resolved" =>
        \E n \in Event : /\ SameEntity(n, r) /\ status[n] = "processed"
                         /\ askedAt[r] <= createdAt[n]

\* Once the replayed event is settled by a worker, the dead letter stops waiting for it.
AnsweredReplayIsClosed ==
    \A r, n \in Event :
        /\ status[r] = "replay_requested" /\ SameEntity(n, r)
        /\ status[n] = "processed" /\ outcome[n] # "dismissed"
        => createdAt[n] < askedAt[r]

\* The facts that make StateCoversProcessed inductive.
\* A run fails, applies and marks rows of its own batch only...
OwnWork ==
    \A w \in Worker :
        /\ failing[w] \subseteq work[w] /\ fresh[w] \subseteq work[w]
        /\ pc[w] = "rowTx" => cur[w] \in work[w] /\ fresh[w] \subseteq {cur[w]}
        /\ fresh[w] # {} => pc[w] \in {"batchTx", "rowTx"}
        /\ failing[w] # {} => pc[w] = "failing"
\* ... it holds the advisory lock of every entity its open transaction is about...
LocksHeld ==
    BatchCapable => \A w \in Worker :
        /\ pc[w] = "batchTx" => \A e \in work[w] : lock[EntityOf[e]] = w
        /\ pc[w] = "rowTx" => lock[EntityOf[cur[w]]] = w
\* ... so what it read of the processed versions is still true when it commits.
FreshIsNewest ==
    \A w \in Worker : \A e \in fresh[w], f \in AppliedRows :
        SameEntity(e, f) => VersionOf[f] <= VersionOf[e]
CoverInv == OwnWork /\ LocksHeld /\ FreshIsNewest /\ StateCoversProcessed

\* Of two versions of an entity, a handler never writes the lower over the higher.
NeverRegress ==
    [][\A a \in Entity : applied'[a] >= applied[a]]_vars

\* Every row that is due reaches an outcome, a dead letter or the parked state, even
\* if its handler keeps failing and its workers crash.
EveryRowSettles ==
    \A e \in Event : status[e] = "pending" ~>
                     status[e] \in {"processed", "failed", "dependency_missing"}

\* A replay request is always answered in the end: resolved or failed again.
EveryReplayEnds ==
    \A r \in Event : status[r] = "replay_requested" ~> status[r] \in {"resolved", "failed"}

=============================================================================
