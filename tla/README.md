# mivend: TLA+ models

mivend is a B2B shop on Vendure (NestJS, TypeORM, PostgreSQL) that lives next to an ERP.
Orders are taken in mivend, registered in the ERP over Kafka and changed by it; products,
prices, stock, contracts and order results come back over Kafka. Several instances (a central
one and branch replicas) exchange orders and payments over RabbitMQ. The core logic sits in
`packages/plugins/*/src`; each plugin is a set of services on one shared database, woken by
HTTP calls, scheduled tasks, the in-process event bus and message consumers.

This directory holds TLA+ modules of the parts whose correctness depends on interleavings,
crashes and retries, the TLC instances that check them, and proofs checked by TLAPS.

| file | contents |
|---|---|
| `Inbox.tla`, `MCInbox.tla`, `MCInbox_*.cfg`, `InboxProofs.tla` | rows of the ERP integration inbox, from arrival to outcome |
| `KafkaConsumer.tla`, `KafkaConsumer.cfg`, `KafkaProofs.tla` | the life of the Kafka consumer that feeds the inbox |
| `Checks.tla`, `MCChecks.tla`, `MCChecks_*.cfg`, `ChecksProofs.tla` | check results, policies and durable stale requests |
| `Stock.tla`, `MCStock.tla`, `MCStock_reserve.cfg`, `StockProofs.tla` | the stock a reservation holds, and its hand-over to the ERP |
| `Submission.tla`, `MCSubmission.tla`, `MCSubmission_*.cfg`, `SubmissionProofs.tla` | one order on its way to the ERP and back |
| `PaymentLedger.tla` | what the acquiring plugin promises of a counterparty's money (abstract) |
| `Payments.tla`, `MCPayments.tla`, `MCPayments_ledger.cfg`, `PaymentsProofs.tla` | its transactions: attempts, allocation, documents, cancels (detailed) |
| `Sync.tla`, `MCSync.tla`, `MCSync_replica.cfg`, `SyncProofs.tla` | one order and its payments between two instances |
| `Sums.tla` | facts about sums over finite sets, for the proofs of `Stock` and `Payments` |
| `PROJECT.json` | components, runs, mutants, the map to source lines, hazards, findings, theorems |

Run with `tlc -workers 2 -config MCInbox_batch.cfg MCInbox` and so on; `tlapm InboxProofs.tla`
checks proofs (some minutes from nothing).

## Inventory

Paths are below `src/packages/plugins/` unless they say otherwise. "Modelled" means that every
operation that changes the component's state is an action; "partly" that the core is, and the
component's note in `PROJECT.json` names what is left out.

**ERP integration inbox** (modelled: `Inbox`; `erp-integration/src/integration-inbox*.ts`).
State: one row per message in `integration_inbox` (status, outcome, version, claim token, retry
data, replay request). Operations: enqueue from a consumer, claim a batch (`FOR UPDATE SKIP
LOCKED`, plus rows whose claim is stale), apply by batch or row by row, settle (processed /
failed / parked / back to pending), dismiss a dead letter, ask the source for a replay, time a
replay out. Interacts with the Kafka consumers (insert), the stream handlers (apply) and the
operators of the dashboard. Hard: overlapping runs of a lane, reclaimed claims, crashes between
the claim and the outcome, versions out of order, a replay answered by an event that is already
queued. Correct if: the state of an entity covers every version recorded as applied; only the
holder of a claim settles its row; a settled row stays settled; a dead letter is resolved exactly
by an event that came after the request; every row and every replay ends.

**Kafka consumers** (partly: `KafkaConsumer`; `erp-integration/src/kafka-consumer.service.ts`).
State: the consumer object, `rebuilding`, `connected`, `destroyed`, the crash-retry timer with its
attempt counter, the stall watchdog, the promise of a restart by kafkajs. Operations: start, build
and run, the crash, stop and connect events of kafkajs, both timers, shutdown. Hard: the three
ways to build a new consumer share one flag, and events of a replaced consumer come late.
Correct if: one build at a time; a stopped consumer always has a timer or a build; it comes back.

**Check results, policies and stale requests** (partly: `Checks`; `checks/src`). State: stored
findings per subject with a stale flag, a global policy row and an optional branch override per
check, a durable request ("mark the results of this check stale") with version, claim token and
lease. Operations: run the checks of a subject, edit or reset a policy, drain requests page by
page with a heartbeat. Hard: a run in flight during an edit, drains that outlive their lease,
keyset paging over rows that change. Correct if: with no request pending, a finding that looks
fresh comes from the policy in force; a request is served in the end.

**Reservation of stock** (partly: `Stock`; `reservation/src/reservation.service.ts`,
`reservation-allocation.ts`, `reservation-expiry.service.ts`, `reservation-extension.service.ts`,
`reservation-write-off-sync.service.ts` and the stock stream). State: the stock levels, the reservation rows (quantity, location, generation,
status), `reservationState`, what the ERP says it holds. Operations: lock the levels, pick a
location per line, insert; release, cancel, extend, expire; return to the confirmation queue; hand
over in whole or in part. Hard: levels locked in the order of ids by orders whose lines are in
another order; an expiry that ends rows before it takes the order lock; a failure that is marked in
a second transaction. Correct if: no level is oversold; locks never cross; an order's active rows
are of one reservation and its state follows them; only what the ERP holds is handed over.

**Order reservation and cancellation** (partly: `Submission`; `reservation/src`) and **ERP
integration outbox** (partly: `Submission`; `erp-integration/src/outbound-gateway.ts`,
`integration-outbox*.ts`, `order-submitted*.ts`, `order-checks/`). State: the order (state, lines,
`erpStatus`, `erpOrderId`, `cancelRequestStatus`), its reservations, and the `integration_outbox`
rows of `order.confirmed` and `order.cancel-requested`. Operations: reserve, confirm, release,
expire; build and record the event; publish, retry, give up, requeue, rebuild; cancel; edit lines;
apply what the ERP answers. Interaction: the reservation's commit is followed by an event-bus
event whose listener records the outbox row in another transaction; a cancel reads and edits the
outbox through a port; the publisher holds only the row lock. Hard: all of these in any order, a
crash between the two commits, a rebuild that reads before it locks. Correct if: an order cancelled
here does not live on in the ERP unasked; nothing unsent of a cancelled order goes out; the ERP
gets at most one live submission; an order that may be sent is sent in the end.

**Payments, proforma invoices, settlement** (partly: `Payments`, `PaymentLedger`;
`acquiring/src`). State: payment attempts (one per channel and reference), proforma invoices and
their versions, the settlement ledger, reconciliation issues. Operations: pay (captured, pending,
failed), repeat a report, resolve a pending attempt, allocate first in first out over the
counterparty's open documents, withdraw a document, close the documents of a cancelled order, issue
on request and on a change of the lines. Hard: find-first plus a unique index, an allocation that
locks documents of other orders, a document that is superseded or cancelled between the scan and
the lock. Correct if: no document gets more than it asks; one current version per order; no
captured money disappears; a cancelled order keeps no money and nothing to pay.

**Instance sync over RabbitMQ** (partly: `Sync`; `sync/src`). State: the outbox, the queue, the
retry counters in memory, the dead-letter queue, processed events, the replica of the order.
Operations: record, publish, deliver, check, apply, mark, acknowledge, give back, dead-letter. Hard:
publish and mark in two steps, effect and mark in two transactions, order.created handled twice at
once, messages in another order than their events. Correct if: one replica per order; no event is
dropped without a trace; no message goes round forever.

Not modelled: see "Not modelled" below. `PROJECT.json` lists every component with its files.

The modules meet at these points: `KafkaConsumer` delivers what `Inbox.Enqueue` inserts; a row
applied by `Inbox` is, for the order streams, one of `Submission`'s and `Stock`'s answers of the ERP;
`Stock.Commit` is what `Submission.Reserve` takes as one step; `Payments`' close of an order runs in the
transaction of `Submission.Cancel`; the check policies of `Checks` decide the holds that
`Submission.HoldChanges` stands for. Each interface is the weakest the other side allows: answers come in any
order and at any time, a reservation may fail, a hold may change at any moment.

## How the modules correspond to the code

In all modules one action is one committed transaction, or one step of a transaction that other
processes can interleave with; PostgreSQL row locks and advisory locks (`withAggregateLock`) are
guards. `map` in `PROJECT.json` names the lines of every definition.

### Inbox

`Event` are the source messages, each with a fixed entity and version; a row is
`status`, `outcome`, `createdAt`, `holder` (the claim token, as the run that drew it), the retry
flags and the replay fields. `Worker` are runs of `processPendingBatch` (of lanes, of processes);
`pc`, `work`, `cur`, `fresh`, `failing` are the local variables of a run. `applied` is the
version a handler wrote last for an entity.

- `Enqueue`, `EnqueueRejected`: a consumer inserts a row; a redelivery of a known message changes
  nothing, which is stuttering.
- `ClaimBatch`, `ReleaseClaims`, `BatchBegin/Commit/Rollback`, `RowBegin/Commit/Rollback`,
  `MarkFailed`: the run, with a separate step wherever the code commits or reads what another
  run may change. `BatchCapable` says if the handler implements `applyBatch`; only then does the
  code take the entity lock.
- `Crash`, `ClaimGoesStale`, `BudgetRunsOut`: a dead process, five minutes, twenty-four hours.
- `DismissFailed`, `ReplayFailed`, `ReplayAccepted`, `ReplayRefused`, `ExpireStale`: the
  operator's and the sweep's side of dead letters.

Abstractions. `created_at` is the order of inserts. Elapsed times (five-minute claim, one-hour
replay wait, backoff, budget) are events that may happen at any time once they can. A handler is
the version it writes, an error class or a noop. `ReleaseClaims` is allowed in every lane
(the code does it in the bulk lane). An exception out of `markFailed` leaves the claims, as a
crash does. An operator asks about one row per call. Payload retention and the test-only methods
`markProcessedUnclaimed` and `markFailedUnclaimed` are left out.

### Checks

`Subject` 1..n in paging order, `Branch` those whose branch may have an override. The content of
a policy is the number of the edit that wrote it, so results of different policies differ.
A run (`RunBegin`, `ReadGlobal`, `ReadOverride`, `RunCommit`/`RunRollback`) holds share locks on
the policy rows it read; an edit (`UpdateGlobal`, `UpdateOverride`, `ResetOverride`) waits for
them and bumps the request in its own transaction. A drain is `Claim`, `Scan`, `MarkNext`,
`Heartbeat`, `Finish`, each a transaction, with `HandlerFails`, `DrainDies`,
`LeaseRunsOut`, `LeaseOverrun` around them. The claim token is the drain's identity.

Abstractions. One check code at one stage, so there is one request row; recipient-only edits
request nothing and are left out; ephemeral evaluation stores nothing; requests of product and
contract changes are a listed hazard, not an action. The policy edit is one step, at its commit.

### Submission

One order. `OrderLockFree` is the advisory lock `reserve-order:<id>`: actions that take it are one
step, except a cancel or an edit that has to wait for a publisher's row lock, which is two
(`Cancel`/`EditLines`, then `SkipAndCancel`/`SkipAndEdit`) with `job` as the held lock. What does
not take it is visible in the guards: the publisher (`PublishBegin/Send/Commit/Fail/Lost`, row
lock `publishing`), `RequeueFailed`, the first half of a rebuild (`RebuildBegin`,
`RebuildReadOrder`, `RebuildReadReservation`; `RebuildInsert` is under the lock),
`ReturnToConfirmationQueue` and `UpdateStatus`.

- `Reserve`, `ConfirmByStaff`, `ReleaseReservations`: an automatic reservation is refused while
  a policy holds the order, a manual one is staff's release of the hold.
- `EnqueueConfirmed` is the listener with gateway and builder: it records a waiting row or a
  skipped one with its reason. `EnqueueUnbuildable` is a gap in the data or a throw,
  `LoseReservedEvent` a crash before the listener, `Reconcile` the sweep that re-drives it.
- `Decide` is `decideCancellation` check by check; `Perform` what the service does about it.
- `RegistrationResult`, `CancelResult`, `OrderChanged` are the ERP's answers as the handlers
  apply them; `UpdateStatus` is the event-bus listener that writes `erpStatus` later.

Abstractions. The lines are a version counted by the edits. An order is `RESERVED` when it has
active reservations (one way in which the two can come apart is a listed hazard). Reservations
of all lines come and go together; a partial hand-over to the ERP keeps `reserve`. Every stage at
or past "warehouse started" is `"picking"`. The ERP's answers are any an ERP may give to a row it
got, once per row: repeated delivery is the inbox's business. The ten minutes the reconciler
waits are the guard that no reserved event is still in flight. Retry delays are nondeterminism.
The cancelled status event after a local cancel is left out, as no decision reads `erpStatus`
of a cancelled order. The proforma lock, voiding of payments, prepaid flags and notifications
are left out. `Pay` and `HoldChanges` stand for Vendure's settlement and for the outcome of the
order checks.

### KafkaConsumer

`phase` is what the consumer of the library really does, `connected` what the service reports;
the two differ, which is the point. `builders` counts the calls of `buildAndRun` in progress,
`rebuilding` is the service's flag for them. `Start`, `Fire` (the retry timer), `Watchdog` build;
`Connect`, `BuildFails`, `RunReturns` go on; `Stop`, `CrashRestarted`, `CrashForGood`, `Restarted`,
`RestartLost`, `LateStop` are what kafkajs does and tells; `Destroy` is the shutdown. A timer is a flag,
and a set timer fires some time later. `StartCrash` allows a crash with a promised restart while
`run()` has not returned; with it TLC finds a state without timer or build (see the known limits).

### Stock

Rows of one line, reservation and status are one record of quantities, so that a split by a
partial hand-over moves quantity from `active` to `handed`. `BeginReserve`, `LockLevel`, `Pick`,
`Commit` are `reserveOrder` with a step per level lock; `Shortfall`, `Abort`, `MarkFailed` its
failures, the last one in a transaction of its own as in the code. `Sweep` and `ReturnToQueue` are
the expiry, of which the second half (the rows by the cycle it saw, the state of the order) has no
order lock. `RegistrationResult` and `OrderChanged` hand over what the ERP reports per variant; variants it no
longer reports are dropped from its record unless a line was discarded (`Recorded`). `ReportStock` is the stock stream. The check of an
order's data fails a reservation the way a shortfall does.

### Payments

`Worker` are transactions that may run at once; `pc`, `job`, `todo`, `seen`, `pref`, `due`, `left`,
`put` are their local variables. One step per lock and per statement whose snapshot matters:
`LockOrder` (advisory), `LockRow` (a document is read again when its lock is granted),
`InsertCaptured`/`InsertOther`/`InsertLost` (the unique index makes an insert wait for an uncommitted
one of its reference), `Scan`, `PreferNamed`/`PreferHead`, `ReadPaid`, `AllotNext`, and a `Commit...` in
which the writes appear. `Fail` is any error, and PostgreSQL's deadlock detector when a circle of
waits exists. Withdrawal, cancel, request and edit share the lock steps. Left out: contract
documents (they take no payments), refunds and disputes (rows that change nothing here), the
reconciliation of a wrong organization or currency, the inbox that feeds reported payments in.

### Sync

The owner's events are on the in-memory bus, then in the outbox (`Produce`), then in the queue
(`Publish`, `PublishFails`, `PublishAgain` for a crash between the send and the mark,
`PublishUnconfirmed` for a message the broker never got). A handler goes through `Check`, `Apply`
(for `order.created`: `LockReplica`, `CreateReplica`), `Mark`, `Ack`; `MissReplica` and `Fail` give a
message back, `Crash` stops the process of one side, busy or idle: its handlers end, their messages
are delivered again and `retryCounts` is empty. Handlers of one process run concurrently and a
queue hands out its messages in any order.

## Runs

| run | result | distinct states | question |
|---|---|---|---|
| `inbox_batch` | pass | 0.75 M | two versions, two overlapping workers of a batch-capable stream, reclaims, a crash |
| `inbox_replay` | pass | 0.58 M | row path, one worker and its reclaiming successor, a dead letter, two operators; rows and replays end |
| `inbox_unlocked` | `NeverRegress` violated | | row path with two overlapping runs |
| `kafka_consumer` | pass | 165 | starts, crashes, stops, timers in every order; the consumer comes back |
| `checks_policy` | pass | 0.18 M | an edit, two drains, a fault and a lease overrun; the request is served |
| `checks_override` | `FreshMeansCurrent` violated | | the first override of a branch |
| `stock_reserve` | pass | 0.13 M | two orders with crossed variants, or one with the ERP's events |
| `submission_cancel` | pass | 0.14 M | one reservation cycle with failures, requeues, cancels, expiry, edits, rejections |
| `submission_resend` | pass | 0.67 M | two cycles with holds, a rebuild racing the listener, lost commits, fairness |
| `submission_rebuild` | `CancelIsTold` violated | | a rebuild races a cancel |
| `payments_ledger` | pass | 0.64 M | three jobs of two concurrent transactions on two orders; the ledger is implemented |
| `sync_replica` | pass | 1.35 M | an order, its cancel and two payments between two instances, with faults |

### Properties

- `Inbox`: `StateCoversProcessed`, `OnlyHolderSettles`, `SettledForGood`, `ResolvedByReplayedEvent`,
  `AnsweredReplayIsClosed`, `EveryRowSettles`, `EveryReplayEnds`.
- `KafkaConsumer`: `OneBuild`, `NeverUnwatched`, `ComesBack`.
- `Checks`: `FreshMeansCurrent`, `OneDrainPerRequest` (which excuses only drains whose lease ran
  out under them), `RequestIsServed`.
- `Stock`: `StateFollowsRows`, `OneReservationHolds`, `NoMutualWait`, `NeverOversold` (what active
  rows hold grows only within the free stock), `HandedOnlyHeld` (what is handed over of a
  reservation is within what the ERP says it holds, or a warehouse order has taken it).
- `Submission`: `CancelIsTold`, `NothingSentAfterCancel`, `OneSubmission`, `OwedSendIsSent`.
- `Payments`: `NeverOverpaid`, `PaidMeansCovered`, `OneCurrentVersion`, `NoMoneyIgnored`,
  `CancelledOrderIsClosed`, `DeadlockNeedsDisorder` (in every circle of waits a transaction locks
  documents out of the order of their creation or waits for an insert of its reference; a
  withdrawal is in none, a cancel in none with one other alone), `FinalStaysFinal`,
  `ImplementsLedger`.
- `Sync`: `OneReplica`, `NothingDropped`, `EveryMessageEnds`.

Each module has one type invariant besides. Each property of a passing run has a mutant in
`PROJECT.json`: a small change of the modelled code, kept as an operator next to the right one,
with which TLC finds the property violated.

### Refinement

`Payments` implements `PaymentLedger`, the ledger without attempts, transactions or locks: a payment
is captured once, and in one step its whole amount is laid on open documents, on none beyond what
it still asks, or becomes the counterparty's advance; closing an order moves what lies on its documents to
the advance. The mapping (`Ledger` in `Payments`) takes the price of a document from its row and the
captured amount of a payment from its attempt; `laid`, `lifted` and `advance` are the ledger's own.
Scans, locks, repeats and aborts map to stutters, `CommitCapture` to `CapturePayment`,
`CommitCancel` to `CloseDocuments`, `CommitIssue` to `IssueDocument`. `payments_ledger` checks
`ImplementsLedger == Ledger!LedgerSpec` on the instance; `LedgerIsImplemented` proves it for all.

### Bounds

- `Inbox`: the properties relate two rows of one entity, so two versions and one dead letter are
  the cases; two workers overlap, and a third would only repeat what the second does. A crash
  bound of one lets a claim be left and taken over.
- `KafkaConsumer`: `MaxAttempt` = 7 is the attempt from which the code's delay no longer grows; the
  run is otherwise unbounded. `StartCrash` is FALSE.
- `Checks`: two subjects, one of them in a branch, with pages of one give a cursor with something
  before and behind it; two drains let one take the other's request. In `checks_policy` one runner,
  one edit of either row (the override exists from the start and may be reset), one fault, one overrun.
- `Stock`: two orders take the same two variants in a different order of lines, one of them with
  two lines of one variant; two locations let a line go elsewhere; "a" may be reserved twice, "b" once;
  one report of the stock stream takes a level down under a reservation. The ERP's events
  (`MaxEvents` = 2, quantities 0..2 of x, 1 of y or none) come to "a" alone: `ReserveInit` starts
  either with a silent ERP or with "b" cancelled, as no event of one order reads rows of another.
- `Submission`: four rows hold an `order.confirmed`, a retry of it, and two cancel requests (the one
  after a refusal); two cycles are the least in which two submissions could arise.
- `Payments`: three jobs, two at a time, one fault, two orders, three documents (the first of each
  order and a new version), two payments, amounts 1 and 2. Two overlapping transactions are the case of
  every lock and index; the third job is the one before (a pending attempt to resolve, a document to pay).
  Circles of more than two waits are beyond the run; `DeadlocksHaveCauses` is proved for any number of transactions.
  `LateRequest` is FALSE (see the known limits).
- `Sync`: the order is cancelled after it was placed, there is a payment of the owner's and one
  witnessed by the replica; two handlers on the replica's side overlap, two attempts, one copy under way besides the one handled,
  two faults. `ReplicaInit` splits the space: with one fault both payments and a known customer,
  with two faults the witnessed payment alone and a customer who may arrive later.

Symmetry is used in safety runs only, over workers, drains, rows, rebuilders and the orders of
`Payments`, which no definition tells apart. `CHECK_DEADLOCK FALSE` stands where the system may
stop: all rows settled, the order sent or cancelled, the service destroyed, the jobs used up.

### Fairness

The lanes, sweeps and drains are scheduled tasks that run again and again, so a step of
theirs that stays possible is taken (weak fairness). Strong fairness stands where a step is
possible again and again but not throughout.

- `Inbox`: strong for the claim of a row, which a backoff or another run interrupts; the start of
  a row; the replay time-out, which waits while an event of the entity is in flight. Handlers may
  fail forever.
- `KafkaConsumer`: weak for the start, both timers and the return of `run()`; strong for `Connect` and
  for the return of `run()` while it starts: the broker is reachable again and again, without
  which no retry loop comes back. Crashes may go on forever.
- `Checks`: strong for marking a row, which may wait for the run that holds its subject.
- `Submission`: the broker accepts in the end (an outage is shorter than the retry budget), and a
  rebuild that is retried on every sweep is not undone by a failing build forever; this is the
  meaning of the code's seven days of retries.
- `Sync`: weak for recording, publishing, the delivery of each event and the next step of each
  handler. Nothing is assumed of the order's customer or of a crash.

Nothing is assumed of people, of the ERP, or of policy changes.

## Findings

Each is a run with `expect: violation`; `PROJECT.json` quotes the lines that say otherwise.

1. `inbox_unlocked`: the entity lock is taken only for handlers with `applyBatch`, and none has
   it. Two overlapping runs can apply two versions of one entity, the older last.
2. `checks_override`: the first override of a branch is a new row, which no run in flight has
   locked; results of the global policy stay fresh under the override.
3. `submission_rebuild`: a rebuild reads the order before the order lock and re-checks only the
   outbox after it. A cancel in between finds nothing sent; then the event goes out.

### Known limits of the passing runs

Behaviours of the code that the passing runs keep out by a bound or an abstraction, found by raising
the bound or by reading; most are listed as hazards with their line.

Inbox and Kafka:

- A run whose claim was taken over commits the handler's writes though its mark updates no row
  (`integration-inbox-settle.ts:35-49`, `integration-inbox-processor.service.ts:237`). The taker
  applies the same version again.
- `version-compare.ts:7` compares versions of digits as numbers and any other pair as text, which is
  not transitive when versions of both forms meet in one entity; `Inbox` has numbers.
- A late stop event of a replaced consumer reports the running one as disconnected
  (`kafka-consumer.service.ts:105-109`, `LateStop`). A crash with a promised restart while `run()` starts
  sets no watchdog, because a build is under way (line 174): `StartCrash` = TRUE violates
  `NeverUnwatched`.
- `getErpCursor` looks for delivered rows whose `deliveredAt` is null, so its answer is always the epoch.

Submission:

- `CancelIsTold`, two cycles and one give-up: with a dead-lettered row and a row that is being
  published, `skipPendingSubmission` reports success for the dead letter alone. With a row already
  published the dead letter is left, and a requeue sends it after the cancel
  (`NothingSentAfterCancel`).
- `CancelIsTold`, two cycles and one rejection: an order confirmed again after a rejection and then
  cancelled is `cancel-rejected-locally`: the new submission is neither withdrawn nor cancelled.
- `CancelIsTold`, one lost publish commit: the row is sent but still waiting; a cancel skips it. The
  comment of `outbound-gateway.ts:126` ("a row can never be both skipped and sent") holds only
  while the publisher's commit follows its send.
- `OneSubmission`, two cycles, one give-up and a requeue: a dead-lettered row does not count as submitted.
- `OneSubmission`, three cycles and one rejection: while `erpStatus` is rejected every new cycle
  enqueues again.
- `OwedSendIsSent`, two cycles and one lost event: the reconciler looks for an order without any
  row, so a lost event of a second cycle is never re-driven.
- A line edit of an order without an active reservation returns from `assertEditable`
  (`order-line-edit.guard.ts:53`) before it withdraws the waiting `order.confirmed`: the row goes
  out with the old lines. This hazard has no property.

Stock:

- Generations are per line and location: a line reserved again at another location has generation 1
  while the order's other line has 2. Reports of what the ERP holds of both are then counted
  within each generation, and more than one reservation's quantity can be handed over. `HandedOnlyHeld`
  is stated for orders whose lines have one generation (`Regular`).
- A late `returnToConfirmationQueue` leaves an order that was reserved again in the meantime
  waiting for confirmation with active rows (`reservation-expiry.service.ts:177`).
  `StateFollowsRows` therefore says nothing of that state.
- A partial hand-over saves a row it read before an expiry that takes no order lock: the save writes the
  status "active" back. The stock stream computes its delta from an unlocked read. What the ERP reports as
  available is not diminished by active reservations it does not know of yet. The three are left out of `Stock`.

Payments:

- A request for documents checks the order's state before the order lock
  (`proforma-invoice-issuing.service.ts:80`): with `LateRequest` = TRUE a cancelled order gets a new document
  to pay and TLC finds `CancelledOrderIsClosed` violated (`docs/payments.md:350`).
- The scan of open documents misses a version issued while it waits for a lock; the rest of the money
  becomes an advance (`PaymentLedger` allows it). A direct payment checks "cancelled" on a
  snapshot read before the lock. Captures whose scans are stale can wait for one another in a circle;
  the database aborts one and the caller repeats it.
- `docs/concurrency.md:80` asks for row locks in ascending order of keys; an allocation locks the document it
  named, or its successor, after the open ones (`settlement-entry.service.ts:168-220`), and an issue
  in no order. Two late captures and a cancel can therefore wait in a circle: the first capture has
  scanned documents one of which an edit supersedes, the second holds the newer ones and falls back
  on its withdrawn document, the cancel is of the edited order. A late capture and a cancel alone do serialize, as
  `docs/concurrency.md:173` says; `DeadlockNeedsDisorder` states both.
- An edit that removes all lines of an organization leaves a partial payment on the
  superseded document until the order is cancelled.
- Reported payments are published on the in-memory event bus, not awaited, and the subscriber only
  logs a failure, while the sender gets its acknowledgement. A crash of the idempotency service's holder
  leaves its key in progress. The settle of the acquiring inbox has no claim token. All are before `Pay`.

Sync:

- Messages are published without confirms and their rows marked delivered, and producers write the outbox
  row after the fact in their own transaction; `docs/sync.md:278` says "A crashed worker loses
  nothing". `NothingDropped` excuses such events (`lost`).
- `order.created` without a local customer is logged and marked as processed (`skipped`);
  `docs/sync.md:282` says "No silent drops".
- A witnessed payment handled by two overlapping copies is added to the order twice
  (`docs/sync.md:195`: a duplicate delivery "must be a no-op"); `paid` is a set.
- The replica's payment status is what the message applied last says, whatever the order of the facts.

Smaller ones, not in the list of hazards: the lock order of two stages of checks
(`check-policy.service.ts:72`), the repeated cancel (`order-cancellation.service.ts:242`), requests
of data changes without a lock on what changed (`order-check-stale.service.ts:95`).

## Proofs

The proof modules hold for all values of the constants, finite or infinite where the module's
assumption does not say otherwise, from the named `ASSUME` of each module alone (constants are
typed, sentinels are not members). Extra hypotheses are in the theorems.

| module | theorem | says | invariant |
|---|---|---|---|
| `InboxProofs` | `Typed` | types | `TypeOK /\ OwnWork` |
| | `SettledRowsStay` | `Spec => SettledForGood` | none: per action |
| | `ClaimsAreExclusive` | `Spec => OnlyHolderSettles` | none: the claim guard `Holds` |
| | `StateCovers` | `[]StateCoversProcessed`, if rows take the entity lock or there is one worker | `CoverInv` |
| | `ResolvedByEvent`, `AnsweredCloses` | `[]ResolvedByReplayedEvent`, `[]AnsweredReplayIsClosed` | `ReplayInv` |
| `KafkaProofs` | `ConsumerTyped`, `BuildsAlone` | types, `[]OneBuild` | `BuildInv` |
| | `StoppedIsWatched` | `[]NeverUnwatched`, if `~StartCrash` | `WatchInv` |
| `ChecksProofs` | `ChecksTyped` | types | `TypedInv` |
| | `FreshResultsAreCurrent` | `[]FreshMeansCurrent`, if `NewOverride = FALSE` | `FreshInv` |
| | `OneDrainWorks` | `[]OneDrainPerRequest` | `LeaseInv` |
| `StockProofs` | `StockTyped` | types | `TypeInv` |
| | `ReservationsNeverCross` | `[]NoMutualWait` | `LockOrder` |
| | `OneReservation` | `[]OneReservationHolds` | `OneInv` |
| | `StateTellsOfRows` | `[]StateFollowsRows` | itself, with `TypeInv` |
| | `NothingOversold` | `Spec => NeverOversold` | `LocksInv /\ SoldInv` |
| | `HandedIsHeld` | `Spec => HandedOnlyHeld` | `SoldInv` (its `LastActive`) |
| `SubmissionProofs` | `SubmissionTyped` | types | `Typed` |
| | `SubmittedOnce` | `[]OneSubmission`, if `NoSecondChance` | `SingleInv` |
| | `CancelsAreTold`, `NothingIsSentLate` | `[]CancelIsTold`, `[]NothingSentAfterCancel`, if `Quiet` | `QuietInv` |
| `SyncProofs` | `SyncTyped` | types | `TypeOK` |
| | `ReplicaIsBuiltOnce` | `[]OneReplica` | `OneBuilder` |
| | `NoEventDropped` | `[]NothingDropped` | itself, with `AppliedFirst` |
| `PaymentsProofs` | `NothingOverpaid`, `PaidIsCovered` | `[]NeverOverpaid`, `[]PaidMeansCovered` | `MoneyInv` |
| | `OutcomesAreFinal` | `Spec => FinalStaysFinal` | `AttemptInv` |
| | `MoneyIsAccounted` | `[]NoMoneyIgnored` | itself, with `AttemptInv` |
| | `OneVersionToPay` | `[]OneCurrentVersion` | `VersionInv` |
| | `CancelCloses` | `[]CancelledOrderIsClosed`, if `LateRequest = FALSE` | `VersionInv /\ CloseInv` |
| | `PaymentsTyped` | types | `TypeInv` |
| | `LedgerIsImplemented` | `Spec => ImplementsLedger` | `LedgerInv` |
| | `DeadlocksHaveCauses` | `[]DeadlockNeedsDisorder` | `LockInv` |

How they go:

- `Inbox`. `TypeOK` is not inductive by itself: the outcome function of a batch is typed only
  because a run settles rows of its own batch, which is `OwnWork`. `CoverInv` adds two facts: an
  open transaction holds the lock of every entity it is about (`LocksHeld`), and therefore the
  processed versions it read are still the newest when it commits (`FreshIsNewest`).
  `FreshIsExclusive` turns the locks into "no other run has a fresh row of this entity". The
  hypothesis of `StateCovers` is exactly what `inbox_unlocked` lacks. `ReplayInv` adds to the two
  properties of replays that no row is younger than the clock (`ArrivedByNow`): what was processed
  before a replay is asked for is older than the request, and never taken for its answer.
- `KafkaConsumer`. The flag `rebuilding` is up exactly while a build is under way (`Flagged`), which
  gives `OneBuild`. `WatchInv` says for each phase which timer, promise or build there is.
- `Checks`. `FreshMeansCurrent` speaks of states without a request. Its invariant follows a result
  through the whole life of a request: a run holds share locks on the rows it read, so its
  policy is current when it commits (`RunInv`, `RunsHold`); while a request is pending, a subject whose fresh
  result is old is still ahead of the cursor of every drain that could delete the request
  (`AllAhead`). The hypothesis excludes the insert that `checks_override` shows. `LeaseInv` orders the claims
  of a request in time (`ClaimsArePast`).
- `Stock`. Types need that a job has a reservation number to come (`InTime`) and that those to
  come are unused (`Unused`). `LockOrder`: the ids of the levels a job holds are below those it still misses;
  two jobs that waited for one another would each hold the smaller id. `OneInv` adds `Working`: a job
  under way is of a live order without active rows, which a sweep, though it takes no order lock, can
  only help. `StateTellsOfRows` needs that a hand-over that leaves the state RESERVED leaves a row
  active (`HandedRows`, `HandedShows`). `NothingOversold` follows a plan from the pick to the commit:
  a picked job has all its levels locked and no other job has one of them (`LocksInv`), so what is
  reserved there by others can only fall, and what is reserved, what the earlier lines of the plan take and
  what a line wants stay within the free stock (`Fits`). The commit adds to a level what the lines of
  the plan want of it, and the last of these lines is the one whose `Fits` bounds the sum.
  `HandedIsHeld` rests on `LastActive`: active rows are of the order's last reservation, so under
  `Regular` what was handed over before is what this reservation handed over, and a hand-over takes
  the part the ERP's quantity leaves.
- `Submission`. `LockedRows` are the row locks: a row that is being published is pending, a row that
  is being rebuilt is skipped and has one rebuilder. With them `SingleInv` shows that a row becomes
  active only when none is, for any number of reservations, edits, lost commits and rebuilds.
  `NoSecondChance` (no rejection, and no given-up row put back) is needed: the known limits say what a
  rejection or a requeue does. `Quiet` (no rebuild, no lost commit, and one `order.confirmed` at a time) excludes
  what `submission_rebuild` and the known limits show, and has `submission_cancel` as an instance.
  Under it `QuietInv` keeps what the ERP has apart from what waits: the ERP has exactly the rows that are
  sent or published (`Publication`), `erpOrderId`, a rejection and every request come after a
  submission it has (`Reported`), a cancel that waits for the publisher still has its row (`OpenJob`), and a
  cancelled order has no live row that the ERP lacks (`ShutOrder`). `RowCycle` lists what a step can
  do to one row; `ClosingStep` lists the four ways an order is cancelled.
- `Sync`. `OneBuilder`: one handler holds the replica's lock, and if it found no replica under
  the lock there is none until it is released, whatever is redelivered. `NoEventDropped` shows that
  an effect comes before its mark, also when the two commits are apart (`AppliedFirst`), that
  effects are never undone (`EffectsStay`), and so that no step lets go of an event: it is in its
  row, in a queue, with a handler, applied, or counted as lost (`AccountedStay`).
- `Payments`. `BaseInv` is the types with three facts: what a transaction read under a row's lock is true
  while it holds the lock (`SeenIsCurrent`), a job names what it is about (`JobsMakeSense`), and what an
  allocation found due is still price minus money laid when it commits (`Allotting`); the money
  properties follow, as money is laid only under the row's lock. `AttemptsAreOwned` says that
  a capture on its way has its attempt to itself: the unique index sees to it for inserts, the order's
  lock for resolutions. `WholeOrder`: a job about an order, once it has locked
  its rows, has read exactly the documents of the order, as only the lock's holder makes new ones.
  `Versions` then keeps every document but the newest of an order closed. `CloseInv` adds that a
  cancel lifts what still lies on the rows it locked (`LiftsAll`). The hypothesis of
  `CancelCloses` is what the code does not ensure for a request (see the known limits).
  `TypeInv` holds that money is never negative (`SumsMakeSense`, which needs `LiftsAll`) and that
  a payment always has a document to look at first (`PreferredExists`). For the ledger, `AllotsWhole`
  says that what an allocation has laid out and has left is the whole amount, so its commit
  lays all of it or adds the rest to the advance in one step; `AttemptsAreOwned` that it is captured once; the other
  steps change nothing the ledger sees (`PriceStep` and its like). For the deadlocks, `LockInv`
  says that all but issues lock in ascending order (`Ascending`) and all but allocations
  within their order (`OwnRows`): in a circle without `OutOfTurn` each wait goes to a larger
  document, and a circle has a largest one. A transaction that alone forms a circle with a cancel
  would be an allocation for another order; the document it names is of that order (`SameOrder`), so both
  wait in ascending order.
- `Sums`. The sums of `Stock` and `Payments` are folds. In place of induction, which the provers
  cannot instantiate, its lemmas take the smallest set for which a fact about sums of functions
  fails and show that it could not be: that a sum has a value, splits, is monotone, and can be reindexed.

Only model-checked: the six liveness properties (`EveryRowSettles`, `EveryReplayEnds`, `ComesBack`,
`RequestIsServed`, `OwedSendIsSent`, `EveryMessageEnds`), as they need fairness and `ENABLED`, which
are out of the prover's reach. Every other property of a passing run is stated by a theorem, some under
the hypothesis named in the table.

## Not modelled

The map covers the lines of the modelled plugins; the greater part of the repository is user
interface, generated code, migrations, scripts and tests.

| component | why |
|---|---|
| Inbound stream handlers (some fifty) | upserts of ERP data by version; `Inbox` stands for each by the version it writes last |
| Settlement documents, ERP and external orders, counterparties and credit limits, retro bonuses | versioned upserts of the same form, or recomputed in SQL |
| Approval workflow | a sequential state machine under one row lock, with unit tests of its table |
| Credit placement | one decision inside order placement under the counterparty's lock |
| Prices and discounts | pure arithmetic without state of its own; its tables are data |
| Access control and branch scope | predicates compiled to SQL |
| Sessions, order identity and numbering | single-row updates; a database sequence |
| Documents and PDF, notifications, catalogue search, saved views | rendering, storage, queries |
| ERP file import, shipping and checkout rules | sequential; configuration and stateless checks |
| Shared locks and transactions | sorted advisory locks; they are the lock variables of the other modules |
| Server, worker, dashboard, manager, storefront, ui-kit, e2e | bootstrap, user interface and tests |

Within the modelled components the parts left out are named in their modules' heads, above, and in
`PROJECT.json`. What could come next: the requests of data changes in `Checks`; refunds and the acquiring inbox in
`Payments`; runs for the known limits of `Submission` as the code is changed.
