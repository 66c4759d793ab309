------------------------------- MODULE Payments -------------------------------
(***************************************************************************)
(* Proforma invoices, payment attempts and the settlement ledger of one    *)
(* counterparty, organization and currency (packages/plugins/acquiring).   *)
(* Every job is a database transaction at READ COMMITTED: it takes the     *)
(* advisory lock of an order, then row locks of documents one by one, reads *)
(* the ledger and commits.  A row is read as it is when its lock is        *)
(* granted; the writes of a job appear with its commit.                    *)
(*                                                                         *)
(* Left out: kinds of contract documents (they take no payments), refunds  *)
(* and disputes (rows of their own that change nothing here), reconciliation *)
(* of a wrong organization or currency (refused before anything is read),   *)
(* contents that differ in lines but not in amount.                        *)
(***************************************************************************)
EXTENDS Naturals, FiniteSets, FiniteSetsExt

CONSTANTS
    Order,
    Doc,        \* document ids, in the order they are created
    Ref,        \* external references of payments
    Stub,       \* those of direct payments, made anew for each of them
    Amount,     \* amounts of documents and payments, minor units
    Outcome,    \* reported outcomes, of "captured", "pending", "failed", "canceled"
    Worker,     \* transactions that may run at once
    LateRequest,    \* may a request for documents be under way while its order is cancelled?
    MaxJobs,    \* bound of the jobs started
    MaxFaults,  \* bound of the transactions that fail for no reason of their own
    None

Final == {"captured", "failed", "canceled"}
Open == {"pending", "issued"}
DocStatus == {"none", "pending", "issued", "paid", "superseded", "cancelled"}

ASSUME PaymentsAssumption ==
    /\ Doc \subseteq Nat \ {0} /\ IsFiniteSet(Doc) /\ IsFiniteSet(Order)
    /\ Amount \subseteq Nat \ {0}
    /\ Outcome \subseteq Final \cup {"pending"} /\ Stub \subseteq Ref
    /\ LateRequest \in BOOLEAN
    /\ MaxJobs \in Nat /\ MaxFaults \in Nat
    /\ None \notin Order /\ None \notin Doc /\ None \notin Worker

VARIABLES
    doc,        \* proforma_invoice rows: [order, status, price, next]
    placed,     \* is the order still placed (not cancelled)?
    content,    \* what the order's lines amount to; 0: no lines left
    attempt,    \* payment_attempt rows: [status, doc, amount]
    laid,       \* settlement entries of captured payments, per document
    lifted,     \* settlement entries of order.cancelled, per document
    advance,    \* settlement entries without a document
    issues,     \* payment_reconciliation_issue rows
    told,       \* captures the callers were not refused: <<reference, document>>
    holder,     \* who holds an order's advisory lock
    rowlock,    \* who holds a document's row lock
    pc,         \* where a job is
    job,        \* what it was asked for
    todo,       \* documents it still has to lock
    seen,       \* the statuses it read under row locks
    pref,       \* the document its money should go to first
    due,        \* the amounts it read from the ledger
    left, put,  \* an allocation: what is left, what goes where
    jobs, faults

data == <<doc, placed, content, attempt, laid, lifted, advance, issues, told>>
locals == <<job, todo, seen, pref, due, left, put>>
vars == <<data, holder, rowlock, pc, locals, jobs, faults>>

Job == [op : {"pay", "resolve", "withdraw", "cancel", "request", "edit"},
        order : Order, doc : Doc \cup {None}, ref : Ref \cup {None},
        out : Outcome \cup {None}, amount : Nat]

NoJob == None
NoAttempt == [status |-> "none", doc |-> None, amount |-> 0]
NothingSeen == [d \in Doc |-> "none"]
Zeros == [d \in Doc |-> 0]

\* Every variable keeps its shape; a job in progress is known.
TypeOK ==
    /\ doc \in [Doc -> [order : Order \cup {None}, status : DocStatus,
                        price : Nat, next : Doc \cup {None}]]
    /\ placed \in [Order -> BOOLEAN]
    /\ content \in [Order -> Amount \cup {0}]
    /\ attempt \in [Ref -> [status : Final \cup {"none", "pending"},
                            doc : Doc \cup {None}, amount : Nat]]
    /\ laid \in [Doc -> Nat] /\ lifted \in [Doc -> Nat] /\ advance \in Nat
    /\ issues \subseteq {"ORDER_MISMATCH", "INVALID_STATE_TRANSITION"} \X Ref \X Doc
    /\ told \subseteq Ref \X Doc
    /\ holder \in [Order -> Worker \cup {None}]
    /\ rowlock \in [Doc -> Worker \cup {None}]
    /\ pc \in [Worker -> {"idle", "order", "insert", "reread", "rows", "read",
                          "allot", "write"}]
    /\ job \in [Worker -> Job \cup {NoJob}]
    /\ \A w \in Worker : pc[w] # "idle" => job[w] \in Job
    /\ todo \in [Worker -> SUBSET Doc]
    /\ seen \in [Worker -> [Doc -> DocStatus]]
    /\ pref \in [Worker -> Doc \cup {None}]
    /\ due \in [Worker -> [Doc -> Nat]]
    /\ left \in [Worker -> Nat] /\ put \in [Worker -> [Doc -> Nat]]
    /\ jobs \in Nat /\ faults \in Nat

Exists(d) == doc[d].status # "none"
DocsOf(o) == {d \in Doc : doc[d].order = o}
Unused == {d \in Doc : ~Exists(d)}
Idle(w) == pc[w] = "idle" /\ jobs < MaxJobs
FreeAlways(w, d) == TRUE
Free(w, d) == rowlock[d] \in {None, w}
Allocates(w) == job[w].op \in {"pay", "resolve"} /\ job[w].out = "captured"

\* The document of a direct payment was cancelled before its row was locked.
Refused(w) == job[w].ref \in Stub /\ seen[w][job[w].doc] = "cancelled"

\* An attempt inserted by a transaction that has not committed.
Inserting(w) ==
    /\ pc[w] \in {"rows", "read", "allot", "write"}
    /\ job[w].op = "pay" /\ job[w].out = "captured"

-----------------------------------------------------------------------------
(* Transactions *)

Start(w, j) ==
    /\ pc' = [pc EXCEPT ![w] = "order"]
    /\ job' = [job EXCEPT ![w] = j]
    /\ UNCHANGED <<todo, seen, pref, due, left, put, holder, rowlock>>

\* Commit and rollback alike end the transaction and release its locks.
End(w) ==
    /\ holder' = [o \in Order |-> IF holder[o] = w THEN None ELSE holder[o]]
    /\ rowlock' = [d \in Doc |-> IF rowlock[d] = w THEN None ELSE rowlock[d]]
    /\ pc' = [pc EXCEPT ![w] = "idle"]
    /\ job' = [job EXCEPT ![w] = NoJob]
    /\ todo' = [todo EXCEPT ![w] = {}]
    /\ seen' = [seen EXCEPT ![w] = NothingSeen]
    /\ pref' = [pref EXCEPT ![w] = None]
    /\ due' = [due EXCEPT ![w] = Zeros]
    /\ left' = [left EXCEPT ![w] = 0]
    /\ put' = [put EXCEPT ![w] = Zeros]

OrderFreeForCancel(w) == holder[job[w].order] = None \/ job[w].op = "cancel"
OrderFree(w) == holder[job[w].order] = None

LockOrder(w) ==
    /\ pc[w] = "order"
    /\ OrderFree(w)
    /\ holder' = [holder EXCEPT ![job[w].order] = w]
    /\ LET op == job[w].op IN
       /\ pc' = [pc EXCEPT ![w] = CASE op = "pay" /\ Allocates(w) -> "insert"
                                    [] op = "resolve" -> "reread"
                                    [] OTHER -> "rows"]
       /\ todo' = [todo EXCEPT ![w] =
                     CASE op = "pay" /\ ~Allocates(w) -> {job[w].doc}
                       [] op = "withdraw" -> {job[w].doc}
                       [] op \in {"cancel", "request", "edit"} -> DocsOf(job[w].order)
                       [] OTHER -> {}]
    /\ UNCHANGED <<data, rowlock, job, seen, pref, due, left, put, jobs, faults>>

\* Allocations and cancels lock in creation order, an issue in any order.
NextRows(w) ==
    IF job[w].op \in {"request", "edit"} THEN todo[w]
    ELSE {d \in todo[w] : \A c \in todo[w] : d <= c}

\* A row is read again when its lock is granted.
RecheckNothing(d) == IF Exists(d) THEN "issued" ELSE "none"
Recheck(d) == doc[d].status

LockRow(w, d) ==
    /\ pc[w] = "rows" /\ d \in NextRows(w)
    /\ Free(w, d)
    /\ rowlock' = [rowlock EXCEPT ![d] = w]
    /\ seen' = [seen EXCEPT ![w][d] = Recheck(d)]
    /\ todo' = [todo EXCEPT ![w] = @ \ {d}]
    /\ UNCHANGED <<data, holder, pc, job, pref, due, left, put, jobs, faults>>

HasRows(w) == pc[w] = "rows" /\ todo[w] = {}

\* A transaction fails: a statement error, a lost connection, a crash, or the
\* database's deadlock detector when two inserts of one reference wait in a circle.
LockBlockers(w) ==
    CASE pc[w] = "order" -> {holder[job[w].order]} \ {None, w}
      [] pc[w] = "rows" /\ todo[w] # {} -> {rowlock[d] : d \in NextRows(w)} \ {None, w}
      [] HasRows(w) /\ Allocates(w) -> {rowlock[pref[w]]} \ {None, w}
      [] OTHER -> {}

InsertBlockers(w) ==
    IF \/ pc[w] = "insert"
       \/ HasRows(w) /\ job[w].op = "pay" /\ ~Allocates(w)
    THEN {v \in Worker \ {w} : Inserting(v) /\ job[v].ref = job[w].ref} ELSE {}

Deadlocked(w) ==
    \E S \in SUBSET Worker :
        /\ w \in S
        /\ \A v \in S : (LockBlockers(v) \cup InsertBlockers(v)) \cap S # {}

Fail(w) ==
    /\ pc[w] # "idle"
    /\ \/ Deadlocked(w) /\ faults' = faults
       \/ ~Deadlocked(w) /\ faults < MaxFaults /\ faults' = faults + 1
    /\ End(w)
    /\ UNCHANGED <<data, jobs>>

-----------------------------------------------------------------------------
(* payProformaInvoice *)

ResolveFailed(existing, incoming) == existing \in {"pending", "failed"} /\ incoming \in Final
ShouldResolve(existing, incoming) == existing = "pending" /\ incoming \in Final

\* The end of a repeat that found this status: a capture that can no longer be one is
\* reported for a human.
AnswerCanceled(r, d, out, status) ==
    /\ issues' = IF out = "captured" /\ status = "canceled"
                 THEN issues \cup {<<"INVALID_STATE_TRANSITION", r, d>>} ELSE issues
    /\ told' = IF out = "captured" THEN told \cup {<<r, d>>} ELSE told
Answer(r, d, out, status) ==
    /\ issues' = IF out = "captured" /\ status \in {"failed", "canceled"}
                 THEN issues \cup {<<"INVALID_STATE_TRANSITION", r, d>>} ELSE issues
    /\ told' = IF out = "captured" THEN told \cup {<<r, d>>} ELSE told

\* A repeat for another document, or one that has nothing to resolve, ends here.
Repeat(w, j, existing) ==
    \/ /\ existing.doc # j.doc
       /\ issues' = issues \cup {<<"ORDER_MISMATCH", j.ref, j.doc>>}
       /\ told' = IF j.out = "captured" THEN told \cup {<<j.ref, j.doc>>} ELSE told
       /\ End(w)
    \/ /\ existing.doc = j.doc /\ ~ShouldResolve(existing.status, j.out)
       /\ Answer(j.ref, j.doc, j.out, existing.status)
       /\ End(w)
    \/ /\ existing.doc = j.doc /\ ShouldResolve(existing.status, j.out)
       /\ pc' = [pc EXCEPT ![w] = "order"]
       /\ job' = [job EXCEPT ![w] = [j EXCEPT !.op = "resolve"]]
       /\ holder' = [o \in Order |-> IF holder[o] = w THEN None ELSE holder[o]]
       /\ rowlock' = [d \in Doc |-> IF rowlock[d] = w THEN None ELSE rowlock[d]]
       /\ seen' = [seen EXCEPT ![w] = NothingSeen]
       /\ UNCHANGED <<todo, pref, due, left, put, issues, told>>

\* The document and the attempt are read before the transaction.  A direct payment of a
\* cancelled document is refused; a fact reported by the ERP or a branch never is.
Pay(w, r, d, out, amount) ==
    LET j == [op |-> "pay", order |-> doc[d].order, doc |-> d, ref |-> r,
              out |-> out, amount |-> amount]
    IN  /\ Idle(w) /\ Exists(d)
        /\ r \in Stub => /\ doc[d].status # "cancelled" /\ amount = doc[d].price
                         /\ attempt[r].status = "none"
                         /\ \A v \in Worker : pc[v] # "idle" => job[v].ref # r
        /\ jobs' = jobs + 1
        /\ IF attempt[r].status = "none"
           THEN Start(w, j) /\ UNCHANGED <<issues, told>>
           ELSE Repeat(w, j, attempt[r])
        /\ UNCHANGED <<doc, placed, content, attempt, laid, lifted, advance, faults>>

\* The unique index makes an insert wait for another one of its reference that has
\* not committed.
MayInsert(w) == InsertBlockers(w) = {}

\* getOpenProformaInvoicesFifo: which documents are open when the statement starts.
Scan(w) ==
    /\ todo' = [todo EXCEPT ![w] = {d \in Doc : doc[d].status \in Open}]
    /\ pref' = [pref EXCEPT ![w] = job[w].doc]
    /\ pc' = [pc EXCEPT ![w] = "rows"]
    /\ UNCHANGED <<job, seen, due, left, put, holder, rowlock>>

InsertCaptured(w) ==
    /\ pc[w] = "insert" /\ MayInsert(w)
    /\ attempt[job[w].ref].status = "none"
    /\ Scan(w)
    /\ UNCHANGED <<data, jobs, faults>>

\* A pending or failed attempt is one commit: the row of its document is locked and
\* read again before the insert, and a pending one marks the document issued.
InsertOther(w) ==
    LET j == job[w] IN
    /\ HasRows(w) /\ j.op = "pay" /\ ~Allocates(w)
    /\ \/ /\ Refused(w)
          /\ UNCHANGED <<attempt, doc>>
       \/ /\ ~Refused(w)
          /\ MayInsert(w) /\ attempt[j.ref].status = "none"
          /\ attempt' = [attempt EXCEPT ![j.ref] =
                            [status |-> j.out, doc |-> j.doc, amount |-> j.amount]]
          /\ doc' = IF j.out = "pending" /\ seen[w][j.doc] = "pending"
                    THEN [doc EXCEPT ![j.doc].status = "issued"] ELSE doc
    /\ End(w)
    /\ UNCHANGED <<placed, content, laid, lifted, advance, issues, told, jobs, faults>>

\* A unique violation rolls back; a final outcome goes on as a repeat of the winner's.
InsertLost(w) ==
    LET j == job[w] IN
    /\ \/ pc[w] = "insert"
       \/ HasRows(w) /\ j.op = "pay" /\ ~Allocates(w) /\ ~Refused(w)
    /\ MayInsert(w) /\ attempt[j.ref].status # "none"
    /\ IF j.out = "pending" THEN End(w) /\ UNCHANGED <<issues, told>>
       ELSE Repeat(w, j, attempt[j.ref])
    /\ UNCHANGED <<doc, placed, content, attempt, laid, lifted, advance, jobs, faults>>

\* resolvePendingAttempt under the order's lock: the attempt is read again.
Reread(w) ==
    LET j == job[w]
        status == attempt[j.ref].status
    IN  /\ pc[w] = "reread"
        /\ \/ /\ ~ShouldResolve(status, j.out)
              /\ Answer(j.ref, j.doc, j.out, status)
              /\ End(w) /\ UNCHANGED attempt
           \/ /\ ShouldResolve(status, j.out) /\ j.out # "captured"
              /\ attempt' = [attempt EXCEPT ![j.ref].status = j.out]
              /\ End(w) /\ UNCHANGED <<issues, told>>
           \/ /\ ShouldResolve(status, j.out) /\ j.out = "captured"
              /\ Scan(w) /\ UNCHANGED <<attempt, issues, told>>
        /\ UNCHANGED <<doc, placed, content, laid, lifted, advance, jobs, faults>>

-----------------------------------------------------------------------------
(* allocate *)

OpenSeen(w) == {d \in Doc : seen[w][d] \in Open}

\* The named document is among the open ones: its money goes there first.
PreferNamed(w) ==
    /\ HasRows(w) /\ Allocates(w) /\ pref[w] \in OpenSeen(w)
    /\ pc' = [pc EXCEPT ![w] = "read"]
    /\ UNCHANGED <<data, holder, rowlock, locals, jobs, faults>>

\* It is not: lock and read it.  A superseded version hands over to its successor; the
\* money for a withdrawn document goes to no other one.
PreferHead(w) ==
    LET d == pref[w] IN
    /\ HasRows(w) /\ Allocates(w) /\ d \notin OpenSeen(w)
    /\ Free(w, d)
    /\ rowlock' = [rowlock EXCEPT ![d] = w]
    /\ \/ /\ doc[d].status = "superseded"
          /\ pref' = [pref EXCEPT ![w] = doc[d].next]
          /\ UNCHANGED <<pc, seen>>
       \/ /\ doc[d].status = "cancelled"
          /\ seen' = [seen EXCEPT ![w] = NothingSeen]
          /\ pc' = [pc EXCEPT ![w] = "read"] /\ UNCHANGED pref
       \/ /\ doc[d].status \in Open \cup {"paid"}
          /\ seen' = [seen EXCEPT ![w][d] = doc[d].status]
          /\ pc' = [pc EXCEPT ![w] = "read"] /\ UNCHANGED pref
    /\ UNCHANGED <<data, holder, job, todo, due, left, put, jobs, faults>>

\* paidSoFar: what the open documents still ask.
ReadPaid(w) ==
    /\ pc[w] = "read" /\ Allocates(w)
    /\ due' = [due EXCEPT ![w] = [d \in Doc |->
                  IF d \in OpenSeen(w) /\ doc[d].price > laid[d]
                  THEN doc[d].price - laid[d] ELSE 0]]
    /\ left' = [left EXCEPT ![w] = job[w].amount]
    /\ pc' = [pc EXCEPT ![w] = "allot"]
    /\ UNCHANGED <<data, holder, rowlock, job, todo, seen, pref, put, jobs, faults>>

Second(a, b) == b
Smaller(a, b) == IF a <= b THEN a ELSE b

Waiting(w) == {d \in Doc : due[w][d] > 0 /\ put[w][d] = 0}

AllotNext(w) ==
    /\ pc[w] = "allot" /\ left[w] > 0
    /\ \E d \in Waiting(w) :
          /\ IF pref[w] \in Waiting(w) THEN d = pref[w] ELSE \A c \in Waiting(w) : d <= c
          /\ put' = [put EXCEPT ![w][d] = Smaller(left[w], due[w][d])]
          /\ left' = [left EXCEPT ![w] = @ - Smaller(@, due[w][d])]
    /\ UNCHANGED <<data, holder, rowlock, pc, job, todo, seen, pref, due, jobs, faults>>

\* Documents this money covers.
CoveredInPart(w) == {d \in Doc : put[w][d] > 0}
Covered(w) == {d \in Doc : due[w][d] > 0 /\ put[w][d] >= due[w][d]}

\* What no document takes becomes an advance.
RestForgotten(w) == 0
Rest(w) == left[w]

\* The commit of a capture: attempt, entries and statuses appear together.
CommitCapture(w) ==
    LET j == job[w] IN
    /\ pc[w] = "allot"
    /\ left[w] = 0 \/ Waiting(w) = {}
    /\ attempt' = [attempt EXCEPT ![j.ref] =
                      [status |-> "captured", doc |-> j.doc, amount |-> j.amount]]
    /\ laid' = [d \in Doc |-> laid[d] + put[w][d]]
    /\ doc' = [d \in Doc |-> IF d \in Covered(w) THEN [doc[d] EXCEPT !.status = "paid"]
                                 ELSE doc[d]]
    /\ advance' = advance + Rest(w)
    /\ told' = told \cup {<<j.ref, j.doc>>}
    /\ End(w)
    /\ UNCHANGED <<placed, content, lifted, issues, jobs, faults>>

-----------------------------------------------------------------------------
(* Withdrawal, cancel of the order, new versions *)

Plain(op, o, d, amount) ==
    [op |-> op, order |-> o, doc |-> d, ref |-> None, out |-> None,
     amount |-> amount]

InFlight(op, o) == \E w \in Worker : pc[w] # "idle" /\ job[w].op = op /\ job[w].order = o

\* Bound: a row is left for every document that may be issued.
HasRoom == Cardinality({w \in Worker : pc[w] # "idle" /\ job[w].op \in {"request", "edit"}})
               < Cardinality(Unused)

\* A withdrawal on a cancelled order closes the order's documents instead.
Withdraw(w, d) ==
    /\ Idle(w) /\ Exists(d) /\ placed[doc[d].order]
    /\ Start(w, Plain("withdraw", doc[d].order, d, 0))
    /\ jobs' = jobs + 1 /\ UNCHANGED <<data, faults>>

CancelOrder(w, o) ==
    /\ Idle(w)
    /\ LateRequest \/ ~InFlight("request", o)
    /\ Start(w, Plain("cancel", o, None, 0))
    /\ jobs' = jobs + 1 /\ UNCHANGED <<data, faults>>

\* A request is refused by the state of the order read before the lock.
Request(w, o) ==
    /\ Idle(w) /\ placed[o]
    /\ LateRequest \/ ~InFlight("cancel", o)
    /\ HasRoom
    /\ Start(w, Plain("request", o, None, 0))
    /\ jobs' = jobs + 1 /\ UNCHANGED <<data, faults>>

\* An edit of the order's lines, in whose transaction the documents are issued anew.
Edit(w, o, a) ==
    /\ Idle(w) /\ placed[o] /\ HasRoom
    /\ Start(w, Plain("edit", o, None, a))
    /\ jobs' = jobs + 1 /\ UNCHANGED <<data, faults>>

NetPaid(d) == laid[d]
Net(d) == laid[d] - lifted[d]

ReadNet(w) ==
    /\ HasRows(w) /\ job[w].op \in {"withdraw", "cancel"}
    /\ due' = [due EXCEPT ![w] = [d \in Doc |->
                  IF seen[w][d] # "none" THEN Net(d) ELSE 0]]
    /\ pc' = [pc EXCEPT ![w] = "write"]
    /\ UNCHANGED <<data, holder, rowlock, job, todo, seen, pref, left, put, jobs, faults>>

InProgress(d) == \E r \in Ref : attempt[r].doc = d /\ attempt[r].status = "pending"

CommitWithdraw(w) ==
    LET d == job[w].doc IN
    /\ pc[w] = "write" /\ job[w].op = "withdraw"
    /\ doc' = IF seen[w][d] \in Open /\ due[w][d] = 0 /\ ~InProgress(d)
              THEN [doc EXCEPT ![d].status = "cancelled"] ELSE doc
    /\ End(w)
    /\ UNCHANGED <<placed, content, attempt, laid, lifted, advance, issues, told, jobs, faults>>

\* closeForCancelledOrder, in the transaction that cancels the order.
CommitCancel(w) ==
    LET o == job[w].order
        closable == {d \in Doc : seen[w][d] \in Open \cup {"paid"} /\ doc[d].next = None}
    IN  /\ pc[w] = "write" /\ job[w].op = "cancel"
        /\ placed' = [placed EXCEPT ![o] = FALSE]
        /\ doc' = [d \in Doc |-> IF d \in closable THEN [doc[d] EXCEPT !.status = "cancelled"]
                                 ELSE doc[d]]
        /\ lifted' = [d \in Doc |-> lifted[d] + due[w][d]]
        /\ advance' = advance + MapThenSumSet(LAMBDA d : due[w][d], Doc)
        /\ End(w)
        /\ UNCHANGED <<content, attempt, laid, issues, told, jobs, faults>>

\* The current version: the newest row that nothing superseded, if the order has one.
Head(w) ==
    LET heads == {d \in Doc : seen[w][d] \notin {"none", "superseded"}}
    IN  {d \in heads : \A c \in heads : c <= d}

DecideWithoutPaid(status, same) ==
    IF status # "cancelled" /\ same THEN "reuse" ELSE "create"
DecideVersion(status, same) ==
    CASE status = "cancelled" -> "create"
      [] status # "cancelled" /\ same -> "reuse"
      [] status = "paid" /\ ~same -> "paid-changed"
      [] OTHER -> "create"

\* issueUnderLock: a new version replaces an unpaid one, or follows a withdrawn one.
NewVersion(o, replaced, status, price) ==
    \E n \in Unused :
       /\ \A u \in Unused : n <= u
       /\ doc' = [d \in Doc |->
             IF d = n THEN [order |-> o, status |-> status, price |-> price, next |-> None]
             ELSE IF d \in replaced THEN [doc[d] EXCEPT !.status = "superseded", !.next = n]
             ELSE doc[d]]

\* An order without lines has its unpaid document cancelled.  An edit checks again, under
\* the lock, that its order is not cancelled; a request does not.
CommitIssue(w) ==
    LET j == job[w]
        wanted == IF j.op = "edit" THEN j.amount ELSE content[j.order]
        unpaid == Head(w) \cap OpenSeen(w)
        create == \A d \in Head(w) :
                     DecideVersion(seen[w][d], doc[d].price = wanted) = "create"
        first == IF j.op = "request" THEN "issued" ELSE "pending"
    IN  /\ HasRows(w) /\ j.op \in {"request", "edit"}
        /\ \/ /\ j.op = "edit" /\ ~placed[j.order]
              /\ UNCHANGED <<doc, content>>
           \/ /\ j.op = "edit" => placed[j.order]
              /\ content' = [content EXCEPT ![j.order] = wanted]
              /\ \/ /\ wanted = 0
                    /\ doc' = [d \in Doc |-> IF d \in unpaid
                                  THEN [doc[d] EXCEPT !.status = "cancelled"] ELSE doc[d]]
                 \/ wanted # 0 /\ ~create /\ doc' = doc
                 \/ /\ wanted # 0 /\ create
                    /\ NewVersion(j.order, unpaid, IF unpaid = {} THEN first
                                  ELSE seen[w][CHOOSE d \in unpaid : TRUE], wanted)
        /\ End(w)
        /\ UNCHANGED <<placed, attempt, laid, lifted, advance, issues, told, jobs, faults>>

-----------------------------------------------------------------------------
\* Every order starts placed, with its first document not paid.
Init ==
    /\ \E owner \in [1..Cardinality(Order) -> Order], price \in [Order -> Amount] :
          /\ \A c, d \in 1..Cardinality(Order) : owner[c] = owner[d] => c = d
          /\ content = price
          /\ doc = [d \in Doc |->
                IF d \in 1..Cardinality(Order)
                THEN [order |-> owner[d], status |-> "pending", price |-> price[owner[d]],
                      next |-> None]
                ELSE [order |-> None, status |-> "none", price |-> 0, next |-> None]]
    /\ placed = [o \in Order |-> TRUE]
    /\ attempt = [r \in Ref |-> NoAttempt]
    /\ laid = Zeros /\ lifted = Zeros /\ advance = 0
    /\ issues = {} /\ told = {}
    /\ holder = [o \in Order |-> None] /\ rowlock = [d \in Doc |-> None]
    /\ pc = [w \in Worker |-> "idle"] /\ job = [w \in Worker |-> NoJob]
    /\ todo = [w \in Worker |-> {}] /\ seen = [w \in Worker |-> NothingSeen]
    /\ pref = [w \in Worker |-> None] /\ due = [w \in Worker |-> Zeros]
    /\ left = [w \in Worker |-> 0] /\ put = [w \in Worker |-> Zeros]
    /\ jobs = 0 /\ faults = 0

Begin(w) ==
    \/ \E r \in Ref, d \in Doc, out \in Outcome, a \in Amount : Pay(w, r, d, out, a)
    \/ \E d \in Doc : Withdraw(w, d)
    \/ \E o \in Order : CancelOrder(w, o)
    \/ \E o \in Order : Request(w, o)
    \/ \E o \in Order, a \in Amount \cup {0} : Edit(w, o, a)

Advance(w) ==
    \/ LockOrder(w)
    \/ \E d \in Doc : LockRow(w, d)
    \/ InsertCaptured(w)
    \/ InsertOther(w)
    \/ InsertLost(w)
    \/ Reread(w)
    \/ PreferNamed(w)
    \/ PreferHead(w)
    \/ ReadPaid(w)
    \/ AllotNext(w)
    \/ CommitCapture(w)
    \/ ReadNet(w)
    \/ CommitWithdraw(w)
    \/ CommitCancel(w)
    \/ CommitIssue(w)

Next == \E w \in Worker : Begin(w) \/ Advance(w) \/ Fail(w)

Spec == Init /\ [][Next]_vars

-----------------------------------------------------------------------------
(* Properties *)

\* No document is ever laid more than it asks, by payments of any orders captured
\* together (settlement-entry.service.ts, allocate under the row locks).
NeverOverpaid == \A d \in Doc : laid[d] <= doc[d].price

\* A document counts as paid exactly when the payments laid on it cover it, and nothing
\* else makes it paid or keeps it open.
PaidMeansCovered ==
    \A d \in Doc :
        /\ doc[d].status = "paid" => laid[d] = doc[d].price
        /\ doc[d].status \in Open => laid[d] < doc[d].price

\* An order has one current document: concurrent requests, edits, withdrawals and
\* captures never leave two that customers could pay.
OneCurrentVersion ==
    \A c, d \in Doc : c # d /\ doc[c].order = doc[d].order =>
        ~(doc[c].status \in Open \cup {"paid"} /\ doc[d].status \in Open \cup {"paid"})

\* A payment told to us as captured is in the ledger for the document it named, or a
\* human is told of it: no answer hides money (payment-attempt.service.ts, repeats).
NoMoneyIgnored ==
    \A r \in Ref, d \in Doc : <<r, d>> \in told =>
        \/ attempt[r].status = "captured" /\ attempt[r].doc = d
        \/ \E kind \in {"ORDER_MISMATCH", "INVALID_STATE_TRANSITION"} : <<kind, r, d>> \in issues

\* A cancelled order has no document left to pay and no money on any of its documents:
\* a late capture or a withdrawal under way never puts money back (docs/payments.md,
\* order cancel and payments).
CancelledOrderIsClosed ==
    \A d \in Doc : Exists(d) /\ ~placed[doc[d].order] =>
        /\ doc[d].status \in {"superseded", "cancelled"}
        /\ Net(d) = 0

\* A circle of waits: each of these transactions waits for one of them, and no fewer do.
Closed(S) == S # {} /\ \A w \in S : (LockBlockers(w) \cup InsertBlockers(w)) \cap S # {}
Circle(S) == Closed(S) /\ \A R \in SUBSET S : Closed(R) => R = S

\* Who locks out of creation order: a capture falling back on the document it named, after
\* the open ones, and an issue of documents.
OutOfTurn(w) ==
    \/ HasRows(w) /\ Allocates(w)
    \/ pc[w] = "rows" /\ job[w].op \in {"request", "edit"}

\* Transactions deadlock only where one of them leaves the lock order (docs/concurrency.md,
\* lock ordering) or waits for an insert of its reference.  A withdrawal is in no circle, and
\* a cancel in none with one other alone: with a late capture it serializes.
DeadlockNeedsDisorder ==
    \A S \in SUBSET Worker : Circle(S) =>
        /\ \E w \in S : OutOfTurn(w) \/ InsertBlockers(w) \cap S # {}
        /\ \A w \in S : /\ job[w].op # "withdraw"
                        /\ job[w].op = "cancel" => \A v \in S : S # {v, w}

\* The outcome of a payment is final: no later, repeated or concurrent report changes a
\* captured, failed or cancelled attempt (payment-status-transition.ts).
FinalStaysFinal ==
    [][\A r \in Ref : attempt[r].status \in Final => attempt'[r] = attempt[r]]_vars

Ledger == INSTANCE PaymentLedger WITH
    price <- [d \in Doc |-> doc[d].price],
    captured <- [r \in Ref |-> IF attempt[r].status = "captured" THEN attempt[r].amount ELSE 0]

\* The transactions implement the ledger: every capture is laid out whole, once, within
\* what documents ask, and no money appears or vanishes in any interleaving.
ImplementsLedger == Ledger!LedgerSpec
=============================================================================
