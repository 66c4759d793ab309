--------------------------- MODULE PaymentsProofs ---------------------------
(***************************************************************************)
(* Proofs about Payments: no document is overpaid, final outcomes stay, no *)
(* reported money is ignored, an order has one current document and a      *)
(* cancelled one none, the ledger is implemented and deadlocks have a      *)
(* cause, for any documents, payments and transactions.                    *)
(***************************************************************************)
EXTENDS Payments, FiniteSetTheorems, Sums, TLAPS

Current == Open \cup {"paid"}

DocRow == [order : Order \cup {None}, status : DocStatus, price : Nat, next : Doc \cup {None}]
Attempt == [status : Final \cup {"none", "pending"}, doc : Doc \cup {None}, amount : Nat]
PC == {"idle", "order", "insert", "reread", "rows", "read", "allot", "write"}

-----------------------------------------------------------------------------
(* The inductive invariant, in parts *)

\* The types, except of the sums a cancel moves to the advance.
DataShape ==
    /\ doc \in [Doc -> DocRow] /\ attempt \in [Ref -> Attempt]
    /\ placed \in [Order -> BOOLEAN] /\ content \in [Order -> Amount \cup {0}]
    /\ laid \in [Doc -> Nat] /\ lifted \in [Doc -> Int]

LocalShape ==
    /\ holder \in [Order -> Worker \cup {None}] /\ rowlock \in [Doc -> Worker \cup {None}]
    /\ pc \in [Worker -> PC] /\ job \in [Worker -> Job \cup {NoJob}]
    /\ todo \in [Worker -> SUBSET Doc] /\ seen \in [Worker -> [Doc -> DocStatus]]
    /\ due \in [Worker -> [Doc -> Int]] /\ left \in [Worker -> Nat]
    /\ put \in [Worker -> [Doc -> Nat]]

\* An unused row asks nothing and is nobody's; a superseded one alone has a successor.
RowsMakeSense ==
    \A d \in Doc : /\ ~Exists(d) => doc[d].price = 0 /\ doc[d].order = None
                   /\ Exists(d) => doc[d].order \in Order
                   /\ doc[d].next # None => doc[d].status = "superseded"

Pays(w) == pc[w] # "idle" /\ job[w].op \in {"pay", "resolve"}

\* A job in progress is known, and names what it is about.
JobMakesSense(w) ==
    /\ pc[w] # "idle" => job[w] \in Job
    /\ pc[w] # "idle" /\ job[w].op \in {"pay", "resolve", "withdraw"} => job[w].doc \in Doc
    /\ Pays(w) => /\ job[w].ref \in Ref /\ job[w].out \in Outcome
                  /\ Exists(job[w].doc) /\ doc[job[w].doc].order = job[w].order
    /\ pc[w] # "idle" /\ job[w].op = "edit" => job[w].amount \in Amount \cup {0}
    /\ pc[w] \in {"read", "allot"} => Allocates(w)
    /\ pc[w] = "insert" => job[w].op = "pay" /\ job[w].out = "captured"
    /\ pc[w] = "reread" => job[w].op = "resolve"
    /\ pc[w] = "write" => job[w].op \in {"withdraw", "cancel"} /\ todo[w] = {}

JobsMakeSense == \A w \in Worker : JobMakesSense(w)

\* Who goes on past the order's lock holds it.
HoldsOrder == \A w \in Worker : pc[w] \notin {"idle", "order"} => holder[job[w].order] = w

\* What a transaction read under a row's lock is true while it runs.
SeenIsCurrent ==
    \A w \in Worker, d \in Doc : seen[w][d] # "none" =>
        rowlock[d] = w /\ doc[d].status = seen[w][d]

\* An allocation lays out no more than what the documents it locked still ask.
Allotting ==
    \A w \in Worker, d \in Doc :
        IF pc[w] = "allot"
        THEN /\ due[w][d] > 0 => seen[w][d] \in Open /\ due[w][d] = doc[d].price - laid[d]
             /\ put[w][d] # 0 => put[w][d] <= due[w][d]
        ELSE put[w][d] = 0

\* A capture on its way has its attempt to itself.
AttemptsAreOwned ==
    /\ \A w \in Worker :
        /\ Inserting(w) => attempt[job[w].ref].status = "none"
        /\ pc[w] # "idle" /\ job[w].op = "resolve" =>
              attempt[job[w].ref].doc = job[w].doc /\ attempt[job[w].ref].status # "none"
        /\ pc[w] \in {"rows", "read", "allot"} /\ job[w].op = "resolve" =>
              attempt[job[w].ref].status = "pending"
    /\ \A v, w \in Worker : v # w /\ Inserting(v) /\ Inserting(w) => job[v].ref # job[w].ref

ByOrder == {"cancel", "request", "edit"}

\* A job about a whole order locks every document of it and no other.
WholeOrder ==
    \A w \in Worker, d \in Doc :
        /\ pc[w] \in {"idle", "order"} => seen[w][d] = "none"
        /\ pc[w] \in {"rows", "write"} /\ job[w].op \in ByOrder =>
              (d \in todo[w] \/ seen[w][d] # "none" <=> doc[d].order = job[w].order)

\* Rows are used in order, and only the newest of an order's is not closed.
Versions ==
    /\ \A c, d \in Doc : Exists(c) /\ ~Exists(d) => c < d
    /\ \A c, d \in Doc : Exists(c) /\ Exists(d) /\ doc[c].order = doc[d].order /\ c < d =>
            doc[c].status \in {"superseded", "cancelled"}

\* No request is under way for an order that is being or was cancelled.
RequestsAreEarly ==
    \A w \in Worker : pc[w] # "idle" /\ job[w].op = "request" =>
        /\ placed[job[w].order]
        /\ \A v \in Worker : pc[v] # "idle" /\ job[v].op = "cancel" => job[v].order # job[w].order

\* What a cancel is about to lift is what still lies on the documents it locked.
LiftsAll ==
    \A w \in Worker, d \in Doc : pc[w] = "write" /\ job[w].op = "cancel" =>
        due[w][d] = IF seen[w][d] # "none" THEN laid[d] - lifted[d] ELSE 0

Typed == DataShape /\ LocalShape /\ RowsMakeSense /\ JobsMakeSense
BaseInv == Typed /\ SeenIsCurrent /\ Allotting
MoneyInv == BaseInv /\ NeverOverpaid /\ PaidMeansCovered
AttemptInv == BaseInv /\ HoldsOrder /\ AttemptsAreOwned
VersionInv == BaseInv /\ HoldsOrder /\ WholeOrder /\ Versions
CloseInv == RequestsAreEarly /\ LiftsAll /\ CancelledOrderIsClosed

-----------------------------------------------------------------------------
(* What a step of one transaction leaves alone *)

Step(w) == Begin(w) \/ Advance(w) \/ Fail(w)

\* The locals of the other transactions, and their locks.
Apart(w) ==
    \A v \in Worker \ {w} :
        /\ pc'[v] = pc[v] /\ job'[v] = job[v] /\ todo'[v] = todo[v] /\ seen'[v] = seen[v]
        /\ due'[v] = due[v] /\ put'[v] = put[v]

LocksApart(w) ==
    /\ \A o \in Order : holder'[o] # holder[o] => holder[o] = w \/ (holder'[o] = w /\ holder[o] = None)
    /\ \A d \in Doc : rowlock'[d] # rowlock[d] => rowlock[d] = w \/ (rowlock'[d] = w /\ rowlock[d] = None)

LocalFrame(w) == LocalShape' /\ Apart(w) /\ LocksApart(w)

LEMMA EndFrame ==
  ASSUME LocalShape, NEW w \in Worker, End(w)
  PROVE  LocalFrame(w)
<1> USE DEF LocalShape, End
<1>1. /\ holder' \in [Order -> Worker \cup {None}] /\ rowlock' \in [Doc -> Worker \cup {None}]
      /\ LocksApart(w)
  BY DEF LocksApart
<1>2. /\ pc' \in [Worker -> PC] /\ job' \in [Worker -> Job \cup {NoJob}]
      /\ todo' \in [Worker -> SUBSET Doc]
  BY DEF PC
<1>3. seen' \in [Worker -> [Doc -> DocStatus]]
  BY DEF NothingSeen, DocStatus
<1>4. /\ due' \in [Worker -> [Doc -> Int]] /\ left' \in [Worker -> Nat]
      /\ put' \in [Worker -> [Doc -> Nat]]
  BY DEF Zeros
<1>5. Apart(w)
  BY DEF Apart
<1> QED BY <1>1, <1>2, <1>3, <1>4, <1>5 DEF LocalFrame

LEMMA StartFrame ==
  ASSUME LocalShape, NEW w \in Worker, NEW j \in Job, Start(w, j)
  PROVE  LocalFrame(w)
BY DEF LocalShape, Start, LocalFrame, Apart, LocksApart, PC

LEMMA ScanFrame ==
  ASSUME LocalShape, NEW w \in Worker, Scan(w)
  PROVE  LocalFrame(w)
BY DEF LocalShape, Scan, LocalFrame, Apart, LocksApart, PC

LEMMA RepeatFrame ==
  ASSUME LocalShape, NEW w \in Worker, NEW j \in Job, NEW r, Repeat(w, j, r)
  PROVE  LocalFrame(w)
<1>1. CASE End(w)
  BY <1>1, EndFrame
<1>2. CASE ~End(w)
  <2> USE DEF LocalShape
  <2>1. /\ pc' = [pc EXCEPT ![w] = "order"]
        /\ job' = [job EXCEPT ![w] = [j EXCEPT !.op = "resolve"]]
        /\ holder' = [o \in Order |-> IF holder[o] = w THEN None ELSE holder[o]]
        /\ rowlock' = [d \in Doc |-> IF rowlock[d] = w THEN None ELSE rowlock[d]]
        /\ seen' = [seen EXCEPT ![w] = NothingSeen]
        /\ UNCHANGED <<todo, due, left, put>>
    BY <1>2, Zenon DEF Repeat
  <2>2. [j EXCEPT !.op = "resolve"] \in Job
    BY DEF Job
  <2>3. /\ holder' \in [Order -> Worker \cup {None}] /\ rowlock' \in [Doc -> Worker \cup {None}]
        /\ LocksApart(w)
    BY <2>1 DEF LocksApart
  <2>4. pc' \in [Worker -> PC] /\ job' \in [Worker -> Job \cup {NoJob}]
    BY <2>1, <2>2 DEF PC
  <2>5. seen' \in [Worker -> [Doc -> DocStatus]]
    BY <2>1 DEF NothingSeen, DocStatus
  <2>6. Apart(w)
    BY <2>1 DEF Apart
  <2> QED BY <2>1, <2>3, <2>4, <2>5, <2>6 DEF LocalFrame
<1> QED BY <1>1, <1>2

\* The job of a payment that begins.
PayJob(r, d, out, a) ==
    [op |-> "pay", order |-> doc[d].order, doc |-> d, ref |-> r, out |-> out, amount |-> a]

LEMMA PayJobTyped ==
  ASSUME Typed, NEW w \in Worker, NEW r \in Ref, NEW d \in Doc, NEW out \in Outcome, NEW a \in Amount,
         Exists(d)
  PROVE  PayJob(r, d, out, a) \in Job
BY PaymentsAssumption DEF PaymentsAssumption, Typed, RowsMakeSense, PayJob, Job

LEMMA BeginFrame ==
  ASSUME Typed, NEW w \in Worker, Begin(w)
  PROVE  LocalFrame(w)
<1> USE DEF Typed
<1>1. ASSUME NEW r \in Ref, NEW d \in Doc, NEW out \in Outcome, NEW a \in Amount, Pay(w, r, d, out, a)
      PROVE  LocalFrame(w)
  <2>1. PayJob(r, d, out, a) \in Job
    BY <1>1, PayJobTyped DEF Pay
  <2>2. CASE attempt[r].status = "none"
    <3>1. Start(w, PayJob(r, d, out, a))
      BY <1>1, <2>2 DEF Pay, PayJob
    <3> QED BY <2>1, <3>1, StartFrame
  <2>3. CASE attempt[r].status # "none"
    <3>1. Repeat(w, PayJob(r, d, out, a), attempt[r])
      BY <1>1, <2>3 DEF Pay, PayJob
    <3> QED BY <2>1, <3>1, RepeatFrame
  <2> QED BY <2>2, <2>3
<1>2. ASSUME NEW d \in Doc, Withdraw(w, d) PROVE LocalFrame(w)
  <2>1. Plain("withdraw", doc[d].order, d, 0) \in Job
    BY <1>2 DEF Withdraw, RowsMakeSense, Plain, Job
  <2> QED BY <1>2, <2>1, StartFrame DEF Withdraw
<1>3. ASSUME NEW o \in Order, CancelOrder(w, o) PROVE LocalFrame(w)
  <2>1. Plain("cancel", o, None, 0) \in Job
    BY DEF Plain, Job
  <2> QED BY <1>3, <2>1, StartFrame DEF CancelOrder
<1>4. ASSUME NEW o \in Order, Request(w, o) PROVE LocalFrame(w)
  <2>1. Plain("request", o, None, 0) \in Job
    BY DEF Plain, Job
  <2> QED BY <1>4, <2>1, StartFrame DEF Request
<1>5. ASSUME NEW o \in Order, NEW a \in Amount \cup {0}, Edit(w, o, a) PROVE LocalFrame(w)
  <2>1. Plain("edit", o, None, a) \in Job
    BY PaymentsAssumption DEF PaymentsAssumption, Plain, Job
  <2> QED BY <1>5, <2>1, StartFrame DEF Edit
<1> QED BY <1>1, <1>2, <1>3, <1>4, <1>5 DEF Begin

LEMMA LockFrame ==
  ASSUME Typed, NEW w \in Worker,
         LockOrder(w) \/ (\E d \in Doc : LockRow(w, d)) \/ PreferNamed(w) \/ PreferHead(w)
  PROVE  LocalFrame(w)
<1> USE DEF Typed, LocalShape, LocalFrame, Apart, LocksApart, data
<1>1. CASE LockOrder(w)
  <2>1. job[w] \in Job /\ holder[job[w].order] = None
    BY <1>1 DEF LockOrder, OrderFree, JobsMakeSense, JobMakesSense
  <2>2. /\ holder' \in [Order -> Worker \cup {None}]
        /\ \A o \in Order : holder'[o] # holder[o] => holder'[o] = w /\ holder[o] = None
    BY <1>1, <2>1 DEF LockOrder, Job
  <2>3. pc' \in [Worker -> PC]
    BY <1>1 DEF LockOrder, PC
  <2>4. todo' \in [Worker -> SUBSET Doc]
    <3>1. DocsOf(job[w].order) \subseteq Doc
      BY DEF DocsOf
    <3>2. job[w].op \in {"pay", "withdraw"} => job[w].doc \in Doc
      BY <1>1 DEF LockOrder, JobsMakeSense, JobMakesSense
    <3> QED BY <1>1, <3>1, <3>2 DEF LockOrder
  <2> QED BY <1>1, <2>2, <2>3, <2>4 DEF LockOrder
<1>2. ASSUME NEW d \in Doc, LockRow(w, d) PROVE LocalFrame(w)
  <2>1. Recheck(d) \in DocStatus
    BY DEF Recheck, DataShape, DocRow
  <2> QED BY <1>2, <2>1 DEF LockRow, Free
<1>3. CASE PreferNamed(w)
  BY <1>3 DEF PreferNamed, locals, PC
<1>4. CASE PreferHead(w)
  <2>1. /\ rowlock' \in [Doc -> Worker \cup {None}]
        /\ \A d \in Doc : rowlock'[d] # rowlock[d] => (rowlock'[d] = w /\ rowlock[d] = None)
    BY <1>4 DEF PreferHead, Free
  <2>2. pc' \in [Worker -> PC] /\ \A v \in Worker \ {w} : pc'[v] = pc[v]
    BY <1>4 DEF PreferHead, PC
  <2>3. seen' \in [Worker -> [Doc -> DocStatus]] /\ \A v \in Worker \ {w} : seen'[v] = seen[v]
    <3>1. \/ UNCHANGED seen
          \/ seen' = [seen EXCEPT ![w] = NothingSeen]
          \/ seen' = [seen EXCEPT ![w][pref[w]] = doc[pref[w]].status]
             /\ doc[pref[w]].status \in DocStatus
      BY <1>4 DEF PreferHead, Open, DocStatus
    <3>2. NothingSeen \in [Doc -> DocStatus]
      BY DEF NothingSeen, DocStatus
    <3>3. CASE seen' = [seen EXCEPT ![w] = NothingSeen]
      BY <3>2, <3>3
    <3>4. CASE seen' = [seen EXCEPT ![w][pref[w]] = doc[pref[w]].status]
               /\ doc[pref[w]].status \in DocStatus
      BY <3>4
    <3> QED BY <3>1, <3>3, <3>4
  <2> QED BY <1>4, <2>1, <2>2, <2>3 DEF PreferHead
<1> QED BY <1>1, <1>2, <1>3, <1>4

LEMMA ReadFrame ==
  ASSUME Typed, NEW w \in Worker, ReadPaid(w) \/ ReadNet(w) \/ AllotNext(w)
  PROVE  LocalFrame(w)
<1> USE DEF Typed, LocalShape, LocalFrame, Apart, LocksApart, DataShape
<1>1. CASE ReadPaid(w)
  <2>1. job[w] \in Job
    BY <1>1 DEF ReadPaid, JobsMakeSense, JobMakesSense
  <2>2. left' \in [Worker -> Nat]
    BY <1>1, <2>1 DEF ReadPaid, Job
  <2>3. \A d \in Doc : doc[d].price - laid[d] \in Int
    BY DEF DocRow
  <2>4. due' \in [Worker -> [Doc -> Int]]
    BY <1>1, <2>3 DEF ReadPaid
  <2> QED BY <1>1, <2>2, <2>4 DEF ReadPaid, PC
<1>2. CASE ReadNet(w)
  <2>1. \A d \in Doc : Net(d) \in Int
    BY DEF Net
  <2>2. due' \in [Worker -> [Doc -> Int]]
    BY <1>2, <2>1 DEF ReadNet
  <2> QED BY <1>2, <2>2 DEF ReadNet, PC
<1>3. CASE AllotNext(w)
  <2>1. PICK d \in Waiting(w) : /\ put' = [put EXCEPT ![w][d] = Smaller(left[w], due[w][d])]
                                /\ left' = [left EXCEPT ![w] = @ - Smaller(@, due[w][d])]
    BY <1>3 DEF AllotNext
  <2>2. d \in Doc /\ due[w][d] > 0 /\ due[w][d] \in Int /\ left[w] \in Nat
    BY <2>1 DEF Waiting
  <2>3. Smaller(left[w], due[w][d]) \in Nat /\ left[w] - Smaller(left[w], due[w][d]) \in Nat
    BY <2>2 DEF Smaller
  <2>4. left' \in [Worker -> Nat] /\ put' \in [Worker -> [Doc -> Nat]]
    BY <2>1, <2>2, <2>3
  <2>5. \A v \in Worker \ {w} : put'[v] = put[v]
    BY <2>1
  <2> QED BY <1>3, <2>4, <2>5 DEF AllotNext
<1> QED BY <1>1, <1>2, <1>3

LEMMA CommitFrame ==
  ASSUME Typed, NEW w \in Worker,
         \/ Fail(w) \/ InsertCaptured(w) \/ InsertOther(w) \/ InsertLost(w) \/ Reread(w)
         \/ CommitCapture(w) \/ CommitWithdraw(w) \/ CommitCancel(w) \/ CommitIssue(w)
  PROVE  LocalFrame(w)
<1> USE DEF Typed
<1>1. CASE End(w)
  BY <1>1, EndFrame
<1>2. CASE Scan(w)
  BY <1>2, ScanFrame
<1>3. ASSUME InsertLost(w), Repeat(w, job[w], attempt[job[w].ref]) PROVE LocalFrame(w)
  <2>1. job[w] \in Job
    BY <1>3 DEF InsertLost, HasRows, JobsMakeSense, JobMakesSense
  <2> QED BY <1>3, <2>1, RepeatFrame
<1> QED BY <1>1, <1>2, <1>3 DEF Fail, InsertCaptured, InsertOther, InsertLost, Reread, CommitCapture,
       CommitWithdraw, CommitCancel, CommitIssue

LEMMA StepFrame ==
  ASSUME Typed, NEW w \in Worker, Step(w)
  PROVE  LocalFrame(w)
BY BeginFrame, LockFrame, ReadFrame, CommitFrame DEF Step, Advance

-----------------------------------------------------------------------------
(* What a step writes *)

Restated(d, status) == doc'[d] = [doc[d] EXCEPT !.status = status]
Superseded(d) == \E n \in Doc : doc'[d] = [doc[d] EXCEPT !.status = "superseded", !.next = n]
NewRow(d, o) == \E status \in Open, a \in Amount :
                  doc'[d] = [order |-> o, status |-> status, price |-> a, next |-> None]

\* A row changes under its lock, from a status that was read, or is new.
RowChanges(w, d) ==
    \/ doc'[d] = doc[d]
    \/ seen[w][d] \in Open /\ (Restated(d, "issued") \/ Superseded(d))
    \/ seen[w][d] \in Current /\ Restated(d, "cancelled")
    \/ CommitCapture(w) /\ d \in Covered(w) /\ Restated(d, "paid")
    \/ CommitIssue(w) /\ ~Exists(d) /\ NewRow(d, job[w].order)

Rows(w) == doc' \in [Doc -> DocRow] /\ \A d \in Doc : RowChanges(w, d)

LEMMA RowEdited ==
  ASSUME NEW r \in DocRow, NEW status \in DocStatus
  PROVE  /\ [r EXCEPT !.status = status] \in DocRow
         /\ \A n \in Doc : [r EXCEPT !.status = status, !.next = n] \in DocRow
BY DEF DocRow

LEMMA IssueRows ==
  ASSUME Typed, NEW w \in Worker, CommitIssue(w)
  PROVE  Rows(w) /\ content' \in [Order -> Amount \cup {0}]
<1> USE DEF Typed, DataShape, LocalShape
<1> DEFINE j == job[w]
           wanted == IF j.op = "edit" THEN j.amount ELSE content[j.order]
           unpaid == Head(w) \cap OpenSeen(w)
           first == IF j.op = "request" THEN "issued" ELSE "pending"
           status == IF unpaid = {} THEN first ELSE seen[w][CHOOSE d \in unpaid : TRUE]
<1>1. j.order \in Order /\ wanted \in Amount \cup {0}
  BY DEF CommitIssue, HasRows, JobsMakeSense, JobMakesSense, Job
<1>2. unpaid \subseteq Doc /\ \A d \in unpaid : seen[w][d] \in Open
  BY DEF OpenSeen
<1>3. status \in Open
  <2>1. CASE unpaid = {}
    BY <2>1 DEF Open
  <2>2. CASE unpaid # {}
    <3>1. (CHOOSE d \in unpaid : TRUE) \in unpaid
      BY <2>2, Zenon
    <3> QED BY <1>2, <2>2, <3>1
  <2> QED BY <2>1, <2>2
<1> HIDE DEF status, unpaid, wanted
<1>4. ASSUME doc' = doc PROVE Rows(w)
  BY <1>4 DEF Rows, RowChanges
<1>5. ASSUME doc' = [d \in Doc |-> IF d \in unpaid THEN [doc[d] EXCEPT !.status = "cancelled"] ELSE doc[d]]
      PROVE  Rows(w)
  <2>1. doc' \in [Doc -> DocRow]
    <3>1. "cancelled" \in DocStatus
      BY DEF DocStatus
    <3> QED BY <1>5, <3>1, RowEdited
  <2>2. ASSUME NEW d \in Doc PROVE RowChanges(w, d)
    BY <1>2, <1>5 DEF RowChanges, Restated, Current
  <2> QED BY <2>1, <2>2 DEF Rows
<1>6. ASSUME wanted # 0 /\ NewVersion(j.order, unpaid, status, wanted) PROVE Rows(w)
  <2>1. PICK n \in Unused :
          doc' = [d \in Doc |->
             IF d = n THEN [order |-> j.order, status |-> status, price |-> wanted, next |-> None]
             ELSE IF d \in unpaid THEN [doc[d] EXCEPT !.status = "superseded", !.next = n]
             ELSE doc[d]]
    BY <1>6 DEF NewVersion
  <2>2. n \in Doc /\ ~Exists(n) /\ wanted \in Amount
    BY <1>1, <1>6 DEF Unused
  <2>3. [order |-> j.order, status |-> status, price |-> wanted, next |-> None] \in DocRow
    BY <1>1, <1>3, <2>2, PaymentsAssumption DEF DocRow, DocStatus, Open, PaymentsAssumption
  <2>4. doc' \in [Doc -> DocRow]
    <3>1. ASSUME NEW d \in Doc PROVE [doc[d] EXCEPT !.status = "superseded", !.next = n] \in DocRow
      <4>1. "superseded" \in DocStatus
        BY DEF DocStatus
      <4> QED BY <2>2, <4>1, RowEdited
    <3> QED BY <2>1, <2>3, <3>1
  <2>5. RowChanges(w, n)
    BY <1>3, <2>1, <2>2 DEF RowChanges, NewRow
  <2>6. ASSUME NEW d \in Doc \ {n} PROVE RowChanges(w, d)
    BY <1>2, <2>1, <2>2 DEF RowChanges, Superseded
  <2> QED BY <2>4, <2>5, <2>6 DEF Rows
<1>7. content' \in [Order -> Amount \cup {0}]
  <2>1. content' = content \/ content' = [content EXCEPT ![j.order] = wanted]
    BY Zenon DEF CommitIssue, wanted
  <2> QED BY <1>1, <2>1
<1>8. \/ doc' = doc
      \/ doc' = [d \in Doc |-> IF d \in unpaid THEN [doc[d] EXCEPT !.status = "cancelled"] ELSE doc[d]]
      \/ wanted # 0 /\ NewVersion(j.order, unpaid, status, wanted)
  BY Zenon DEF CommitIssue, wanted, unpaid, status
<1> QED BY <1>4, <1>5, <1>6, <1>7, <1>8

\* The steps that write no row, attempt, entry or order.
LEMMA QuietSteps ==
  ASSUME NEW w \in Worker, Step(w)
  PROVE  \/ /\ UNCHANGED <<doc, placed, content, attempt, laid, lifted>>
            /\ UNCHANGED <<issues, told>> \/ (\E r \in Ref, d \in Doc, out \in Outcome, a \in Amount :
                  Pay(w, r, d, out, a)) \/ InsertLost(w)
         \/ InsertOther(w) \/ Reread(w) \/ CommitCapture(w) \/ CommitWithdraw(w)
         \/ CommitCancel(w) \/ CommitIssue(w)
BY DEF Step, Begin, Advance, Fail, Pay, Withdraw, CancelOrder, Request, Edit, LockOrder, LockRow,
     InsertCaptured, InsertLost, PreferNamed, PreferHead, ReadPaid, AllotNext, ReadNet, data

LEMMA StepRows ==
  ASSUME Typed, NEW w \in Worker, Step(w)
  PROVE  Rows(w)
<1> USE DEF Typed, DataShape, LocalShape
<1>1. CASE doc' = doc
  BY <1>1 DEF Rows, RowChanges
<1>2. CASE InsertOther(w)
  <2>1. PICK e \in Doc : \/ doc' = doc
                         \/ seen[w][e] = "pending" /\ doc' = [doc EXCEPT ![e].status = "issued"]
    BY <1>2 DEF InsertOther, HasRows, JobsMakeSense, JobMakesSense
  <2>2. CASE seen[w][e] = "pending" /\ doc' = [doc EXCEPT ![e].status = "issued"]
    <3>1. [doc[e] EXCEPT !.status = "issued"] \in DocRow
      BY RowEdited DEF DocStatus
    <3>2. doc' = [doc EXCEPT ![e] = [doc[e] EXCEPT !.status = "issued"]]
      BY <2>2
    <3> QED BY <2>2, <3>1, <3>2 DEF Rows, RowChanges, Restated, Open
  <2> QED BY <1>1, <2>1, <2>2
<1>3. CASE CommitCapture(w)
  <2>1. doc' = [d \in Doc |-> IF d \in Covered(w) THEN [doc[d] EXCEPT !.status = "paid"] ELSE doc[d]]
    BY <1>3 DEF CommitCapture
  <2>2. \A d \in Doc : [doc[d] EXCEPT !.status = "paid"] \in DocRow
    BY RowEdited DEF DocStatus
  <2>3. doc' \in [Doc -> DocRow]
    BY <2>1, <2>2
  <2> QED BY <1>3, <2>1, <2>3 DEF Rows, RowChanges, Restated
<1>4. CASE CommitWithdraw(w)
  <2>1. PICK e \in Doc : \/ doc' = doc
                         \/ seen[w][e] \in Open /\ doc' = [doc EXCEPT ![e].status = "cancelled"]
    BY <1>4 DEF CommitWithdraw, JobsMakeSense, JobMakesSense
  <2>2. CASE seen[w][e] \in Open /\ doc' = [doc EXCEPT ![e].status = "cancelled"]
    <3>1. [doc[e] EXCEPT !.status = "cancelled"] \in DocRow
      BY RowEdited DEF DocStatus
    <3>2. doc' = [doc EXCEPT ![e] = [doc[e] EXCEPT !.status = "cancelled"]]
      BY <2>2
    <3> QED BY <2>2, <3>1, <3>2 DEF Rows, RowChanges, Restated, Current
  <2> QED BY <1>1, <2>1, <2>2
<1>5. CASE CommitCancel(w)
  <2>1. PICK D \in SUBSET Doc :
           /\ \A d \in D : seen[w][d] \in Open \cup {"paid"}
           /\ doc' = [d \in Doc |-> IF d \in D THEN [doc[d] EXCEPT !.status = "cancelled"] ELSE doc[d]]
    <3> DEFINE D == {d \in Doc : seen[w][d] \in Open \cup {"paid"} /\ doc[d].next = None}
    <3> WITNESS D \in SUBSET Doc
    <3> QED BY <1>5 DEF CommitCancel
  <2>2. \A d \in Doc : [doc[d] EXCEPT !.status = "cancelled"] \in DocRow
    BY RowEdited DEF DocStatus
  <2>3. doc' \in [Doc -> DocRow]
    BY <2>1, <2>2
  <2> QED BY <2>1, <2>3 DEF Rows, RowChanges, Restated, Current
<1>6. CASE CommitIssue(w)
  BY <1>6, IssueRows
<1>7. Reread(w) => doc' = doc
  BY DEF Reread
<1> QED BY <1>1, <1>2, <1>3, <1>4, <1>5, <1>6, <1>7, QuietSteps

LEMMA StepData ==
  ASSUME Typed, NEW w \in Worker, Step(w)
  PROVE  DataShape'
<1> USE DEF Typed, DataShape, LocalShape
<1>1. doc' \in [Doc -> DocRow]
  BY StepRows DEF Rows
<1>2. CASE UNCHANGED <<placed, content, attempt, laid, lifted>>
  BY <1>1, <1>2
<1>3. CASE InsertOther(w)
  <2>1. job[w].ref \in Ref /\ job[w].out \in Outcome /\ job[w].doc \in Doc /\ job[w].amount \in Nat
    BY <1>3 DEF InsertOther, HasRows, JobsMakeSense, JobMakesSense, Pays, Job
  <2>2. [status |-> job[w].out, doc |-> job[w].doc, amount |-> job[w].amount] \in Attempt
    BY <2>1, PaymentsAssumption DEF PaymentsAssumption, Attempt, Final
  <2>3. attempt' \in [Ref -> Attempt]
    BY <1>3, <2>2 DEF InsertOther
  <2> QED BY <1>1, <1>3, <2>3 DEF InsertOther
<1>4. CASE Reread(w)
  <2>1. job[w].ref \in Ref /\ job[w].out \in Outcome
    BY <1>4 DEF Reread, JobsMakeSense, JobMakesSense, Pays
  <2>2. [attempt[job[w].ref] EXCEPT !.status = job[w].out] \in Attempt
    <3>1. attempt[job[w].ref] \in Attempt
      BY <2>1
    <3>2. job[w].out \in Final \cup {"none", "pending"}
      BY <2>1, PaymentsAssumption DEF PaymentsAssumption
    <3> QED BY <3>1, <3>2 DEF Attempt
  <2>3. attempt' \in [Ref -> Attempt]
    BY <1>4, <2>1, <2>2 DEF Reread
  <2> QED BY <1>1, <1>4, <2>3 DEF Reread
<1>5. CASE CommitCapture(w)
  <2>1. job[w].ref \in Ref /\ job[w].doc \in Doc /\ job[w].amount \in Nat
    BY <1>5 DEF CommitCapture, JobsMakeSense, JobMakesSense, Pays, Allocates, Job
  <2>2. attempt' \in [Ref -> Attempt]
    BY <1>5, <2>1 DEF CommitCapture, Attempt, Final
  <2>3. laid' \in [Doc -> Nat]
    BY <1>5 DEF CommitCapture
  <2> QED BY <1>1, <1>5, <2>2, <2>3 DEF CommitCapture
<1>6. CASE CommitCancel(w)
  <2>1. lifted' \in [Doc -> Int]
    BY <1>6 DEF CommitCancel
  <2> QED BY <1>1, <1>6, <2>1 DEF CommitCancel
<1>7. CASE CommitIssue(w)
  BY <1>1, <1>7, IssueRows DEF CommitIssue
<1>8. CommitWithdraw(w) => UNCHANGED <<placed, content, attempt, laid, lifted>>
  BY DEF CommitWithdraw
<1> QED BY <1>2, <1>3, <1>4, <1>5, <1>6, <1>7, <1>8, QuietSteps

-----------------------------------------------------------------------------
(* Rows, jobs and what a transaction read *)

LEMMA OpenIsRead ==
  ASSUME BaseInv, NEW w \in Worker, NEW d \in Doc, pc[w] = "allot", due[w][d] > 0
  PROVE  seen[w][d] \in Open /\ Exists(d)
<1>1. seen[w][d] \in Open
  BY DEF BaseInv, Allotting
<1>2. seen[w][d] # "none"
  BY <1>1 DEF Open
<1> QED BY <1>1, <1>2 DEF BaseInv, SeenIsCurrent, Exists

\* A row is changed by who read it, and keeps its order and its price.
LEMMA RowsKept ==
  ASSUME BaseInv, NEW w \in Worker, Step(w), NEW d \in Doc
  PROVE  /\ Exists(d) => Exists(d)' /\ doc'[d].order = doc[d].order /\ doc'[d].price = doc[d].price
         /\ Exists(d) /\ seen[w][d] = "none" => doc'[d] = doc[d]
         /\ ~Exists(d) /\ doc'[d] # doc[d] => CommitIssue(w) /\ NewRow(d, job[w].order)
<1> USE DEF BaseInv, Typed, DataShape
<1>1. RowChanges(w, d)
  BY StepRows DEF Rows
<1>2. doc[d] \in DocRow
  OBVIOUS
<1>3. CASE doc'[d] = doc[d]
  BY <1>3 DEF Exists
<1>4. CASE seen[w][d] \in Current /\ \E status \in DocStatus \ {"none"} : Restated(d, status)
  <2>1. seen[w][d] # "none" /\ Exists(d)
    BY <1>4 DEF Current, Open, SeenIsCurrent, Exists
  <2> QED BY <1>2, <1>4, <2>1 DEF Restated, Exists, DocRow
<1>5. CASE seen[w][d] \in Open /\ Superseded(d)
  <2>1. seen[w][d] # "none" /\ Exists(d)
    BY <1>5 DEF Open, SeenIsCurrent, Exists
  <2> QED BY <1>2, <1>5, <2>1 DEF Superseded, Exists, DocRow
<1>6. CASE CommitCapture(w) /\ d \in Covered(w) /\ Restated(d, "paid")
  <2>1. seen[w][d] \in Open
    BY <1>6, OpenIsRead DEF CommitCapture, Covered
  <2> QED BY <1>4, <1>6, <2>1 DEF Current, DocStatus
<1>7. CASE CommitIssue(w) /\ ~Exists(d) /\ NewRow(d, job[w].order)
  BY <1>7
<1> QED BY <1>1, <1>3, <1>4, <1>5, <1>6, <1>7 DEF RowChanges, Current, DocStatus

LEMMA RowsSenseStep ==
  ASSUME BaseInv, NEW w \in Worker, Step(w)
  PROVE  RowsMakeSense'
<1> USE DEF BaseInv, Typed, DataShape
<1> SUFFICES ASSUME NEW d \in Doc
             PROVE  /\ ~Exists(d)' => doc'[d].price = 0 /\ doc'[d].order = None
                    /\ Exists(d)' => doc'[d].order \in Order
                    /\ doc'[d].next # None => doc'[d].status = "superseded"
  BY DEF RowsMakeSense
<1>1. RowChanges(w, d) /\ doc[d] \in DocRow
  BY StepRows DEF Rows
<1>2. /\ ~Exists(d) => doc[d].price = 0 /\ doc[d].order = None
      /\ Exists(d) => doc[d].order \in Order
      /\ doc[d].next # None => doc[d].status = "superseded"
  BY DEF RowsMakeSense
<1>3. CASE doc'[d] = doc[d]
  BY <1>2, <1>3 DEF Exists
<1>4. CASE seen[w][d] \in Current /\ \E status \in DocStatus \ {"none"} : Restated(d, status)
  <2>1. Exists(d) /\ doc[d].status \in Current
    BY <1>4 DEF Current, Open, SeenIsCurrent, Exists
  <2>2. doc[d].next = None
    BY <1>2, <2>1 DEF Current, Open
  <2> QED BY <1>1, <1>2, <1>4, <2>1, <2>2 DEF Restated, Exists, DocRow
<1>5. CASE seen[w][d] \in Open /\ Superseded(d)
  <2>1. Exists(d)
    BY <1>5 DEF Open, SeenIsCurrent, Exists
  <2> QED BY <1>1, <1>2, <1>5, <2>1 DEF Superseded, Exists, DocRow
<1>6. CASE CommitCapture(w) /\ d \in Covered(w) /\ Restated(d, "paid")
  <2>1. seen[w][d] \in Open
    BY <1>6, OpenIsRead DEF CommitCapture, Covered
  <2> QED BY <1>4, <1>6, <2>1 DEF Current, DocStatus
<1>7. CASE CommitIssue(w) /\ ~Exists(d) /\ NewRow(d, job[w].order)
  <2>1. job[w].order \in Order
    BY <1>7 DEF CommitIssue, HasRows, JobsMakeSense, JobMakesSense, Job
  <2> QED BY <1>7, <2>1 DEF NewRow, Exists, Open
<1> QED BY <1>1, <1>3, <1>4, <1>5, <1>6, <1>7 DEF RowChanges, Current, DocStatus

\* Where a transaction's own step takes it.
LEMMA Ended ==
  ASSUME LocalShape, NEW w \in Worker, End(w)
  PROVE  pc'[w] = "idle" /\ seen'[w] = NothingSeen /\ put'[w] = Zeros
BY DEF LocalShape, End

LEMMA BeginPlace ==
  ASSUME Typed, NEW w \in Worker, Begin(w)
  PROVE  /\ pc[w] = "idle" /\ put'[w] \in {put[w], Zeros}
         /\ \/ pc'[w] = "idle"
            \/ pc'[w] = "order" /\ JobMakesSense(w)'
         /\ doc' = doc
         /\ seen'[w] = NothingSeen \/ (seen'[w] = seen[w] /\ rowlock' = rowlock)
<1> USE DEF Typed, LocalShape
<1>1. ASSUME NEW r \in Ref, NEW d \in Doc, NEW out \in Outcome, NEW a \in Amount, Pay(w, r, d, out, a)
      PROVE  /\ pc[w] = "idle" /\ put'[w] \in {put[w], Zeros}
             /\ \/ pc'[w] = "idle"
                \/ pc'[w] = "order" /\ JobMakesSense(w)'
             /\ doc' = doc
             /\ seen'[w] = NothingSeen \/ (seen'[w] = seen[w] /\ rowlock' = rowlock)
  <2> DEFINE j == PayJob(r, d, out, a)
  <2>1. j \in Job /\ Exists(d) /\ doc' = doc /\ pc[w] = "idle"
    BY <1>1, PayJobTyped DEF Pay, Idle
  <2>2. /\ [j EXCEPT !.op = "resolve"] \in Job
        /\ j.op = "pay" /\ j.doc = d /\ j.ref = r /\ j.out = out /\ j.order = doc[d].order
    BY <2>1 DEF PayJob, Job
  <2> HIDE DEF j
  <2>3. CASE Start(w, j)
    BY <2>1, <2>2, <2>3 DEF Start, JobMakesSense, Pays, Exists
  <2>4. CASE End(w)
    BY <2>1, <2>4, Ended
  <2>5. CASE ~Start(w, j) /\ ~End(w)
    <3>1. Repeat(w, j, attempt[r])
      BY <1>1, <2>5 DEF Pay, PayJob, j
    <3>2. /\ pc' = [pc EXCEPT ![w] = "order"]
          /\ job' = [job EXCEPT ![w] = [j EXCEPT !.op = "resolve"]]
          /\ seen' = [seen EXCEPT ![w] = NothingSeen]
          /\ UNCHANGED <<todo, put>>
      BY <2>5, <3>1, Zenon DEF Repeat
    <3> QED BY <2>1, <2>2, <3>2 DEF JobMakesSense, Pays, Exists, Job
  <2> QED BY <2>3, <2>4, <2>5
<1>2. ASSUME NEW j \in Job, pc[w] = "idle", Start(w, j), doc' = doc,
             j.op \notin {"pay", "resolve"}, j.op = "withdraw" => j.doc \in Doc,
             j.op = "edit" => j.amount \in Amount \cup {0}
      PROVE  /\ put'[w] = put[w] /\ seen'[w] = seen[w] /\ rowlock' = rowlock
             /\ pc'[w] = "order" /\ JobMakesSense(w)'
  BY <1>2 DEF Start, JobMakesSense, Pays
<1>3. ASSUME NEW d \in Doc, Withdraw(w, d)
      PROVE  \E j \in Job : /\ Start(w, j) /\ pc[w] = "idle" /\ doc' = doc
                /\ j.op \notin {"pay", "resolve"} /\ (j.op = "withdraw" => j.doc \in Doc)
                /\ (j.op = "edit" => j.amount \in Amount \cup {0})
  <2>1. Plain("withdraw", doc[d].order, d, 0) \in Job
    BY <1>3 DEF Withdraw, RowsMakeSense, Plain, Job
  <2> QED BY <1>3, <2>1 DEF Withdraw, Idle, data, Plain
<1>4. ASSUME NEW o \in Order, CancelOrder(w, o) \/ Request(w, o)
      PROVE  \E j \in Job : /\ Start(w, j) /\ pc[w] = "idle" /\ doc' = doc
                /\ j.op \notin {"pay", "resolve"} /\ (j.op = "withdraw" => j.doc \in Doc)
                /\ (j.op = "edit" => j.amount \in Amount \cup {0})
  <2>1. Plain("cancel", o, None, 0) \in Job /\ Plain("request", o, None, 0) \in Job
    BY DEF Plain, Job
  <2> QED BY <1>4, <2>1 DEF CancelOrder, Request, Idle, data, Plain
<1>5. ASSUME NEW o \in Order, NEW a \in Amount \cup {0}, Edit(w, o, a)
      PROVE  \E j \in Job : /\ Start(w, j) /\ pc[w] = "idle" /\ doc' = doc
                /\ j.op \notin {"pay", "resolve"} /\ (j.op = "withdraw" => j.doc \in Doc)
                /\ (j.op = "edit" => j.amount \in Amount \cup {0})
  <2>1. Plain("edit", o, None, a) \in Job
    <3>1. a \in Nat
      BY PaymentsAssumption DEF PaymentsAssumption
    <3> QED BY <3>1 DEF Plain, Job
  <2> QED BY <1>5, <2>1 DEF Edit, Idle, data, Plain
<1> QED BY <1>1, <1>2, <1>3, <1>4, <1>5 DEF Begin

\* A repeat found by an insert that lost ends, or starts again as a resolution.
LEMMA LostPlace ==
  ASSUME Typed, NEW w \in Worker, InsertLost(w)
  PROVE  /\ pc[w] \in {"insert", "rows"} /\ put'[w] \in {put[w], Zeros}
         /\ \/ pc'[w] = "idle"
            \/ pc'[w] = "order" /\ JobMakesSense(w)'
         /\ seen'[w] = NothingSeen
<1> USE DEF Typed, LocalShape
<1> DEFINE j == job[w]
<1>1. /\ pc[w] \in {"insert", "rows"} /\ doc' = doc
      /\ j \in Job /\ j.op = "pay" /\ j.doc \in Doc /\ j.ref \in Ref /\ j.out \in Outcome
      /\ Exists(j.doc) /\ doc[j.doc].order = j.order
  BY DEF InsertLost, HasRows, JobsMakeSense, JobMakesSense, Pays
<1>2. CASE End(w)
  BY <1>1, <1>2, Ended
<1>3. CASE ~End(w)
  <2>1. Repeat(w, j, attempt[j.ref])
    BY <1>3 DEF InsertLost
  <2>2. /\ pc' = [pc EXCEPT ![w] = "order"]
        /\ job' = [job EXCEPT ![w] = [j EXCEPT !.op = "resolve"]]
        /\ seen' = [seen EXCEPT ![w] = NothingSeen]
        /\ UNCHANGED <<todo, put>>
    BY <1>3, <2>1, Zenon DEF Repeat
  <2>3. [j EXCEPT !.op = "resolve"] \in Job
    BY <1>1 DEF Job
  <2> HIDE DEF j
  <2> QED BY <1>1, <2>2, <2>3 DEF JobMakesSense, Pays, Exists, Job
<1> QED BY <1>2, <1>3

\* A transaction that goes on keeps its job.
Goes(w, place) ==
    /\ pc'[w] = place /\ job'[w] = job[w]
    /\ UNCHANGED <<holder, doc, placed, content, attempt, laid, lifted>>

LEMMA AdvancePlace ==
  ASSUME Typed, NEW w \in Worker, Advance(w) \/ Fail(w)
  PROVE  \/ End(w)
         \/ InsertLost(w)
         \/ LockOrder(w) /\ UNCHANGED data /\ job'[w] = job[w] /\ pc[w] = "order" /\ pc'[w] \in {"insert", "reread", "rows"}
              /\ (pc'[w] = "insert" => job[w].op = "pay" /\ job[w].out = "captured")
              /\ (pc'[w] = "reread" => job[w].op = "resolve")
              /\ (pc'[w] = "rows" => job[w].op # "resolve" /\ ~(job[w].op = "pay" /\ job[w].out = "captured"))
         \/ pc[w] = "rows" /\ (\E d \in Doc : LockRow(w, d)) /\ Goes(w, "rows")
         \/ InsertCaptured(w) /\ pc[w] = "insert" /\ Scan(w) /\ Goes(w, "rows")
         \/ Reread(w) /\ pc[w] = "reread" /\ Scan(w) /\ Goes(w, "rows")
         \/ PreferNamed(w) /\ pc[w] = "rows" /\ Allocates(w) /\ Goes(w, "read")
         \/ PreferHead(w) /\ pc[w] = "rows" /\ Allocates(w) /\ (Goes(w, "read") \/ Goes(w, "rows"))
         \/ ReadPaid(w) /\ pc[w] = "read" /\ Allocates(w) /\ Goes(w, "allot")
         \/ AllotNext(w) /\ pc[w] = "allot" /\ Goes(w, "allot")
         \/ ReadNet(w) /\ pc[w] = "rows" /\ job[w].op \in {"withdraw", "cancel"} /\ todo[w] = {}
               /\ todo'[w] = {} /\ Goes(w, "write")
<1> USE DEF Typed, LocalShape, Goes, data
<1>1. CASE LockOrder(w)
  BY <1>1 DEF LockOrder, Allocates
<1>2. ASSUME NEW d \in Doc, LockRow(w, d)
      PROVE  pc[w] = "rows" /\ Goes(w, "rows")
  BY <1>2 DEF LockRow
<1>3. CASE InsertCaptured(w)
  BY <1>3 DEF InsertCaptured, Scan
<1>4. CASE Reread(w)
  BY <1>4 DEF Reread, Scan
<1>5. CASE PreferNamed(w)
  BY <1>5 DEF PreferNamed, HasRows, locals
<1>6. CASE PreferHead(w)
  BY <1>6 DEF PreferHead, HasRows
<1>7. CASE ReadPaid(w)
  BY <1>7 DEF ReadPaid
<1>8. CASE AllotNext(w)
  BY <1>8 DEF AllotNext
<1>9. CASE ReadNet(w)
  BY <1>9 DEF ReadNet, HasRows
<1>10. ASSUME \/ InsertOther(w) \/ CommitCapture(w) \/ CommitWithdraw(w) \/ CommitCancel(w)
              \/ CommitIssue(w) \/ Fail(w)
       PROVE  End(w)
  BY <1>10 DEF InsertOther, CommitCapture, CommitWithdraw, CommitCancel, CommitIssue, Fail
<1> QED BY <1>1, <1>2, <1>3, <1>4, <1>5, <1>6, <1>7, <1>8, <1>9, <1>10 DEF Advance

LEMMA JobsStep ==
  ASSUME BaseInv, NEW w \in Worker, Step(w)
  PROVE  JobsMakeSense'
<1> USE DEF BaseInv, Typed, LocalShape
<1>1. ASSUME NEW v \in Worker \ {w} PROVE JobMakesSense(v)'
  <2>1. JobMakesSense(v) /\ pc'[v] = pc[v] /\ job'[v] = job[v] /\ todo'[v] = todo[v]
    BY StepFrame DEF JobsMakeSense, LocalFrame, Apart
  <2>2. Pays(v) => Exists(job[v].doc)' /\ doc'[job[v].doc].order = job[v].order
    BY <2>1, RowsKept DEF JobMakesSense, Pays
  <2> QED BY <2>1, <2>2 DEF JobMakesSense, Pays, Allocates
<1>2. JobMakesSense(w)'
  <2>1. ASSUME pc'[w] = "idle" PROVE JobMakesSense(w)'
    BY <2>1 DEF JobMakesSense, Pays
  <2>2. CASE Begin(w)
    BY <2>1, <2>2, BeginPlace
  <2>3. CASE End(w)
    BY <2>1, <2>3, Ended
  <2>4. CASE InsertLost(w)
    BY <2>1, <2>4, LostPlace
  <2>5. JobMakesSense(w)
    BY DEF JobsMakeSense
  <2>6. ASSUME doc' = doc, pc[w] # "idle", job'[w] = job[w], NEW place \in PC \ {"idle"}, pc'[w] = place,
               place \in {"read", "allot"} => Allocates(w),
               place = "insert" => job[w].op = "pay" /\ job[w].out = "captured",
               place = "reread" => job[w].op = "resolve",
               place = "write" => job[w].op \in {"withdraw", "cancel"} /\ todo'[w] = {}
        PROVE  JobMakesSense(w)'
    BY <2>5, <2>6 DEF JobMakesSense, Pays, Allocates, Exists
  <2>7. CASE LockOrder(w) /\ UNCHANGED data /\ job'[w] = job[w] /\ pc[w] = "order"
             /\ pc'[w] \in {"insert", "reread", "rows"}
             /\ (pc'[w] = "insert" => job[w].op = "pay" /\ job[w].out = "captured")
             /\ (pc'[w] = "reread" => job[w].op = "resolve")
    BY <2>6, <2>7 DEF data, PC
  <2>8. CASE Goes(w, "rows") /\ pc[w] # "idle"
    BY <2>6, <2>8 DEF Goes, PC
  <2>9. CASE (Goes(w, "read") \/ Goes(w, "allot")) /\ pc[w] # "idle" /\ Allocates(w)
    BY <2>6, <2>9 DEF Goes, PC
  <2>10. CASE Goes(w, "write") /\ pc[w] # "idle" /\ job[w].op \in {"withdraw", "cancel"} /\ todo'[w] = {}
    BY <2>6, <2>10 DEF Goes, PC
  <2>11. pc[w] = "allot" => Allocates(w)
    BY <2>5 DEF JobMakesSense
  <2> QED BY <2>2, <2>3, <2>4, <2>7, <2>8, <2>9, <2>10, <2>11, AdvancePlace DEF Step
<1> QED BY <1>1, <1>2 DEF JobsMakeSense

LEMMA SeenStep ==
  ASSUME BaseInv, NEW w \in Worker, Step(w)
  PROVE  SeenIsCurrent'
<1> USE DEF BaseInv, Typed, LocalShape
<1>1. ASSUME NEW v \in Worker \ {w}, NEW d \in Doc, seen'[v][d] # "none"
      PROVE  rowlock'[d] = v /\ doc'[d].status = seen'[v][d]
  <2>1. seen'[v] = seen[v]
    BY StepFrame DEF LocalFrame, Apart
  <2>2. rowlock[d] = v /\ doc[d].status = seen[v][d] /\ Exists(d)
    BY <1>1, <2>1 DEF SeenIsCurrent, Exists
  <2>3. rowlock'[d] = v
    BY <2>2, StepFrame, PaymentsAssumption DEF LocalFrame, LocksApart, PaymentsAssumption
  <2>4. seen[w][d] = "none"
    BY <2>2 DEF SeenIsCurrent
  <2> QED BY <2>1, <2>2, <2>3, <2>4, RowsKept
<1>2. ASSUME NEW d \in Doc, seen'[w][d] # "none"
      PROVE  rowlock'[d] = w /\ doc'[d].status = seen'[w][d]
  <2>1. seen[w][d] # "none" => rowlock[d] = w /\ doc[d].status = seen[w][d]
    BY DEF SeenIsCurrent
  <2>2. ~(seen'[w] = NothingSeen)
    BY <1>2 DEF NothingSeen
  <2>3. CASE seen'[w] = seen[w] /\ rowlock' = rowlock /\ doc' = doc
    BY <1>2, <2>1, <2>3
  <2>4. ASSUME NEW e \in Doc, LockRow(w, e) PROVE rowlock'[d] = w /\ doc'[d].status = seen'[w][d]
    BY <1>2, <2>1, <2>4 DEF LockRow, Recheck, data
  <2>5. CASE PreferHead(w)
    <3>1. \/ UNCHANGED seen /\ rowlock' = [rowlock EXCEPT ![pref[w]] = w]
          \/ seen' = [seen EXCEPT ![w] = NothingSeen]
          \/ seen' = [seen EXCEPT ![w][pref[w]] = doc[pref[w]].status]
             /\ rowlock' = [rowlock EXCEPT ![pref[w]] = w]
      BY <2>5, Zenon DEF PreferHead
    <3>2. doc' = doc
      BY <2>5 DEF PreferHead, data
    <3>3. seen' # [seen EXCEPT ![w] = NothingSeen]
      BY <2>2
    <3>4. CASE d = pref[w]
      BY <1>2, <2>1, <3>1, <3>2, <3>3, <3>4
    <3>5. CASE d # pref[w]
      BY <1>2, <2>1, <3>1, <3>2, <3>3, <3>5
    <3> QED BY <3>4, <3>5
  <2>6. CASE Begin(w)
    BY <2>2, <2>3, <2>6, BeginPlace
  <2>7. CASE End(w) \/ InsertLost(w)
    BY <2>2, <2>7, Ended, LostPlace
  <2>8. ASSUME LockOrder(w) \/ (Scan(w) /\ Goes(w, "rows")) \/ PreferNamed(w) \/ ReadPaid(w) \/ AllotNext(w) \/ ReadNet(w)
        PROVE  seen'[w] = seen[w] /\ rowlock' = rowlock /\ doc' = doc
    BY <2>8 DEF LockOrder, Scan, PreferNamed, ReadPaid, AllotNext, ReadNet, Goes, data, locals
  <2> QED BY <2>3, <2>4, <2>5, <2>6, <2>7, <2>8, AdvancePlace DEF Step
<1> QED BY <1>1, <1>2 DEF SeenIsCurrent

\* Money is laid by a capture alone, and within what it read.
LEMMA LaidStep ==
  ASSUME BaseInv, NEW w \in Worker, Step(w), NEW d \in Doc
  PROVE  \/ laid'[d] = laid[d]
         \/ /\ CommitCapture(w) /\ pc[w] = "allot" /\ laid'[d] = laid[d] + put[w][d]
            /\ due[w][d] > 0 /\ put[w][d] <= due[w][d]
            /\ seen[w][d] \in Open /\ Exists(d) /\ due[w][d] = doc[d].price - laid[d]
<1> USE DEF BaseInv, Typed, DataShape, LocalShape
<1>1. CASE CommitCapture(w) /\ put[w][d] # 0
  <2>1. pc[w] = "allot" /\ laid'[d] = laid[d] + put[w][d]
    BY <1>1 DEF CommitCapture
  <2>2. put[w][d] \in Nat /\ put[w][d] <= due[w][d] /\ due[w][d] \in Int
    BY <1>1, <2>1 DEF Allotting
  <2>3. due[w][d] > 0
    <3>1. put[w][d] # 0
      BY <1>1
    <3> HIDE DEF BaseInv, Typed, DataShape, LocalShape
    <3> QED BY <2>2, <3>1
  <2> QED BY <1>1, <2>1, <2>2, <2>3, OpenIsRead DEF Allotting
<1>2. CASE CommitCapture(w) /\ put[w][d] = 0
  BY <1>2 DEF CommitCapture
<1>3. CASE ~CommitCapture(w)
  BY <1>3, QuietSteps DEF InsertOther, Reread, CommitWithdraw, CommitCancel, CommitIssue
<1> QED BY <1>1, <1>2, <1>3

LEMMA AllotStep ==
  ASSUME BaseInv, NEW w \in Worker, Step(w)
  PROVE  Allotting'
<1> USE DEF BaseInv, Typed, LocalShape
<1> DEFINE Fits(v, d) ==
      IF pc[v] = "allot"
      THEN /\ due[v][d] > 0 => seen[v][d] \in Open /\ due[v][d] = doc[d].price - laid[d]
           /\ put[v][d] # 0 => put[v][d] <= due[v][d]
      ELSE put[v][d] = 0
<1>1. ASSUME NEW v \in Worker \ {w}, NEW d \in Doc PROVE Fits(v, d)'
  <2>1. pc'[v] = pc[v] /\ due'[v] = due[v] /\ put'[v] = put[v] /\ seen'[v] = seen[v]
    BY StepFrame DEF LocalFrame, Apart
  <2>2. Fits(v, d)
    BY DEF Allotting
  <2>3. CASE pc[v] = "allot" /\ due[v][d] > 0
    <3>1. Exists(d) /\ rowlock[d] = v
      BY <2>3, OpenIsRead DEF Allotting, SeenIsCurrent, Open
    <3>2. laid'[d] = laid[d]
      <4>1. seen[w][d] \notin Open
        BY <3>1 DEF SeenIsCurrent, Open
      <4> QED BY <4>1, LaidStep
    <3> QED BY <2>1, <2>2, <3>1, <3>2, RowsKept
  <2>4. CASE ~(pc[v] = "allot" /\ due[v][d] > 0)
    BY <2>1, <2>2, <2>4
  <2> QED BY <2>3, <2>4
<1>2. ASSUME NEW d \in Doc PROVE Fits(w, d)'
  <2>1. Fits(w, d)
    BY DEF Allotting
  <2>2. CASE ReadPaid(w) /\ pc[w] = "read" /\ Goes(w, "allot")
    <3>1. put' = put /\ seen' = seen
      BY <2>2 DEF ReadPaid
    <3>2. due'[w][d] = IF d \in OpenSeen(w) /\ doc[d].price > laid[d] THEN doc[d].price - laid[d] ELSE 0
      BY <2>2 DEF ReadPaid
    <3> QED BY <2>1, <2>2, <3>1, <3>2 DEF Goes, OpenSeen
  <2>3. CASE AllotNext(w) /\ pc[w] = "allot" /\ Goes(w, "allot")
    <3>1. seen' = seen /\ due' = due
      BY <2>3 DEF AllotNext
    <3>2. PICK e \in Waiting(w) : put' = [put EXCEPT ![w][e] = Smaller(left[w], due[w][e])]
      BY <2>3 DEF AllotNext
    <3>3. e \in Doc /\ left[w] \in Nat /\ due[w][e] \in Int
      BY <3>2 DEF Waiting
    <3>4. Smaller(left[w], due[w][e]) <= due[w][e]
      BY <3>3 DEF Smaller
    <3> QED BY <2>1, <2>3, <3>1, <3>2, <3>3, <3>4 DEF Goes
  <2>4. CASE pc'[w] # "allot" /\ put'[w] = Zeros
    BY <2>4 DEF Zeros
  <2>5. CASE pc'[w] # "allot" /\ pc[w] # "allot" /\ put'[w] = put[w]
    BY <2>1, <2>5
  <2>6. CASE Begin(w)
    BY <2>4, <2>5, <2>6, BeginPlace
  <2>7. CASE End(w)
    BY <2>4, <2>7, Ended
  <2>8. CASE InsertLost(w)
    BY <2>4, <2>5, <2>8, LostPlace
  <2>9. ASSUME LockOrder(w) \/ (\E e \in Doc : LockRow(w, e)) \/ Scan(w) \/ PreferNamed(w) \/ PreferHead(w) \/ ReadNet(w)
        PROVE  put'[w] = put[w]
    BY <2>9 DEF LockOrder, LockRow, Scan, PreferNamed, PreferHead, ReadNet, locals
  <2> QED BY <2>2, <2>3, <2>5, <2>6, <2>7, <2>8, <2>9, AdvancePlace DEF Step, Goes
<1> QED BY <1>1, <1>2 DEF Allotting

LEMMA BaseStep ==
  ASSUME BaseInv, [Next]_vars
  PROVE  BaseInv'
<1>1. ASSUME NEW w \in Worker, Step(w) PROVE BaseInv'
  BY <1>1, StepFrame, StepData, RowsSenseStep, JobsStep, SeenStep, AllotStep DEF BaseInv, Typed, LocalFrame
<1>2. CASE UNCHANGED vars
  BY <1>2 DEF vars, data, locals, BaseInv, Typed, DataShape, LocalShape, RowsMakeSense, JobsMakeSense,
       JobMakesSense, Pays, Allocates, Exists, SeenIsCurrent, Allotting
<1> QED BY <1>1, <1>2 DEF Next, Step

LEMMA BaseInit == Init => BaseInv /\ NeverOverpaid /\ PaidMeansCovered
<1> SUFFICES ASSUME Init PROVE BaseInv /\ NeverOverpaid /\ PaidMeansCovered
  OBVIOUS
<1> DEFINE n == Cardinality(Order)
<1>1. PICK owner \in [1..n -> Order], price \in [Order -> Amount] :
        /\ content = price
        /\ doc = [d \in Doc |->
              IF d \in 1..n
              THEN [order |-> owner[d], status |-> "pending", price |-> price[owner[d]], next |-> None]
              ELSE [order |-> None, status |-> "none", price |-> 0, next |-> None]]
  BY Zenon DEF Init
<1> HIDE DEF n
<1>2. \A d \in Doc : d \in 1..n => owner[d] \in Order /\ price[owner[d]] \in Nat \ {0}
  BY <1>1, PaymentsAssumption DEF PaymentsAssumption
<1>3. doc \in [Doc -> DocRow]
  <2>1. ASSUME NEW d \in Doc PROVE doc[d] \in DocRow
    BY <1>1, <1>2 DEF DocRow, DocStatus
  <2> QED BY <1>1, <2>1
<1>4. DataShape
  <2>1. attempt \in [Ref -> Attempt]
    BY DEF Init, NoAttempt, Attempt
  <2>2. content \in [Order -> Amount \cup {0}]
    BY <1>1
  <2> QED BY <1>3, <2>1, <2>2 DEF DataShape, Init, Zeros
<1>5. LocalShape
  BY DEF LocalShape, Init, NothingSeen, Zeros, PC, DocStatus
<1>6. RowsMakeSense
  BY <1>1, <1>2 DEF RowsMakeSense, Exists
<1>7. JobsMakeSense
  BY DEF Init, JobsMakeSense, JobMakesSense, Pays
<1>8. SeenIsCurrent /\ Allotting
  BY DEF Init, SeenIsCurrent, Allotting, NothingSeen, Zeros
<1>9. NeverOverpaid /\ PaidMeansCovered
  BY <1>1, <1>2 DEF NeverOverpaid, PaidMeansCovered, Init, Zeros, Open
<1> QED BY <1>4, <1>5, <1>6, <1>7, <1>8, <1>9 DEF BaseInv, Typed

-----------------------------------------------------------------------------
(* Money *)

LEMMA MoneyStep ==
  ASSUME MoneyInv, NEW w \in Worker, Step(w), NEW d \in Doc
  PROVE  /\ laid'[d] <= doc'[d].price
         /\ doc'[d].status = "paid" => laid'[d] = doc'[d].price
         /\ doc'[d].status \in Open => laid'[d] < doc'[d].price
<1>1. /\ laid[d] \in Nat /\ doc[d] \in DocRow /\ doc[d].price \in Nat
      /\ laid[d] <= doc[d].price
      /\ doc[d].status = "paid" => laid[d] = doc[d].price
      /\ doc[d].status \in Open => laid[d] < doc[d].price
  BY DEF MoneyInv, BaseInv, Typed, DataShape, DocRow, NeverOverpaid, PaidMeansCovered
<1>2. CASE CommitCapture(w)
  <2>1. /\ laid'[d] = laid[d] + put[w][d] /\ pc[w] = "allot"
        /\ doc'[d] = IF d \in Covered(w) THEN [doc[d] EXCEPT !.status = "paid"] ELSE doc[d]
    BY <1>2 DEF CommitCapture, MoneyInv, BaseInv, Typed, DataShape
  <2>2. put[w][d] \in Nat /\ due[w][d] \in Int /\ (put[w][d] # 0 => put[w][d] <= due[w][d])
    BY <2>1 DEF MoneyInv, BaseInv, Typed, LocalShape, Allotting
  <2>3. due[w][d] > 0 => due[w][d] = doc[d].price - laid[d] /\ doc[d].status \in Open
    BY <2>1, OpenIsRead DEF MoneyInv, BaseInv, Allotting, SeenIsCurrent, Open
  <2>4. CASE d \in Covered(w)
    <3>1. due[w][d] > 0 /\ put[w][d] >= due[w][d]
      BY <2>4 DEF Covered
    <3>2. laid'[d] = doc[d].price
      BY <1>1, <2>1, <2>2, <2>3, <3>1
    <3>3. doc'[d].price = doc[d].price /\ doc'[d].status = "paid"
      BY <1>1, <2>1, <2>4 DEF DocRow
    <3> QED BY <1>1, <3>2, <3>3 DEF Open
  <2>5. CASE d \notin Covered(w)
    <3>1. due[w][d] > 0 => put[w][d] < due[w][d]
      BY <2>2, <2>5 DEF Covered
    <3>2. doc'[d] = doc[d]
      BY <2>1, <2>5
    <3>3. CASE due[w][d] > 0
      <4>1. laid'[d] < doc[d].price
        BY <1>1, <2>1, <2>2, <2>3, <3>1, <3>3
      <4>2. doc[d].status # "paid"
        BY <2>3, <3>3 DEF Open
      <4>3. laid'[d] <= doc[d].price
        BY <1>1, <2>1, <2>2, <4>1
      <4> QED BY <3>2, <4>1, <4>2, <4>3
    <3>4. CASE ~(due[w][d] > 0)
      <4>1. laid'[d] = laid[d]
        BY <1>1, <2>1, <2>2, <3>4
      <4> QED BY <1>1, <3>2, <4>1
    <3> QED BY <3>3, <3>4
  <2> QED BY <2>4, <2>5
<1>3. CASE ~CommitCapture(w)
  <2>1. laid'[d] = laid[d]
    BY <1>3, LaidStep DEF MoneyInv
  <2>2. RowChanges(w, d)
    BY StepRows DEF MoneyInv, BaseInv, Rows
  <2>3. CASE doc'[d] = doc[d]
    BY <1>1, <2>1, <2>3
  <2>4. CASE seen[w][d] \in Open /\ Restated(d, "issued")
    <3>1. doc[d].status \in Open
      BY <2>4 DEF MoneyInv, BaseInv, SeenIsCurrent, Open
    <3>2. doc'[d].price = doc[d].price /\ doc'[d].status = "issued"
      BY <1>1, <2>4 DEF Restated, DocRow
    <3> QED BY <1>1, <2>1, <3>1, <3>2
  <2>5. CASE Superseded(d) \/ Restated(d, "cancelled")
    <3>1. doc'[d].price = doc[d].price /\ doc'[d].status \in {"superseded", "cancelled"}
      BY <1>1, <2>5 DEF Superseded, Restated, DocRow
    <3> QED BY <1>1, <2>1, <3>1 DEF Open
  <2>6. CASE ~Exists(d) /\ NewRow(d, job[w].order)
    <3>1. laid[d] = 0
      BY <1>1, <2>6 DEF MoneyInv, BaseInv, Typed, RowsMakeSense
    <3>2. doc'[d].status \in Open /\ doc'[d].price \in Nat \ {0}
      BY <2>6, PaymentsAssumption DEF NewRow, PaymentsAssumption
    <3>3. laid'[d] < doc'[d].price
      BY <2>1, <3>1, <3>2
    <3>4. laid'[d] <= doc'[d].price
      BY <2>1, <3>1, <3>2
    <3>5. doc'[d].status # "paid"
      BY <3>2 DEF Open
    <3> QED BY <3>3, <3>4, <3>5
  <2> QED BY <1>3, <2>2, <2>3, <2>4, <2>5, <2>6 DEF RowChanges
<1> QED BY <1>2, <1>3

LEMMA MoneyAlways == Spec => []MoneyInv
<1>1. Init => MoneyInv
  BY BaseInit DEF MoneyInv
<1>2. MoneyInv /\ [Next]_vars => MoneyInv'
  <2> SUFFICES ASSUME MoneyInv, [Next]_vars PROVE MoneyInv'
    OBVIOUS
  <2>1. BaseInv'
    BY BaseStep DEF MoneyInv
  <2>2. ASSUME NEW w \in Worker, Step(w) PROVE NeverOverpaid' /\ PaidMeansCovered'
    BY <2>2, MoneyStep DEF NeverOverpaid, PaidMeansCovered
  <2>3. CASE UNCHANGED vars
    <3>1. doc' = doc /\ laid' = laid /\ NeverOverpaid /\ PaidMeansCovered
      BY <2>3 DEF vars, data, MoneyInv
    <3>2. NeverOverpaid'
      BY <3>1 DEF NeverOverpaid
    <3>3. PaidMeansCovered'
      BY <3>1 DEF PaidMeansCovered
    <3> QED BY <2>1, <3>2, <3>3 DEF MoneyInv
  <2> QED BY <2>1, <2>2, <2>3 DEF MoneyInv, Next, Step
<1> QED BY <1>1, <1>2, PTL DEF Spec

\* No document is laid more than it asks, by any number of payments, documents, orders and
\* transactions at once, with failures at any point.
THEOREM NothingOverpaid == Spec => []NeverOverpaid
<1>1. MoneyInv => NeverOverpaid
  BY DEF MoneyInv
<1> QED BY <1>1, MoneyAlways, PTL

\* A paid document is covered by the payments laid on it, and an open one is not.
THEOREM PaidIsCovered == Spec => []PaidMeansCovered
<1>1. MoneyInv => PaidMeansCovered
  BY DEF MoneyInv
<1> QED BY <1>1, MoneyAlways, PTL

-----------------------------------------------------------------------------
(* Attempts *)

LEMMA HolderStep ==
  ASSUME BaseInv, HoldsOrder, NEW w \in Worker, Step(w)
  PROVE  HoldsOrder'
<1> USE DEF BaseInv, Typed, LocalShape
<1>1. ASSUME NEW v \in Worker \ {w}, pc'[v] \notin {"idle", "order"}
      PROVE  holder'[job'[v].order] = v
  <2>1. pc'[v] = pc[v] /\ job'[v] = job[v]
    BY StepFrame DEF LocalFrame, Apart
  <2>2. job[v].order \in Order /\ holder[job[v].order] = v
    BY <1>1, <2>1 DEF HoldsOrder, JobsMakeSense, JobMakesSense, Job
  <2> QED BY <2>1, <2>2, StepFrame, PaymentsAssumption DEF LocalFrame, LocksApart, PaymentsAssumption
<1>2. ASSUME pc'[w] \notin {"idle", "order"}
      PROVE  holder'[job'[w].order] = w
  <2>1. CASE LockOrder(w) /\ job'[w] = job[w]
    <3>1. job[w].order \in Order
      BY <2>1 DEF LockOrder, JobsMakeSense, JobMakesSense, Job
    <3> QED BY <2>1, <3>1 DEF LockOrder
  <2>2. CASE pc[w] \notin {"idle", "order"} /\ \E place \in PC : Goes(w, place)
    BY <2>2 DEF HoldsOrder, Goes
  <2> QED BY <1>2, <2>1, <2>2, AdvancePlace, BeginPlace, LostPlace, Ended DEF Step, PC
<1> QED BY <1>1, <1>2 DEF HoldsOrder

\* The ways an attempt changes.
LEMMA AttemptChanges ==
  ASSUME BaseInv, NEW w \in Worker, Step(w), NEW r \in Ref
  PROVE  \/ attempt'[r] = attempt[r]
         \/ InsertOther(w) /\ r = job[w].ref /\ attempt[r].status = "none"
              /\ InsertBlockers(w) = {}
         \/ Reread(w) /\ pc[w] = "reread" /\ r = job[w].ref /\ job[w].op = "resolve"
              /\ attempt[r].status = "pending"
              /\ attempt'[r].doc = attempt[r].doc /\ attempt'[r].status \in Final
         \/ CommitCapture(w) /\ pc[w] = "allot" /\ r = job[w].ref /\ Allocates(w)
              /\ attempt'[r].status = "captured" /\ attempt'[r].doc = job[w].doc
<1> USE DEF BaseInv, Typed, DataShape
<1>1. CASE InsertOther(w)
  BY <1>1 DEF InsertOther, MayInsert
<1>2. CASE Reread(w)
  <2>1. job[w].op = "resolve" /\ pc[w] = "reread"
    BY <1>2 DEF Reread, JobsMakeSense, JobMakesSense
  <2>2. CASE attempt' = attempt
    BY <2>2
  <2>3. CASE attempt' # attempt
    <3>1. /\ attempt' = [attempt EXCEPT ![job[w].ref].status = job[w].out]
          /\ ShouldResolve(attempt[job[w].ref].status, job[w].out)
      BY <1>2, <2>3, Zenon DEF Reread
    <3>2. attempt[r] \in Attempt
      OBVIOUS
    <3>3. r = job[w].ref => attempt'[r] = [attempt[r] EXCEPT !.status = job[w].out]
      BY <3>1
    <3>4. r = job[w].ref => attempt'[r].status = job[w].out /\ attempt'[r].doc = attempt[r].doc
      BY <3>2, <3>3 DEF Attempt
    <3> QED BY <1>2, <2>1, <3>1, <3>4 DEF ShouldResolve
  <2> QED BY <2>2, <2>3
<1>3. CASE CommitCapture(w)
  <2>1. pc[w] = "allot" /\ Allocates(w)
    BY <1>3 DEF CommitCapture, JobsMakeSense, JobMakesSense
  <2>2. attempt' = [attempt EXCEPT ![job[w].ref] =
                      [status |-> "captured", doc |-> job[w].doc, amount |-> job[w].amount]]
    BY <1>3 DEF CommitCapture
  <2> QED BY <1>3, <2>1, <2>2
<1>4. CASE UNCHANGED attempt
  BY <1>4
<1> QED BY <1>1, <1>2, <1>3, <1>4, QuietSteps DEF CommitWithdraw, CommitCancel, CommitIssue

\* A job that starts as a resolution found a pending attempt of its document.
Resolves(w) ==
    pc'[w] = "order" /\ job'[w].op = "resolve" =>
        attempt[job'[w].ref].doc = job'[w].doc /\ attempt[job'[w].ref].status = "pending"

LEMMA RepeatResolves ==
  ASSUME LocalShape, NEW w \in Worker, NEW j \in Job, Repeat(w, j, attempt[j.ref])
  PROVE  Resolves(w)
<1>1. CASE End(w)
  BY <1>1, Ended DEF Resolves
<1>2. CASE ~End(w)
  <2>1. /\ attempt[j.ref].doc = j.doc /\ ShouldResolve(attempt[j.ref].status, j.out)
        /\ job' = [job EXCEPT ![w] = [j EXCEPT !.op = "resolve"]]
    BY <1>2, Zenon DEF Repeat
  <2>2. job'[w].ref = j.ref /\ job'[w].doc = j.doc
    BY <2>1 DEF LocalShape, Job
  <2> QED BY <2>1, <2>2 DEF Resolves, ShouldResolve
<1> QED BY <1>1, <1>2

LEMMA StartsToResolve ==
  ASSUME BaseInv, NEW w \in Worker, Begin(w) \/ InsertLost(w)
  PROVE  Resolves(w) /\ attempt' = attempt
<1> USE DEF BaseInv, Typed
<1>1. ASSUME NEW r \in Ref, NEW d \in Doc, NEW out \in Outcome, NEW a \in Amount, Pay(w, r, d, out, a)
      PROVE  Resolves(w) /\ attempt' = attempt
  <2> DEFINE j == PayJob(r, d, out, a)
  <2>1. j \in Job /\ j.ref = r /\ j.op = "pay"
    BY <1>1, PayJobTyped DEF Pay, PayJob
  <2>2. Start(w, j) \/ Repeat(w, j, attempt[r])
    BY <1>1 DEF Pay, PayJob
  <2> HIDE DEF j
  <2>3. CASE Start(w, j)
    BY <1>1, <2>1, <2>3 DEF Start, Resolves, Pay, LocalShape
  <2>4. CASE Repeat(w, j, attempt[r])
    BY <1>1, <2>1, <2>4, RepeatResolves DEF Pay
  <2> QED BY <2>2, <2>3, <2>4
<1>2. ASSUME (\E d \in Doc : Withdraw(w, d)) \/ (\E o \in Order : CancelOrder(w, o) \/ Request(w, o))
             \/ (\E o \in Order, a \in Amount \cup {0} : Edit(w, o, a))
      PROVE  Resolves(w) /\ attempt' = attempt
  BY <1>2 DEF Withdraw, CancelOrder, Request, Edit, Start, Plain, Resolves, data, LocalShape
<1>3. CASE InsertLost(w)
  <2>1. job[w] \in Job /\ attempt' = attempt
    BY <1>3 DEF InsertLost, HasRows, JobsMakeSense, JobMakesSense
  <2>2. CASE End(w)
    BY <2>1, <2>2, Ended DEF LocalShape, Resolves
  <2>3. CASE ~End(w)
    <3>1. Repeat(w, job[w], attempt[job[w].ref])
      BY <1>3, <2>3 DEF InsertLost
    <3> QED BY <2>1, <3>1, RepeatResolves
  <2> QED BY <2>2, <2>3
<1> QED BY <1>1, <1>2, <1>3 DEF Begin

LEMMA OwnedStep ==
  ASSUME AttemptInv, NEW w \in Worker, Step(w)
  PROVE  AttemptsAreOwned'
<1> USE DEF AttemptInv, BaseInv, Typed
<1>1. ASSUME NEW v \in Worker \ {w}
      PROVE  /\ pc'[v] = pc[v] /\ job'[v] = job[v] /\ (Inserting(v)' <=> Inserting(v))
             /\ JobMakesSense(v)
             /\ Inserting(v) => job[v].ref \in Ref
             /\ pc[v] # "idle" /\ job[v].op = "resolve" => job[v].ref \in Ref
  <2>1. pc'[v] = pc[v] /\ job'[v] = job[v] /\ JobMakesSense(v)
    BY StepFrame DEF LocalFrame, Apart, JobsMakeSense
  <2>2. Inserting(v)' <=> Inserting(v)
    BY <2>1 DEF Inserting
  <2> QED BY <2>1, <2>2 DEF JobMakesSense, Pays, Inserting
<1>2. JobMakesSense(w)
  BY DEF JobsMakeSense
\* Two resolutions of one attempt are of one order, so one of them is past its lock.
<1>3. ASSUME NEW v \in Worker \ {w}, pc[v] \notin {"idle", "order"}, pc[w] \notin {"idle", "order"},
             job[v].op = "resolve", job[w].op = "resolve", job[v].ref = job[w].ref
      PROVE  FALSE
  <2>1. job[v].doc = job[w].doc
    BY <1>3 DEF AttemptsAreOwned
  <2>2. job[v].order = job[w].order
    BY <1>1, <1>2, <1>3, <2>1 DEF JobMakesSense, Pays
  <2> QED BY <1>3, <2>2 DEF HoldsOrder
<1>4. ASSUME NEW v \in Worker \ {w}, Inserting(v)
      PROVE  attempt'[job[v].ref].status = "none"
  <2>1. attempt[job[v].ref].status = "none" /\ job[v].ref \in Ref
    BY <1>1, <1>4 DEF AttemptsAreOwned
  <2>2. CASE job[v].ref # job[w].ref \/ attempt'[job[v].ref] = attempt[job[v].ref]
    BY <2>1, <2>2, AttemptChanges
  <2>3. InsertBlockers(w) = {} /\ InsertOther(w) => job[v].ref # job[w].ref
    BY <1>4 DEF InsertBlockers, InsertOther
  <2>4. CommitCapture(w) /\ pc[w] = "allot" /\ Allocates(w) => job[v].ref # job[w].ref
    BY <1>4, <2>1 DEF AttemptsAreOwned, Allocates, Inserting
  <2> QED BY <2>1, <2>2, <2>3, <2>4, AttemptChanges
<1>5. ASSUME NEW v \in Worker \ {w}, pc[v] # "idle", job[v].op = "resolve"
      PROVE  /\ attempt'[job[v].ref].doc = job[v].doc /\ attempt'[job[v].ref].status # "none"
             /\ pc[v] \in {"rows", "read", "allot"} => attempt'[job[v].ref].status = "pending"
  <2>1. /\ attempt[job[v].ref].doc = job[v].doc /\ attempt[job[v].ref].status # "none"
        /\ pc[v] \in {"rows", "read", "allot"} => attempt[job[v].ref].status = "pending"
        /\ job[v].ref \in Ref
    BY <1>1, <1>5 DEF AttemptsAreOwned
  <2>2. CASE attempt'[job[v].ref] = attempt[job[v].ref]
    BY <2>1, <2>2
  <2>3. CASE Reread(w) /\ pc[w] = "reread" /\ job[v].ref = job[w].ref /\ job[w].op = "resolve"
             /\ attempt'[job[v].ref].doc = attempt[job[v].ref].doc /\ attempt'[job[v].ref].status \in Final
    BY <1>3, <1>5, <2>1, <2>3 DEF Final
  <2>4. CASE CommitCapture(w) /\ pc[w] = "allot" /\ job[v].ref = job[w].ref /\ Allocates(w)
             /\ attempt'[job[v].ref].status = "captured" /\ attempt'[job[v].ref].doc = job[w].doc
    <3>1. job[w].op = "resolve"
      BY <2>1, <2>4 DEF AttemptsAreOwned, Allocates, Inserting
    <3>2. job[v].doc = job[w].doc
      BY <1>5, <2>4, <3>1 DEF AttemptsAreOwned
    <3> QED BY <1>3, <1>5, <2>4, <3>1, <3>2
  <2> QED BY <2>1, <2>2, <2>3, <2>4, AttemptChanges
<1>6. ASSUME Inserting(w)'
      PROVE  /\ attempt'[job'[w].ref].status = "none"
             /\ \A v \in Worker \ {w} : Inserting(v) => job[v].ref # job'[w].ref
  <2>1. pc'[w] \in {"rows", "read", "allot", "write"} /\ job'[w].op = "pay" /\ job'[w].out = "captured"
    BY <1>6 DEF Inserting
  <2>2. CASE InsertCaptured(w) /\ Goes(w, "rows")
    <3>1. attempt[job[w].ref].status = "none" /\ InsertBlockers(w) = {} /\ pc[w] = "insert"
      BY <2>2 DEF InsertCaptured, MayInsert
    <3>2. \A v \in Worker \ {w} : Inserting(v) => job[v].ref # job[w].ref
      BY <3>1 DEF InsertBlockers
    <3> QED BY <2>2, <3>1, <3>2 DEF Goes
  <2>3. CASE pc[w] \in {"rows", "read", "allot"} /\ \E place \in PC : Goes(w, place)
    <3>1. Inserting(w) /\ job'[w] = job[w] /\ attempt' = attempt
      BY <2>1, <2>3 DEF Goes, Inserting
    <3> QED BY <3>1 DEF AttemptsAreOwned
  <2>4. ~(Reread(w) /\ Goes(w, "rows"))
    BY <1>2, <2>1 DEF Goes, Reread, JobMakesSense
  <2> QED BY <2>1, <2>2, <2>3, <2>4, AdvancePlace, BeginPlace, LostPlace, Ended DEF Step, PC
<1>7. ASSUME pc'[w] # "idle", job'[w].op = "resolve"
      PROVE  /\ attempt'[job'[w].ref].doc = job'[w].doc /\ attempt'[job'[w].ref].status # "none"
             /\ pc'[w] \in {"rows", "read", "allot"} => attempt'[job'[w].ref].status = "pending"
  <2>1. CASE Begin(w) \/ InsertLost(w)
    BY <1>7, <2>1, StartsToResolve, BeginPlace, LostPlace DEF Resolves
  <2>2. CASE LockOrder(w) /\ job'[w] = job[w] /\ UNCHANGED data /\ pc[w] = "order" /\ pc'[w] # "rows"
             /\ pc'[w] \in {"insert", "reread", "rows"}
    BY <1>7, <2>2 DEF data, AttemptsAreOwned
  <2>3. CASE Reread(w) /\ pc[w] = "reread" /\ Scan(w) /\ Goes(w, "rows")
    <3>1. attempt[job[w].ref].status = "pending"
      <4>1. ~End(w)
        BY <2>3, Ended DEF Goes
      <4>2. ShouldResolve(attempt[job[w].ref].status, job[w].out)
        BY <2>3, <4>1, Zenon DEF Reread
      <4> QED BY <4>2 DEF ShouldResolve
    <3> QED BY <1>7, <2>3, <3>1 DEF Goes, AttemptsAreOwned
  <2>4. CASE pc[w] \in {"rows", "read", "allot"} /\ \E place \in PC : Goes(w, place)
    BY <1>7, <2>4 DEF Goes, AttemptsAreOwned
  <2>5. ~(InsertCaptured(w) /\ Goes(w, "rows"))
    BY <1>2, <1>7 DEF InsertCaptured, Goes, JobMakesSense
  <2> QED BY <1>7, <2>1, <2>2, <2>3, <2>4, <2>5, AdvancePlace, Ended DEF Step, PC
<1>8. \A v \in Worker :
        /\ Inserting(v)' => attempt'[job'[v].ref].status = "none"
        /\ pc'[v] # "idle" /\ job'[v].op = "resolve" =>
              attempt'[job'[v].ref].doc = job'[v].doc /\ attempt'[job'[v].ref].status # "none"
        /\ pc'[v] \in {"rows", "read", "allot"} /\ job'[v].op = "resolve" =>
              attempt'[job'[v].ref].status = "pending"
  BY <1>1, <1>4, <1>5, <1>6, <1>7
<1>9. \A u, v \in Worker : u # v /\ Inserting(u)' /\ Inserting(v)' => job'[u].ref # job'[v].ref
  BY <1>1, <1>6 DEF AttemptsAreOwned
<1> QED BY <1>8, <1>9 DEF AttemptsAreOwned

LEMMA FinalStep ==
  ASSUME AttemptInv, NEW w \in Worker, Step(w), NEW r \in Ref, attempt[r].status \in Final
  PROVE  attempt'[r] = attempt[r]
<1>1. CommitCapture(w) /\ pc[w] = "allot" /\ Allocates(w) => attempt[job[w].ref].status \in {"none", "pending"}
  BY DEF AttemptInv, AttemptsAreOwned, Allocates, Inserting
<1> QED BY <1>1, AttemptChanges DEF AttemptInv, Final

\* A capture that was told is in the ledger under its document, or a human is told of it.
Accounted(r, d) ==
    \/ attempt[r].status = "captured" /\ attempt[r].doc = d
    \/ \E kind \in {"ORDER_MISMATCH", "INVALID_STATE_TRANSITION"} : <<kind, r, d>> \in issues

Tells(r, d) == told' = told \/ (told' = told \cup {<<r, d>>} /\ Accounted(r, d)')

LEMMA AnswerTells ==
  ASSUME NEW r \in Ref, NEW d \in Doc, NEW out, attempt' = attempt, attempt \in [Ref -> Attempt],
         attempt[r].doc = d, attempt[r].status # "none",
         Answer(r, d, out, attempt[r].status), ~ShouldResolve(attempt[r].status, out)
  PROVE  Tells(r, d) /\ issues \subseteq issues'
<1>1. attempt[r].status \in Final \cup {"pending"}
  BY DEF Attempt
<1>2. out = "captured" => attempt[r].status # "pending"
  BY DEF ShouldResolve, Final
<1>3. CASE out = "captured" /\ attempt[r].status \in {"failed", "canceled"}
  BY <1>3 DEF Answer, Tells, Accounted
<1>4. CASE ~(out = "captured" /\ attempt[r].status \in {"failed", "canceled"})
  BY <1>1, <1>2, <1>4 DEF Answer, Tells, Accounted, Final
<1> QED BY <1>3, <1>4

LEMMA RepeatTells ==
  ASSUME NEW w \in Worker, NEW j \in Job, j.ref \in Ref, j.doc \in Doc, attempt \in [Ref -> Attempt],
         attempt' = attempt, attempt[j.ref].status # "none", Repeat(w, j, attempt[j.ref])
  PROVE  Tells(j.ref, j.doc) /\ issues \subseteq issues'
<1>1. CASE attempt[j.ref].doc # j.doc
  <2>1. /\ issues' = issues \cup {<<"ORDER_MISMATCH", j.ref, j.doc>>}
        /\ told' \in {told, told \cup {<<j.ref, j.doc>>}}
    BY <1>1 DEF Repeat
  <2> QED BY <2>1 DEF Tells, Accounted
<1>2. CASE attempt[j.ref].doc = j.doc /\ ~ShouldResolve(attempt[j.ref].status, j.out)
  <2>1. Answer(j.ref, j.doc, j.out, attempt[j.ref].status)
    BY <1>2, Zenon DEF Repeat
  <2> QED BY <1>2, <2>1, AnswerTells
<1>3. CASE attempt[j.ref].doc = j.doc /\ ShouldResolve(attempt[j.ref].status, j.out)
  BY <1>3 DEF Repeat, Tells
<1> QED BY <1>1, <1>2, <1>3

LEMMA ToldStep ==
  ASSUME AttemptInv, NEW w \in Worker, Step(w)
  PROVE  /\ issues \subseteq issues'
         /\ told' = told \/ \E r \in Ref, d \in Doc : Tells(r, d)
<1> USE DEF AttemptInv, BaseInv, Typed, DataShape
<1>1. ASSUME NEW r \in Ref, NEW d \in Doc, NEW out \in Outcome, NEW a \in Amount, Pay(w, r, d, out, a)
      PROVE  /\ issues \subseteq issues'
             /\ told' = told \/ \E e \in Ref, c \in Doc : Tells(e, c)
  <2> DEFINE j == PayJob(r, d, out, a)
  <2>1. j \in Job /\ j.ref = r /\ j.doc = d /\ attempt' = attempt
    BY <1>1, PayJobTyped DEF Pay, PayJob
  <2>2. UNCHANGED <<issues, told>> \/ (attempt[r].status # "none" /\ Repeat(w, j, attempt[r]))
    BY <1>1 DEF Pay, PayJob
  <2> HIDE DEF j
  <2> QED BY <2>1, <2>2, RepeatTells
<1>2. CASE InsertLost(w)
  <2>1. /\ job[w] \in Job /\ job[w].ref \in Ref /\ job[w].doc \in Doc /\ attempt' = attempt
        /\ attempt[job[w].ref].status # "none"
    BY <1>2 DEF InsertLost, HasRows, JobsMakeSense, JobMakesSense, Pays
  <2>2. UNCHANGED <<issues, told>> \/ Repeat(w, job[w], attempt[job[w].ref])
    BY <1>2 DEF InsertLost
  <2> QED BY <2>1, <2>2, RepeatTells
<1>3. CASE Reread(w)
  <2>1. /\ job[w].op = "resolve" /\ job[w].ref \in Ref /\ job[w].doc \in Doc
        /\ attempt[job[w].ref].doc = job[w].doc /\ attempt[job[w].ref].status # "none"
    BY <1>3 DEF Reread, JobsMakeSense, JobMakesSense, Pays, AttemptsAreOwned
  <2>2. CASE UNCHANGED <<issues, told>>
    BY <2>2
  <2>3. CASE ~UNCHANGED <<issues, told>>
    <3>1. /\ ~ShouldResolve(attempt[job[w].ref].status, job[w].out)
          /\ Answer(job[w].ref, job[w].doc, job[w].out, attempt[job[w].ref].status)
          /\ attempt' = attempt
      BY <1>3, <2>3, Zenon DEF Reread
    <3>2. attempt \in [Ref -> Attempt]
      OBVIOUS
    <3>3. Tells(job[w].ref, job[w].doc) /\ issues \subseteq issues'
      <4> HIDE DEF AttemptInv, BaseInv, Typed, DataShape
      <4> QED BY <2>1, <3>1, <3>2, AnswerTells
    <3> QED BY <2>1, <3>3
  <2> QED BY <2>2, <2>3
<1>4. CASE CommitCapture(w)
  <2>1. pc[w] = "allot" /\ Allocates(w) /\ job[w].ref \in Ref /\ job[w].doc \in Doc
    BY <1>4 DEF CommitCapture, JobsMakeSense, JobMakesSense, Pays, Allocates
  <2>2. attempt'[job[w].ref].status = "captured" /\ attempt'[job[w].ref].doc = job[w].doc
    BY <1>4, <2>1 DEF CommitCapture
  <2> QED BY <1>4, <2>1, <2>2 DEF CommitCapture, Tells, Accounted
<1>5. CASE UNCHANGED <<issues, told>>
  BY <1>5
<1>6. InsertOther(w) \/ CommitWithdraw(w) \/ CommitCancel(w) \/ CommitIssue(w) => UNCHANGED <<issues, told>>
  BY DEF InsertOther, CommitWithdraw, CommitCancel, CommitIssue
<1> QED BY <1>1, <1>2, <1>3, <1>4, <1>5, <1>6, QuietSteps

LEMMA AttemptInit == Init => AttemptInv /\ NoMoneyIgnored
<1> SUFFICES ASSUME Init PROVE AttemptInv /\ NoMoneyIgnored
  OBVIOUS
<1>1. BaseInv
  BY BaseInit
<1>2. HoldsOrder /\ AttemptsAreOwned
  BY DEF Init, HoldsOrder, AttemptsAreOwned, Inserting
<1>3. NoMoneyIgnored
  BY DEF Init, NoMoneyIgnored
<1> QED BY <1>1, <1>2, <1>3 DEF AttemptInv

LEMMA AttemptStep == AttemptInv /\ [Next]_vars => AttemptInv'
<1> SUFFICES ASSUME AttemptInv, [Next]_vars PROVE AttemptInv'
  OBVIOUS
<1>1. BaseInv'
  BY BaseStep DEF AttemptInv
<1>2. ASSUME NEW w \in Worker, Step(w) PROVE HoldsOrder' /\ AttemptsAreOwned'
  BY <1>2, HolderStep, OwnedStep DEF AttemptInv
<1>3. CASE UNCHANGED vars
  <2>1. pc' = pc /\ job' = job /\ holder' = holder /\ attempt' = attempt
    BY <1>3 DEF vars, data, locals
  <2>2. HoldsOrder'
    BY <2>1 DEF AttemptInv, HoldsOrder
  <2>3. AttemptsAreOwned'
    BY <2>1 DEF AttemptInv, AttemptsAreOwned, Inserting
  <2> QED BY <1>1, <2>2, <2>3 DEF AttemptInv
<1> QED BY <1>1, <1>2, <1>3 DEF AttemptInv, Next, Step

\* The outcome of a payment is final, however often and in whatever order it is reported.
THEOREM OutcomesAreFinal == Spec => FinalStaysFinal
<1>1. AttemptInv /\ [Next]_vars => [\A r \in Ref : attempt[r].status \in Final => attempt'[r] = attempt[r]]_vars
  BY FinalStep DEF Next, Step
<1> QED BY <1>1, AttemptInit, AttemptStep, PTL DEF Spec, FinalStaysFinal

\* Every capture whose sender got no refusal is in the ledger under the document it named, or a
\* human has been told, for any number of repeats and transactions.
THEOREM MoneyIsAccounted == Spec => []NoMoneyIgnored
<1>1. AttemptInv /\ NoMoneyIgnored /\ [Next]_vars => NoMoneyIgnored'
  <2> SUFFICES ASSUME AttemptInv, NoMoneyIgnored, [Next]_vars PROVE NoMoneyIgnored'
    OBVIOUS
  <2>1. ASSUME NEW w \in Worker, Step(w), NEW r \in Ref, NEW d \in Doc, <<r, d>> \in told'
        PROVE  Accounted(r, d)'
    <3>1. issues \subseteq issues' /\ (told' = told \/ \E e \in Ref, c \in Doc : Tells(e, c))
      BY <2>1, ToldStep
    <3>2. CASE <<r, d>> \in told
      <4>1. Accounted(r, d)
        BY <3>2 DEF NoMoneyIgnored, Accounted
      <4>2. attempt[r].status = "captured" => attempt'[r] = attempt[r]
        BY <2>1, FinalStep DEF Final
      <4> QED BY <3>1, <4>1, <4>2 DEF Accounted
    <3>3. CASE <<r, d>> \notin told
      BY <2>1, <3>1, <3>3 DEF Tells
    <3> QED BY <3>2, <3>3
  <2>2. CASE UNCHANGED vars
    BY <2>2 DEF vars, data, NoMoneyIgnored
  <2> QED BY <2>1, <2>2 DEF NoMoneyIgnored, Accounted, Next, Step
<1> QED BY <1>1, AttemptInit, AttemptStep, PTL DEF Spec
-----------------------------------------------------------------------------
(* Versions *)

\* A job about a whole order was begun as one: no repeat becomes one.
LEMMA OrderJobs ==
  ASSUME Typed, NEW w \in Worker, Step(w), pc'[w] # "idle", job'[w].op \in ByOrder
  PROVE  \/ pc[w] = "idle" /\ Begin(w) /\ pc'[w] = "order"
         \/ pc[w] # "idle" /\ job'[w] = job[w]
<1> USE DEF Typed
<1>1. CASE Begin(w)
  BY <1>1, BeginPlace
<1>2. CASE InsertLost(w)
  <2>1. ~End(w)
    BY <1>2, Ended
  <2>2. Repeat(w, job[w], attempt[job[w].ref])
    BY <1>2, <2>1 DEF InsertLost
  <2>3. job' = [job EXCEPT ![w] = [job[w] EXCEPT !.op = "resolve"]]
    BY <2>1, <2>2, Zenon DEF Repeat
  <2>4. job[w] \in Job
    BY <1>2 DEF InsertLost, HasRows, JobsMakeSense, JobMakesSense
  <2>5. job'[w].op = "resolve"
    BY <2>3, <2>4 DEF LocalShape, Job
  <2> QED BY <2>5 DEF ByOrder
<1>3. CASE ~Begin(w) /\ ~InsertLost(w)
  BY <1>3, AdvancePlace, Ended DEF Step, Goes
<1> QED BY <1>1, <1>2, <1>3

LEMMA WholeStep ==
  ASSUME VersionInv, NEW w \in Worker, Step(w)
  PROVE  WholeOrder'
<1> USE DEF VersionInv, BaseInv, Typed, DataShape, LocalShape
<1> DEFINE Quiet(v, d) == pc[v] \in {"idle", "order"} => seen[v][d] = "none"
           About(v) == pc[v] \in {"rows", "write"} /\ job[v].op \in ByOrder
           Whole(v, d) == d \in todo[v] \/ seen[v][d] # "none" <=> doc[d].order = job[v].order
\* New rows belong to the order whose lock the step holds.
<1>1. ASSUME NEW v \in Worker \ {w}, NEW d \in Doc
      PROVE  Quiet(v, d)' /\ (About(v)' => Whole(v, d)')
  <2>1. pc'[v] = pc[v] /\ seen'[v] = seen[v] /\ todo'[v] = todo[v] /\ job'[v] = job[v]
    BY StepFrame DEF LocalFrame, Apart
  <2>2. Quiet(v, d) /\ (About(v) => Whole(v, d))
    BY DEF WholeOrder
  <2>3. ASSUME About(v) PROVE doc'[d].order = job[v].order <=> doc[d].order = job[v].order
    <3>1. holder[job[v].order] = v /\ job[v].order \in Order
      BY <2>3 DEF HoldsOrder, JobsMakeSense, JobMakesSense, Job
    <3>2. CASE Exists(d) \/ doc'[d] = doc[d]
      BY <3>2, RowsKept
    <3>3. CASE ~Exists(d) /\ doc'[d] # doc[d]
      <4>1. CommitIssue(w) /\ NewRow(d, job[w].order)
        BY <3>3, RowsKept
      <4>2. holder[job[w].order] = w
        BY <4>1 DEF CommitIssue, HasRows, HoldsOrder
      <4>3. doc[d].order = None
        BY <3>3 DEF RowsMakeSense
      <4>4. doc'[d].order = job[w].order
        BY <4>1 DEF NewRow
      <4> QED BY <3>1, <4>2, <4>3, <4>4, PaymentsAssumption DEF PaymentsAssumption
    <3> QED BY <3>2, <3>3
  <2> QED BY <2>1, <2>2, <2>3
<1>2. ASSUME NEW d \in Doc PROVE Quiet(w, d)' /\ (About(w)' => Whole(w, d)')
  <2>1. Quiet(w, d) /\ (About(w) => Whole(w, d))
    BY DEF WholeOrder
  <2>2. CASE Begin(w)
    BY <2>1, <2>2, BeginPlace DEF NothingSeen
  <2>3. CASE End(w) \/ InsertLost(w)
    BY <2>3, Ended, LostPlace DEF NothingSeen
  <2>4. CASE LockOrder(w) /\ UNCHANGED data /\ job'[w] = job[w] /\ pc[w] = "order"
             /\ pc'[w] \in {"insert", "reread", "rows"}
    <3>1. seen' = seen /\ doc' = doc
      BY <2>4 DEF LockOrder, data
    <3>2. job[w].op \in ByOrder => todo'[w] = DocsOf(job[w].order)
      BY <2>4 DEF LockOrder, ByOrder, Allocates
    <3> QED BY <2>1, <2>4, <3>1, <3>2 DEF DocsOf
  <2>5. ASSUME NEW e \in Doc, LockRow(w, e), Goes(w, "rows")
        PROVE  Quiet(w, d)' /\ (About(w)' => Whole(w, d)')
    <3>1. /\ pc[w] = "rows" /\ e \in todo[w] /\ todo'[w] = todo[w] \ {e}
          /\ seen' = [seen EXCEPT ![w][e] = doc[e].status]
      BY <2>5 DEF LockRow, NextRows, Recheck
    <3>2. ASSUME About(w) PROVE doc[e].status # "none"
      <4>1. doc[e].order = job[w].order
        BY <3>1, <3>2 DEF WholeOrder
      <4>2. job[w].order \in Order
        BY <3>1 DEF JobsMakeSense, JobMakesSense, Job
      <4> QED BY <4>1, <4>2, PaymentsAssumption DEF RowsMakeSense, Exists, PaymentsAssumption
    <3>3. CASE d = e
      BY <2>1, <2>5, <3>1, <3>2, <3>3 DEF Goes
    <3>4. CASE d # e
      BY <2>1, <2>5, <3>1, <3>4 DEF Goes
    <3> QED BY <3>3, <3>4
  <2>6. CASE ReadNet(w) /\ pc[w] = "rows" /\ Goes(w, "write")
    <3>1. todo' = todo /\ seen' = seen
      BY <2>6 DEF ReadNet
    <3> QED BY <2>1, <2>6, <3>1 DEF Goes
  <2>7. ASSUME job'[w] = job[w], job[w].op \in {"pay", "resolve"}, pc'[w] \notin {"idle", "order"}
        PROVE  Quiet(w, d)' /\ (About(w)' => Whole(w, d)')
    BY <2>7 DEF ByOrder
  <2>8. /\ InsertCaptured(w) \/ Reread(w) => job[w].op \in {"pay", "resolve"}
        /\ Allocates(w) \/ pc[w] = "allot" => job[w].op \in {"pay", "resolve"}
    BY DEF InsertCaptured, Reread, JobsMakeSense, JobMakesSense, Allocates
  <2> QED BY <2>2, <2>3, <2>4, <2>5, <2>6, <2>7, <2>8, AdvancePlace DEF Step, Goes
<1> QED BY <1>1, <1>2 DEF WholeOrder

Shut == {"superseded", "cancelled"}

\* A closed row never changes.
LEMMA ShutStays ==
  ASSUME BaseInv, NEW w \in Worker, Step(w), NEW d \in Doc, doc[d].status \in Shut
  PROVE  doc'[d] = doc[d]
<1>1. RowChanges(w, d)
  BY StepRows DEF BaseInv, Rows
<1>2. Exists(d) /\ seen[w][d] \notin Current
  BY DEF Shut, Exists, BaseInv, SeenIsCurrent, Current, Open
<1>3. ~(CommitCapture(w) /\ d \in Covered(w))
  BY <1>2, OpenIsRead DEF CommitCapture, Covered, Current
<1> QED BY <1>1, <1>2, <1>3 DEF RowChanges, Current

\* A new version takes the next row, and closes every other document of its order.
LEMMA NewIsNext ==
  ASSUME VersionInv, NEW w \in Worker, CommitIssue(w), NEW n \in Doc, ~Exists(n), doc'[n] # doc[n]
  PROVE  /\ \A c \in Doc \ {n} : ~Exists(c) => n < c /\ doc'[c] = doc[c]
         /\ doc'[n].order = job[w].order
         /\ \A c \in Doc \ {n} : doc[c].order = job[w].order => doc'[c].status \in Shut
<1> USE DEF VersionInv, BaseInv, Typed, DataShape, LocalShape
<1> DEFINE j == job[w]
           wanted == IF j.op = "edit" THEN j.amount ELSE content[j.order]
           unpaid == Head(w) \cap OpenSeen(w)
           first == IF j.op = "request" THEN "issued" ELSE "pending"
           status == IF unpaid = {} THEN first ELSE seen[w][CHOOSE d \in unpaid : TRUE]
           create == \A d \in Head(w) : DecideVersion(seen[w][d], doc[d].price = wanted) = "create"
<1>1. \/ doc' = doc
      \/ doc' = [d \in Doc |-> IF d \in unpaid THEN [doc[d] EXCEPT !.status = "cancelled"] ELSE doc[d]]
      \/ create /\ NewVersion(j.order, unpaid, status, wanted)
  BY Zenon DEF CommitIssue
<1>2. \A d \in unpaid : d \in Doc /\ seen[w][d] \in Open /\ Exists(d)
  BY DEF OpenSeen, Open, SeenIsCurrent, Exists
<1> HIDE DEF status, wanted, create, unpaid
<1>3. create /\ NewVersion(j.order, unpaid, status, wanted)
  BY <1>1, <1>2
<1>4. PICK m \in Unused :
        /\ \A u \in Unused : m <= u
        /\ doc' = [d \in Doc |->
             IF d = m THEN [order |-> j.order, status |-> status, price |-> wanted, next |-> None]
             ELSE IF d \in unpaid THEN [doc[d] EXCEPT !.status = "superseded", !.next = m]
             ELSE doc[d]]
  BY <1>3 DEF NewVersion
<1>5. m = n
  BY <1>2, <1>4
<1>6. ASSUME NEW c \in Doc \ {n}, ~Exists(c) PROVE n < c /\ doc'[c] = doc[c]
  <2>1. doc'[c] = doc[c]
    BY <1>2, <1>4, <1>5, <1>6
  <2>2. n <= c /\ n \in Nat /\ c \in Nat /\ c # n
    BY <1>4, <1>5, <1>6, PaymentsAssumption DEF Unused, PaymentsAssumption
  <2> QED BY <2>1, <2>2
<1>7. ASSUME NEW c \in Doc \ {n}, doc[c].order = j.order PROVE doc'[c].status \in Shut
  <2>1. pc[w] = "rows" /\ todo[w] = {} /\ j.op \in ByOrder
    BY DEF CommitIssue, HasRows, ByOrder
  <2>2. seen[w][c] # "none" /\ doc[c].status = seen[w][c]
    BY <1>7, <2>1 DEF WholeOrder, SeenIsCurrent
  <2>3. c \in unpaid => doc'[c].status = "superseded"
    <3>1. c \in unpaid => doc'[c] = [doc[c] EXCEPT !.status = "superseded", !.next = m]
      BY <1>4, <1>5
    <3>2. doc[c] \in DocRow
      OBVIOUS
    <3> QED BY <3>1, <3>2 DEF DocRow
  <2>4. CASE seen[w][c] = "superseded"
    <3>1. c \notin unpaid
      BY <1>2, <2>4 DEF Open
    <3> QED BY <1>4, <1>5, <2>2, <2>4, <3>1 DEF Shut
  <2>5. CASE c \in Head(w)
    <3>1. DecideVersion(seen[w][c], doc[c].price = wanted) = "create"
      BY <1>3, <2>5 DEF create
    <3>2. seen[w][c] \in Open => c \in unpaid
      BY <2>5 DEF unpaid, OpenSeen
    <3>3. seen[w][c] \in Open \cup {"cancelled"}
      <4>1. seen[w][c] \in DocStatus /\ seen[w][c] \notin {"none", "superseded"}
        BY <2>2, <2>5 DEF Head
      <4>2. seen[w][c] # "paid"
        BY <3>1 DEF DecideVersion
      <4> QED BY <4>1, <4>2 DEF DocStatus, Open
    <3>4. c \notin unpaid => doc'[c] = doc[c]
      BY <1>4, <1>5
    <3> QED BY <2>2, <2>3, <3>2, <3>3, <3>4 DEF Shut
  <2>6. CASE seen[w][c] # "superseded" /\ c \notin Head(w)
    <3>1. PICK e \in Doc : seen[w][e] \notin {"none", "superseded"} /\ ~(e <= c)
      BY <2>2, <2>6 DEF Head
    <3>2. doc[e].order = j.order /\ Exists(e) /\ Exists(c)
      BY <2>1, <2>2, <3>1 DEF WholeOrder, SeenIsCurrent, Exists
    <3>3. c < e
      BY <3>1, PaymentsAssumption DEF PaymentsAssumption
    <3>4. doc[c].status \in Shut
      BY <1>7, <3>2, <3>3 DEF Versions, Shut
    <3>5. c \notin unpaid
      BY <2>6 DEF unpaid
    <3> QED BY <1>4, <1>5, <3>4, <3>5
  <2> QED BY <2>4, <2>5, <2>6
<1>8. doc'[n].order = job[w].order
  BY <1>4, <1>5
<1> QED BY <1>6, <1>7, <1>8

LEMMA VersionsStep ==
  ASSUME VersionInv, NEW w \in Worker, Step(w)
  PROVE  Versions'
<1> USE DEF VersionInv
<1> DEFINE New(d) == ~Exists(d) /\ doc'[d] # doc[d]
<1>1. ASSUME NEW d \in Doc, New(d)
      PROVE  /\ CommitIssue(w) /\ doc'[d].order = job[w].order
             /\ \A c \in Doc \ {d} : ~Exists(c) => d < c /\ doc'[c] = doc[c]
             /\ \A c \in Doc \ {d} : doc[c].order = job[w].order => doc'[c].status \in Shut
  BY <1>1, RowsKept, NewIsNext
<1>2. \A d \in Doc : ~New(d) => (Exists(d)' <=> Exists(d)) /\ doc'[d].order = doc[d].order
  BY RowsKept DEF Exists
<1>3. ASSUME NEW c \in Doc, NEW d \in Doc, Exists(c)', ~Exists(d)' PROVE c < d
  <2>1. ~Exists(d)
    BY <1>3, RowsKept
  <2>2. CASE New(c)
    BY <1>1, <1>3, <2>1, <2>2
  <2>3. CASE ~New(c)
    BY <1>2, <1>3, <2>1, <2>3 DEF Versions
  <2> QED BY <2>2, <2>3
<1>4. ASSUME NEW c \in Doc, NEW d \in Doc, Exists(c)', Exists(d)', doc'[c].order = doc'[d].order, c < d
      PROVE  doc'[c].status \in Shut
  <2>1. c \in Nat /\ d \in Nat /\ c # d
    BY <1>4, PaymentsAssumption DEF PaymentsAssumption
  <2>2. CASE New(d)
    <3>1. ~New(c)
      BY <1>1, <2>1, <2>2
    <3> QED BY <1>1, <1>2, <1>4, <2>1, <2>2, <3>1
  <2>3. CASE ~New(d) /\ New(c)
    <3>1. Exists(d) /\ ~Exists(c)
      BY <1>2, <1>4, <2>3
    <3> QED BY <1>4, <2>1, <3>1 DEF Versions
  <2>4. CASE ~New(d) /\ ~New(c)
    <3>1. doc[c].status \in Shut
      BY <1>2, <1>4, <2>4 DEF Versions, Shut
    <3> QED BY <3>1, ShutStays
  <2> QED BY <2>2, <2>3, <2>4
<1> QED BY <1>3, <1>4 DEF Versions, Shut

LEMMA VersionInit == Init => VersionInv
<1> SUFFICES ASSUME Init PROVE VersionInv
  OBVIOUS
<1> DEFINE n == Cardinality(Order)
<1>1. n \in Nat
  BY FS_CardinalityType, PaymentsAssumption DEF PaymentsAssumption
<1>2. PICK owner \in [1..n -> Order], price \in [Order -> Amount] :
        /\ \A c, d \in 1..n : owner[c] = owner[d] => c = d
        /\ doc = [d \in Doc |->
              IF d \in 1..n
              THEN [order |-> owner[d], status |-> "pending", price |-> price[owner[d]], next |-> None]
              ELSE [order |-> None, status |-> "none", price |-> 0, next |-> None]]
  BY Zenon DEF Init
<1> HIDE DEF n
<1>3. \A d \in Doc : d \in Nat \ {0} /\ (Exists(d) <=> d \in 1..n)
                     /\ (d \in 1..n => doc[d].order = owner[d])
  BY <1>2, PaymentsAssumption DEF PaymentsAssumption, Exists
<1>4. Versions
  <2>1. ASSUME NEW c \in Doc, NEW d \in Doc, Exists(c), ~Exists(d) PROVE c < d
    BY <1>1, <1>3, <2>1
  <2>2. ASSUME NEW c \in Doc, NEW d \in Doc, Exists(c), Exists(d), doc[c].order = doc[d].order, c < d
        PROVE  FALSE
    BY <1>2, <1>3, <2>2
  <2> QED BY <2>1, <2>2 DEF Versions
<1>5. HoldsOrder /\ WholeOrder
  BY DEF Init, HoldsOrder, WholeOrder, NothingSeen
<1> QED BY <1>4, <1>5, BaseInit DEF VersionInv

LEMMA VersionAlways == Spec => []VersionInv
<1>1. VersionInv /\ [Next]_vars => VersionInv'
  <2> SUFFICES ASSUME VersionInv, [Next]_vars PROVE VersionInv'
    OBVIOUS
  <2>1. BaseInv'
    BY BaseStep DEF VersionInv
  <2>2. ASSUME NEW w \in Worker, Step(w) PROVE HoldsOrder' /\ WholeOrder' /\ Versions'
    BY <2>2, HolderStep, WholeStep, VersionsStep DEF VersionInv
  <2>3. CASE UNCHANGED vars
    <3>1. pc' = pc /\ job' = job /\ holder' = holder /\ doc' = doc /\ seen' = seen /\ todo' = todo
      BY <2>3 DEF vars, data, locals
    <3>2. HoldsOrder'
      BY <3>1 DEF VersionInv, HoldsOrder
    <3>3. WholeOrder'
      BY <3>1 DEF VersionInv, WholeOrder
    <3>4. Versions'
      BY <3>1 DEF VersionInv, Versions, Exists
    <3> QED BY <2>1, <3>2, <3>3, <3>4 DEF VersionInv
  <2> QED BY <2>1, <2>2, <2>3 DEF VersionInv, Next, Step
<1> QED BY <1>1, VersionInit, PTL DEF Spec

\* An order never has two documents that could be paid, for any number of requests, edits,
\* withdrawals, cancels and captures at once.
THEOREM OneVersionToPay == Spec => []OneCurrentVersion
<1>1. VersionInv => OneCurrentVersion
  <2> SUFFICES ASSUME VersionInv, NEW c \in Doc, NEW d \in Doc, c # d, doc[c].order = doc[d].order,
                      doc[c].status \in Current, doc[d].status \in Current
               PROVE  FALSE
    BY DEF OneCurrentVersion, Current
  <2>1. Exists(c) /\ Exists(d)
    BY DEF Current, Open, Exists
  <2>2. doc[c].status \notin Shut /\ doc[d].status \notin Shut
    BY DEF Current, Open, Shut
  <2>3. c < d \/ d < c
    BY PaymentsAssumption DEF PaymentsAssumption
  <2> QED BY <2>1, <2>2, <2>3 DEF VersionInv, Versions, Shut
<1> QED BY <1>1, VersionAlways, PTL
-----------------------------------------------------------------------------
(* Cancelled orders, when no request is under way for one *)

LEMMA LiftsStep ==
  ASSUME VersionInv, LiftsAll, NEW w \in Worker, Step(w)
  PROVE  LiftsAll'
<1> USE DEF VersionInv, BaseInv, Typed, DataShape, LocalShape
<1>1. ASSUME NEW v \in Worker \ {w}, NEW d \in Doc, pc'[v] = "write", job'[v].op = "cancel"
      PROVE  due'[v][d] = IF seen'[v][d] # "none" THEN laid'[d] - lifted'[d] ELSE 0
  <2>1. pc'[v] = pc[v] /\ seen'[v] = seen[v] /\ due'[v] = due[v] /\ job'[v] = job[v]
    BY StepFrame DEF LocalFrame, Apart
  <2>2. due[v][d] = IF seen[v][d] # "none" THEN laid[d] - lifted[d] ELSE 0
    BY <1>1, <2>1 DEF LiftsAll
  <2>3. CASE seen[v][d] # "none"
    <3>1. seen[w][d] = "none"
      BY <2>3 DEF SeenIsCurrent
    <3>2. laid'[d] = laid[d]
      BY <3>1, LaidStep DEF Open
    <3>3. lifted'[d] = lifted[d]
      <4>1. CASE CommitCancel(w)
        <5>1. due[w][d] = 0
          BY <3>1, <4>1 DEF CommitCancel, LiftsAll
        <5>2. lifted'[d] = lifted[d] + due[w][d]
          BY <4>1 DEF CommitCancel
        <5> QED BY <5>1, <5>2
      <4>2. CASE ~CommitCancel(w)
        BY <4>2, QuietSteps DEF InsertOther, Reread, CommitWithdraw, CommitCapture, CommitIssue
      <4> QED BY <4>1, <4>2
    <3> QED BY <2>1, <2>2, <3>2, <3>3
  <2> QED BY <2>1, <2>2, <2>3
<1>2. ASSUME NEW d \in Doc, pc'[w] = "write"
      PROVE  due'[w][d] = IF seen'[w][d] # "none" THEN laid'[d] - lifted'[d] ELSE 0
  <2>1. ReadNet(w) /\ Goes(w, "write")
    BY <1>2, AdvancePlace, BeginPlace, LostPlace, Ended DEF Step, Goes
  <2> QED BY <2>1 DEF ReadNet, Goes, Net
<1> QED BY <1>1, <1>2 DEF LiftsAll

LEMMA EarlyStep ==
  ASSUME VersionInv, RequestsAreEarly, LateRequest = FALSE, NEW w \in Worker, Step(w)
  PROVE  RequestsAreEarly'
<1> USE DEF VersionInv, BaseInv, Typed, DataShape, LocalShape
<1> DEFINE Has(v, op) == pc[v] # "idle" /\ job[v].op = op
<1>1. \A v \in Worker \ {w} : pc'[v] = pc[v] /\ job'[v] = job[v]
  BY StepFrame DEF LocalFrame, Apart
\* What the step's own job is, if it is about a whole order.
<1>2. ASSUME NEW op \in {"request", "cancel"}, Has(w, op)'
      PROVE  \/ Has(w, op) /\ job'[w] = job[w]
             \/ /\ op = "request" => placed[job'[w].order] /\ ~InFlight("cancel", job'[w].order)
                /\ op = "cancel" => ~InFlight("request", job'[w].order)
                /\ pc[w] = "idle" /\ placed' = placed
  <2>1. CASE pc[w] # "idle" /\ job'[w] = job[w]
    BY <1>2, <2>1
  <2>2. CASE Begin(w) /\ pc[w] = "idle" /\ pc'[w] = "order"
    <3>1. ASSUME NEW r \in Ref, NEW d \in Doc, NEW out \in Outcome, NEW a \in Amount, Pay(w, r, d, out, a)
          PROVE  job'[w].op \notin {"request", "cancel"}
      <4> DEFINE j == PayJob(r, d, out, a)
      <4>1. j \in Job /\ j.op = "pay"
        BY <3>1, PayJobTyped DEF Pay, PayJob
      <4>2. Start(w, j) \/ Repeat(w, j, attempt[r])
        BY <3>1 DEF Pay, PayJob
      <4> HIDE DEF j
      <4>3. CASE Start(w, j)
        BY <4>1, <4>3 DEF Start
      <4>4. CASE ~Start(w, j)
        <5>1. ~End(w)
          BY <2>2, Ended
        <5>2. job' = [job EXCEPT ![w] = [j EXCEPT !.op = "resolve"]]
          BY <4>2, <4>4, <5>1, Zenon DEF Repeat
        <5>3. job'[w].op = "resolve"
          BY <4>1, <5>2 DEF Job
        <5> QED BY <5>3
      <4> QED BY <4>3, <4>4
    <3>2. ASSUME NEW d \in Doc, Withdraw(w, d) PROVE job'[w].op = "withdraw"
      BY <3>2 DEF Withdraw, Start, Plain
    <3>3. ASSUME NEW o \in Order, NEW a \in Amount \cup {0}, Edit(w, o, a) PROVE job'[w].op = "edit"
      BY <3>3 DEF Edit, Start, Plain
    <3>4. ASSUME NEW o \in Order, CancelOrder(w, o)
          PROVE  job'[w].op = "cancel" /\ job'[w].order = o /\ ~InFlight("request", o) /\ placed' = placed
      BY <3>4 DEF CancelOrder, Start, Plain, data
    <3>5. ASSUME NEW o \in Order, Request(w, o)
          PROVE  job'[w].op = "request" /\ job'[w].order = o /\ ~InFlight("cancel", o) /\ placed[o] /\ placed' = placed
      BY <3>5 DEF Request, Start, Plain, data
    <3> QED BY <1>2, <2>2, <3>1, <3>2, <3>3, <3>4, <3>5, Zenon DEF Begin
  <2> QED BY <1>2, <2>1, <2>2, OrderJobs DEF ByOrder
<1>3. ASSUME NEW v \in Worker, Has(v, "request")'
      PROVE  /\ placed'[job'[v].order]
             /\ \A u \in Worker : Has(u, "cancel")' => job'[u].order # job'[v].order
  <2>1. ASSUME NEW u \in Worker, Has(u, "cancel")', job'[u].order = job'[v].order PROVE FALSE
    <3>1. CASE v = w
      <4>1. u # w
        BY <1>3, <2>1, <3>1
      <4>2. Has(u, "cancel") /\ job[u].order = job'[w].order
        BY <1>1, <2>1, <3>1, <4>1
      <4>3. ~InFlight("cancel", job'[w].order) => FALSE
        BY <4>2 DEF InFlight
      <4> QED BY <1>2, <1>3, <3>1, <4>2, <4>3 DEF RequestsAreEarly
    <3>2. CASE v # w
      <4>1. Has(v, "request") /\ job'[v] = job[v]
        BY <1>1, <1>3, <3>2
      <4>2. InFlight("request", job[v].order)
        BY <4>1 DEF InFlight
      <4> QED BY <1>1, <1>2, <2>1, <4>1, <4>2 DEF RequestsAreEarly
    <3> QED BY <3>1, <3>2
  <2>2. placed'[job'[v].order]
    <3>1. CASE v = w /\ ~(Has(w, "request") /\ job'[w] = job[w])
      BY <1>2, <1>3, <3>1
    <3>2. CASE Has(v, "request") /\ job'[v] = job[v]
      <4>1. placed[job[v].order] /\ job[v].order \in Order
        BY <3>2 DEF RequestsAreEarly, JobsMakeSense, JobMakesSense, Job
      <4>2. CASE CommitCancel(w)
        <5>1. job[w].order # job[v].order
          BY <3>2, <4>2 DEF RequestsAreEarly, CommitCancel
        <5> QED BY <3>2, <4>1, <4>2, <5>1 DEF CommitCancel
      <4>3. CASE ~CommitCancel(w)
        <5>1. placed' = placed
          BY <4>3, QuietSteps DEF InsertOther, Reread, CommitWithdraw, CommitCapture, CommitIssue
        <5> QED BY <3>2, <4>1, <5>1
      <4> QED BY <4>2, <4>3
    <3> QED BY <1>1, <1>3, <3>1, <3>2
  <2> QED BY <2>1, <2>2
<1> QED BY <1>3 DEF RequestsAreEarly

LEMMA ClosedStep ==
  ASSUME VersionInv, CloseInv, NEW w \in Worker, Step(w)
  PROVE  CancelledOrderIsClosed'
<1> USE DEF VersionInv, CloseInv, BaseInv, Typed, DataShape, LocalShape
<1> SUFFICES ASSUME NEW d \in Doc, Exists(d)', ~placed'[doc'[d].order]
             PROVE  doc'[d].status \in Shut /\ laid'[d] - lifted'[d] = 0
  BY DEF CancelledOrderIsClosed, Shut, Net
\* A row is made for an order that is placed.
<1>1. CASE ~Exists(d)
  <2>1. CommitIssue(w) /\ doc'[d].order = job[w].order /\ doc' # doc
    <3>1. doc'[d] # doc[d]
      BY <1>1 DEF Exists
    <3>2. CommitIssue(w) /\ NewRow(d, job[w].order)
      BY <1>1, <3>1, RowsKept
    <3>3. doc'[d].order = job[w].order
      BY <3>2 DEF NewRow
    <3> QED BY <3>1, <3>2, <3>3
  <2>2. job[w].op = "request" => placed[job[w].order]
    BY <2>1 DEF RequestsAreEarly, CommitIssue, HasRows
  <2>3. job[w].op = "edit" => placed[job[w].order]
    BY <2>1, Zenon DEF CommitIssue
  <2>4. placed' = placed /\ job[w].op \in {"request", "edit"}
    BY <2>1 DEF CommitIssue
  <2> QED BY <2>1, <2>2, <2>3, <2>4
<1>2. CASE Exists(d)
  <2>1. doc'[d].order = doc[d].order
    BY <1>2, RowsKept
  <2>2. CASE CommitCancel(w) /\ doc[d].order = job[w].order
    <3>1. pc[w] = "write" /\ todo[w] = {} /\ job[w].op = "cancel"
      BY <2>2 DEF CommitCancel, JobsMakeSense, JobMakesSense
    <3>2. seen[w][d] # "none" /\ seen[w][d] = doc[d].status
      BY <2>2, <3>1 DEF WholeOrder, SeenIsCurrent, ByOrder
    <3>3. laid'[d] = laid[d] /\ lifted'[d] = lifted[d] + (laid[d] - lifted[d])
      BY <2>2, <3>1, <3>2 DEF CommitCancel, LiftsAll
    <3>4. laid'[d] - lifted'[d] = 0
      <4>1. laid[d] \in Int /\ lifted[d] \in Int
        OBVIOUS
      <4> QED BY <3>3, <4>1
    <3>5. CASE doc[d].status \in Current
      <4>1. doc[d].next = None
        BY <3>5 DEF RowsMakeSense, Current, Open
      <4>2. doc'[d] = [doc[d] EXCEPT !.status = "cancelled"]
        BY <2>2, <3>2, <3>5, <4>1 DEF CommitCancel, Current
      <4>3. doc[d] \in DocRow
        OBVIOUS
      <4> QED BY <3>4, <4>2, <4>3 DEF Shut, DocRow
    <3>6. CASE doc[d].status \notin Current
      <4>1. doc[d].status \in Shut
        BY <1>2, <3>6 DEF Current, Open, Shut, Exists, DocRow, DocStatus
      <4> QED BY <3>4, <4>1, ShutStays
    <3> QED BY <3>5, <3>6
  <2>3. CASE ~(CommitCancel(w) /\ doc[d].order = job[w].order)
    <3>1. ~placed[doc[d].order]
      <4>1. CASE CommitCancel(w)
        BY <2>1, <2>3, <4>1 DEF CommitCancel
      <4>2. CASE ~CommitCancel(w)
        BY <2>1, <4>2, QuietSteps DEF InsertOther, Reread, CommitWithdraw, CommitCapture, CommitIssue
      <4> QED BY <4>1, <4>2
    <3>2. doc[d].status \in Shut /\ laid[d] - lifted[d] = 0
      BY <1>2, <3>1 DEF CancelledOrderIsClosed, Shut, Net
    <3>3. laid'[d] = laid[d]
      <4>1. seen[w][d] \notin Open
        BY <3>2 DEF SeenIsCurrent, Shut, Open
      <4> QED BY <4>1, LaidStep
    <3>4. lifted'[d] = lifted[d]
      <4>1. CASE CommitCancel(w)
        <5>1. pc[w] = "write" /\ todo[w] = {} /\ job[w].op = "cancel"
          BY <4>1 DEF CommitCancel, JobsMakeSense, JobMakesSense
        <5>2. seen[w][d] = "none"
          BY <2>3, <4>1, <5>1 DEF WholeOrder, ByOrder
        <5>3. due[w][d] = 0 /\ lifted'[d] = lifted[d] + due[w][d]
          BY <4>1, <5>1, <5>2 DEF CommitCancel, LiftsAll
        <5> QED BY <5>3
      <4>2. CASE ~CommitCancel(w)
        BY <4>2, QuietSteps DEF InsertOther, Reread, CommitWithdraw, CommitCapture, CommitIssue
      <4> QED BY <4>1, <4>2
    <3> QED BY <3>2, <3>3, <3>4, ShutStays
  <2> QED BY <2>2, <2>3
<1> QED BY <1>1, <1>2

\* A cancelled order has no document left to pay and no money on any of them, if a request
\* for documents is not under way while its order is cancelled.
THEOREM CancelCloses == ASSUME LateRequest = FALSE PROVE Spec => []CancelledOrderIsClosed
<1>1. Init => VersionInv /\ CloseInv
  <2>1. Init => RequestsAreEarly /\ LiftsAll /\ CancelledOrderIsClosed
    <3> SUFFICES ASSUME Init PROVE RequestsAreEarly /\ LiftsAll /\ CancelledOrderIsClosed
      OBVIOUS
    <3>1. \A d \in Doc : Exists(d) => doc[d].order \in Order
      BY BaseInit DEF BaseInv, Typed, RowsMakeSense
    <3> QED BY <3>1 DEF Init, RequestsAreEarly, LiftsAll, CancelledOrderIsClosed
  <2> QED BY <2>1, VersionInit DEF CloseInv
<1>2. VersionInv /\ CloseInv /\ [Next]_vars => CloseInv'
  <2> SUFFICES ASSUME VersionInv, CloseInv, [Next]_vars PROVE CloseInv'
    OBVIOUS
  <2>1. ASSUME NEW w \in Worker, Step(w) PROVE CloseInv'
    BY <2>1, EarlyStep, LiftsStep, ClosedStep DEF CloseInv
  <2>2. CASE UNCHANGED vars
    <3>1. /\ pc' = pc /\ job' = job /\ placed' = placed /\ doc' = doc /\ seen' = seen /\ due' = due
          /\ laid' = laid /\ lifted' = lifted
      BY <2>2 DEF vars, data, locals
    <3>2. RequestsAreEarly'
      BY <3>1 DEF CloseInv, RequestsAreEarly
    <3>3. LiftsAll'
      BY <3>1 DEF CloseInv, LiftsAll
    <3>4. CancelledOrderIsClosed'
      BY <3>1 DEF CloseInv, CancelledOrderIsClosed, Exists, Net
    <3> QED BY <3>2, <3>3, <3>4 DEF CloseInv
  <2> QED BY <2>1, <2>2 DEF Next, Step
<1>3. CloseInv => CancelledOrderIsClosed
  BY DEF CloseInv
<1> QED BY <1>1, <1>2, <1>3, VersionAlways, PTL DEF Spec

-----------------------------------------------------------------------------
(* Types *)

\* Money is never negative: what was lifted off a document had been laid on it.
SumsMakeSense ==
    /\ \A d \in Doc : lifted[d] >= 0 /\ lifted[d] <= laid[d]
    /\ \A w \in Worker, d \in Doc : due[w][d] >= 0
    /\ advance \in Nat

\* Money always has a document to look at first, and a superseded one a successor.
PreferredExists ==
    /\ pref \in [Worker -> Doc \cup {None}]
    /\ \A w \in Worker : pc[w] = "rows" /\ Allocates(w) => pref[w] \in Doc
    /\ \A d \in Doc : doc[d].status = "superseded" => doc[d].next \in Doc

RecordsShape ==
    /\ issues \subseteq {"ORDER_MISMATCH", "INVALID_STATE_TRANSITION"} \X Ref \X Doc
    /\ told \subseteq Ref \X Doc
    /\ jobs \in Nat /\ faults \in Nat

TypeInv == LiftsAll /\ SumsMakeSense /\ PreferredExists /\ RecordsShape

LEMMA DueStep ==
  ASSUME Typed, NEW w \in Worker, Step(w)
  PROVE  due' = due \/ due' = [due EXCEPT ![w] = Zeros] \/ ReadPaid(w) \/ ReadNet(w)
<1>1. Begin(w) => due' = due \/ End(w)
  <2>1. ASSUME NEW r \in Ref, NEW d \in Doc, NEW out \in Outcome, NEW a \in Amount, Pay(w, r, d, out, a)
        PROVE  due' = due \/ End(w)
    <3>1. CASE Start(w, PayJob(r, d, out, a))
      BY <3>1 DEF Start
    <3>2. CASE Repeat(w, PayJob(r, d, out, a), attempt[r])
      BY <3>2 DEF Repeat
    <3> QED BY <2>1, <3>1, <3>2 DEF Pay, PayJob
  <2>2. ASSUME NEW j, Start(w, j) PROVE due' = due
    BY <2>2 DEF Start
  <2> QED BY <2>1, <2>2 DEF Begin, Withdraw, CancelOrder, Request, Edit
<1>2. InsertLost(w) => due' = due \/ End(w)
  BY DEF InsertLost, Repeat
<1>3. /\ LockOrder(w) \/ InsertCaptured(w) \/ PreferNamed(w) \/ PreferHead(w) \/ AllotNext(w) => due' = due
      /\ \A d \in Doc : LockRow(w, d) => due' = due
      /\ Reread(w) => due' = due \/ End(w)
  BY DEF LockOrder, LockRow, InsertCaptured, Reread, PreferNamed, PreferHead, AllotNext, Scan, locals
<1>4. InsertOther(w) \/ CommitCapture(w) \/ CommitWithdraw(w) \/ CommitCancel(w) \/ CommitIssue(w) \/ Fail(w) => End(w)
  BY DEF InsertOther, CommitCapture, CommitWithdraw, CommitCancel, CommitIssue, Fail
<1>5. End(w) => due' = [due EXCEPT ![w] = Zeros]
  BY DEF End
<1> QED BY <1>1, <1>2, <1>3, <1>4, <1>5 DEF Step, Advance

LEMMA LiftedStep ==
  ASSUME Typed, LiftsAll, NEW w \in Worker, Step(w), NEW d \in Doc
  PROVE  \/ lifted'[d] = lifted[d]
         \/ lifted'[d] = laid[d] /\ CommitCancel(w) /\ laid'[d] = laid[d]
<1> USE DEF Typed, DataShape, LocalShape
<1>1. CASE CommitCancel(w)
  <2>1. lifted'[d] = lifted[d] + due[w][d] /\ laid'[d] = laid[d]
    BY <1>1 DEF CommitCancel
  <2>2. due[w][d] = IF seen[w][d] # "none" THEN laid[d] - lifted[d] ELSE 0
    BY <1>1 DEF CommitCancel, LiftsAll
  <2>3. laid[d] \in Nat /\ lifted[d] \in Int
    OBVIOUS
  <2> QED BY <1>1, <2>1, <2>2, <2>3
<1>2. CASE ~CommitCancel(w)
  BY <1>2, QuietSteps DEF InsertOther, Reread, CommitWithdraw, CommitCapture, CommitIssue
<1> QED BY <1>1, <1>2

LEMMA AdvanceStep ==
  ASSUME Typed, NEW w \in Worker, Step(w)
  PROVE  \/ advance' = advance
         \/ CommitCapture(w) /\ advance' = advance + left[w]
         \/ CommitCancel(w) /\ advance' = advance + Sum(due[w], Doc)
<1>1. CASE CommitCapture(w)
  BY <1>1 DEF CommitCapture, Rest
<1>2. CASE CommitCancel(w)
  BY <1>2 DEF CommitCancel, Sum
<1>3. CASE ~CommitCapture(w) /\ ~CommitCancel(w)
  <2>1. Begin(w) => advance' = advance
    BY DEF Begin, Pay, Withdraw, CancelOrder, Request, Edit, data
  <2>2. Fail(w) => advance' = advance
    BY DEF Fail, data
  <2>3. Advance(w) => advance' = advance
    BY <1>3 DEF Advance, LockOrder, LockRow, InsertCaptured, InsertOther, InsertLost, Reread, PreferNamed,
         PreferHead, ReadPaid, AllotNext, ReadNet, CommitWithdraw, CommitIssue, data
  <2> QED BY <2>1, <2>2, <2>3 DEF Step
<1> QED BY <1>1, <1>2, <1>3

LEMMA SumsStep ==
  ASSUME BaseInv, LiftsAll, SumsMakeSense, NEW w \in Worker, Step(w)
  PROVE  SumsMakeSense'
<1> USE DEF BaseInv, Typed, DataShape, LocalShape
<1>1. ASSUME NEW d \in Doc PROVE lifted'[d] >= 0 /\ lifted'[d] <= laid'[d]
  <2>1. laid[d] \in Nat /\ lifted[d] \in Int /\ lifted[d] >= 0 /\ lifted[d] <= laid[d] /\ put[w][d] \in Nat
    BY DEF SumsMakeSense
  <2>2. laid'[d] = laid[d] \/ laid'[d] = laid[d] + put[w][d]
    BY LaidStep
  <2>3. lifted'[d] = lifted[d] \/ (lifted'[d] = laid[d] /\ laid'[d] = laid[d])
    BY LiftedStep
  <2> HIDE DEF BaseInv, Typed, DataShape, LocalShape
  <2> QED BY <2>1, <2>2, <2>3
<1>2. ASSUME NEW v \in Worker, NEW d \in Doc PROVE due'[v][d] >= 0
  <2>1. due[v][d] \in Int /\ due[v][d] >= 0 /\ due \in [Worker -> [Doc -> Int]]
    BY DEF SumsMakeSense
  <2>2. CASE due' = due
    BY <2>1, <2>2
  <2>3. CASE due' = [due EXCEPT ![w] = Zeros]
    BY <2>1, <2>3 DEF Zeros
  <2>4. CASE ReadPaid(w)
    <3>1. doc[d].price \in Int /\ laid[d] \in Int
      BY DEF DocRow
    <3>2. due' = [due EXCEPT ![w] = [e \in Doc |->
              IF e \in OpenSeen(w) /\ doc[e].price > laid[e] THEN doc[e].price - laid[e] ELSE 0]]
      BY <2>4 DEF ReadPaid
    <3> QED BY <2>1, <3>1, <3>2
  <2>5. CASE ReadNet(w)
    <3>1. laid[d] \in Int /\ lifted[d] \in Int /\ lifted[d] <= laid[d]
      BY DEF SumsMakeSense
    <3>2. due' = [due EXCEPT ![w] = [e \in Doc |-> IF seen[w][e] # "none" THEN laid[e] - lifted[e] ELSE 0]]
      BY <2>5 DEF ReadNet, Net
    <3> QED BY <2>1, <3>1, <3>2
  <2> QED BY <2>2, <2>3, <2>4, <2>5, DueStep
<1>3. advance' \in Nat
  <2>1. advance \in Nat /\ left[w] \in Nat
    BY DEF SumsMakeSense
  <2>2. Sum(due[w], Doc) \in Nat
    <3>1. \A d \in Doc : due[w][d] \in Nat
      BY DEF SumsMakeSense
    <3> QED BY <3>1, SumNat, PaymentsAssumption DEF PaymentsAssumption
  <2>3. \/ advance' = advance
        \/ advance' = advance + left[w]
        \/ advance' = advance + Sum(due[w], Doc)
    BY AdvanceStep
  <2> HIDE DEF BaseInv, Typed, DataShape, LocalShape
  <2> QED BY <2>1, <2>2, <2>3
<1> QED BY <1>1, <1>2, <1>3 DEF SumsMakeSense

\* The document money looks at first changes with a scan, a version or an end.
LEMMA PrefMoves ==
  ASSUME Typed, NEW w \in Worker, Step(w)
  PROVE  \/ pref' = pref /\ pc'[w] = "order"
         \/ pref' = pref /\ pc'[w] # "rows"
         \/ pref' = pref /\ pc'[w] = "rows" /\ LockOrder(w)
         \/ pref' = pref /\ pc'[w] = "rows" /\ pc[w] = "rows" /\ job'[w] = job[w]
         \/ pref' = [pref EXCEPT ![w] = None] /\ pc'[w] = "idle"
         \/ pref' = [pref EXCEPT ![w] = job[w].doc] /\ Pays(w) /\ Scan(w) /\ Goes(w, "rows")
         \/ /\ pref' = [pref EXCEPT ![w] = doc[pref[w]].next] /\ PreferHead(w) /\ doc' = doc
            /\ pc' = pc /\ doc[pref[w]].status = "superseded"
<1> USE DEF Typed, LocalShape
<1>1. ASSUME End(w) PROVE pref' = [pref EXCEPT ![w] = None] /\ pc'[w] = "idle"
  BY <1>1 DEF End
<1>2. ASSUME NEW j, NEW e, Repeat(w, j, e) PROVE End(w) \/ (pref' = pref /\ pc'[w] = "order")
  BY <1>2 DEF Repeat
<1>3. ASSUME NEW j, Start(w, j) PROVE pref' = pref /\ pc'[w] = "order"
  BY <1>3 DEF Start
<1>4. CASE Begin(w)
  <2>1. ASSUME NEW r \in Ref, NEW d \in Doc, NEW out \in Outcome, NEW a \in Amount, Pay(w, r, d, out, a)
        PROVE  End(w) \/ (pref' = pref /\ pc'[w] = "order")
    BY <1>2, <1>3, <2>1 DEF Pay
  <2> QED BY <1>1, <1>3, <1>4, <2>1 DEF Begin, Withdraw, CancelOrder, Request, Edit
<1>5. ASSUME InsertLost(w) PROVE End(w) \/ (pref' = pref /\ pc'[w] = "order")
  BY <1>2, <1>5 DEF InsertLost
<1>6. ASSUME Scan(w) PROVE pref' = [pref EXCEPT ![w] = job[w].doc]
  BY <1>6 DEF Scan
<1>7. ASSUME InsertCaptured(w) \/ Reread(w) PROVE Pays(w)
  BY <1>7 DEF InsertCaptured, Reread, Pays, JobsMakeSense, JobMakesSense
<1>8. ASSUME \/ LockOrder(w) \/ (\E d \in Doc : LockRow(w, d)) \/ PreferNamed(w) \/ ReadPaid(w)
             \/ AllotNext(w) \/ ReadNet(w)
      PROVE  pref' = pref
  BY <1>8 DEF LockOrder, LockRow, PreferNamed, ReadPaid, AllotNext, ReadNet, locals
<1>9. CASE PreferHead(w)
  BY <1>9 DEF PreferHead, HasRows, data
<1>10. CASE Advance(w) \/ Fail(w)
  BY <1>1, <1>5, <1>6, <1>7, <1>8, <1>9, <1>10, AdvancePlace DEF Goes
<1> QED BY <1>4, <1>10 DEF Step

LEMMA NextVersionExists ==
  ASSUME BaseInv, NEW w \in Worker, Step(w), NEW d \in Doc,
         doc[d].status = "superseded" => doc[d].next \in Doc
  PROVE  doc'[d].status = "superseded" => doc'[d].next \in Doc
<1>1. RowChanges(w, d) /\ doc[d] \in DocRow
  BY StepRows DEF BaseInv, Typed, DataShape, Rows
<1>2. Superseded(d) => doc'[d].next \in Doc
  BY <1>1 DEF Superseded, DocRow
<1>3. \A status \in {"issued", "cancelled", "paid"} : Restated(d, status) => doc'[d].status = status
  BY <1>1 DEF Restated, DocRow
<1>4. NewRow(d, job[w].order) => doc'[d].status # "superseded"
  BY DEF NewRow, Open
<1> QED BY <1>1, <1>2, <1>3, <1>4 DEF RowChanges

LEMMA PreferredStep ==
  ASSUME BaseInv, PreferredExists, NEW w \in Worker, Step(w)
  PROVE  PreferredExists'
<1> USE DEF BaseInv, Typed, LocalShape, PreferredExists
<1>1. ASSUME NEW d \in Doc PROVE doc'[d].status = "superseded" => doc'[d].next \in Doc
  BY NextVersionExists
<1>2. pref' \in [Worker -> Doc \cup {None}]
  <2>1. Pays(w) => job[w].doc \in Doc
    BY DEF JobsMakeSense, JobMakesSense, Pays
  <2>2. PreferHead(w) => pref[w] \in Doc
    BY DEF PreferHead, HasRows
  <2>3. PreferHead(w) /\ doc[pref[w]].status = "superseded" => doc[pref[w]].next \in Doc
    BY <2>2
  <2>4. \/ pref' = pref
        \/ pref' = [pref EXCEPT ![w] = None]
        \/ Pays(w) /\ pref' = [pref EXCEPT ![w] = job[w].doc]
        \/ /\ PreferHead(w) /\ doc[pref[w]].status = "superseded"
           /\ pref' = [pref EXCEPT ![w] = doc[pref[w]].next]
    BY PrefMoves
  <2>5. pref \in [Worker -> Doc \cup {None}]
    OBVIOUS
  <2> HIDE DEF BaseInv, Typed, LocalShape, PreferredExists
  <2> QED BY <2>1, <2>3, <2>4, <2>5
<1>3. ASSUME NEW v \in Worker, pc'[v] = "rows", Allocates(v)' PROVE pref'[v] \in Doc
  <2>1. CASE v # w
    <3>1. pc'[v] = pc[v] /\ job'[v] = job[v]
      BY <2>1, StepFrame DEF LocalFrame, Apart
    <3>2. pref[v] \in Doc
      BY <1>3, <3>1 DEF Allocates
    <3> QED BY <2>1, <3>2, PrefMoves
  <2>2. CASE v = w
    <3>1. CASE LockOrder(w)
      <4>1. job' = job /\ pc' = [pc EXCEPT ![w] = CASE job[w].op = "pay" /\ Allocates(w) -> "insert"
                                    [] job[w].op = "resolve" -> "reread"
                                    [] OTHER -> "rows"]
        BY <3>1 DEF LockOrder
      <4> QED BY <1>3, <2>2, <4>1 DEF Allocates
    <3>2. CASE pref' = pref /\ pc[w] = "rows" /\ job'[w] = job[w]
      BY <1>3, <2>2, <3>2 DEF Allocates
    <3>3. CASE pref' = [pref EXCEPT ![w] = job[w].doc] /\ Pays(w)
      <4>1. job[w].doc \in Doc
        BY <3>3 DEF JobsMakeSense, JobMakesSense, Pays
      <4> QED BY <2>2, <3>3, <4>1
    <3>4. CASE pref' = [pref EXCEPT ![w] = doc[pref[w]].next] /\ PreferHead(w) /\ doc[pref[w]].status = "superseded"
      <4>1. pref[w] \in Doc
        BY <3>4 DEF PreferHead, HasRows
      <4> QED BY <2>2, <3>4, <4>1
    <3> QED BY <1>3, <2>2, <3>1, <3>2, <3>3, <3>4, PrefMoves
  <2> QED BY <2>1, <2>2
<1> QED BY <1>1, <1>2, <1>3

LEMMA RecordsStep ==
  ASSUME Typed, RecordsShape, NEW w \in Worker, Step(w)
  PROVE  RecordsShape'
<1> USE DEF RecordsShape
<1> DEFINE Kinds == {"ORDER_MISMATCH", "INVALID_STATE_TRANSITION"}
           Recorded(r, d) == /\ issues' = issues \/ \E k \in Kinds : issues' = issues \cup {<<k, r, d>>}
                             /\ told' = told \/ told' = told \cup {<<r, d>>}
           Kept == issues' = issues /\ told' = told
<1>1. ASSUME NEW j, NEW e, Repeat(w, j, e) PROVE Recorded(j.ref, j.doc)
  <2>1. CASE Answer(j.ref, j.doc, j.out, e.status)
    BY <2>1 DEF Answer
  <2> QED BY <1>1, <2>1 DEF Repeat
<1>2. issues' \subseteq Kinds \X Ref \X Doc /\ told' \subseteq Ref \X Doc
  <2>1. ASSUME NEW r \in Ref, NEW d \in Doc, Recorded(r, d)
        PROVE  issues' \subseteq Kinds \X Ref \X Doc /\ told' \subseteq Ref \X Doc
    BY <2>1
  <2>2. ASSUME NEW r \in Ref, NEW d \in Doc, NEW out \in Outcome, NEW a \in Amount, Pay(w, r, d, out, a)
        PROVE  Recorded(r, d)
    <3>1. CASE Repeat(w, PayJob(r, d, out, a), attempt[r])
      BY <1>1, <3>1 DEF PayJob
    <3> QED BY <2>2, <3>1 DEF Pay, PayJob
  <2>3. Pays(w) => job[w].ref \in Ref /\ job[w].doc \in Doc
    BY DEF Typed, JobsMakeSense, JobMakesSense, Pays
  <2>4. CASE InsertLost(w)
    <3>1. Pays(w)
      BY <2>4 DEF InsertLost, HasRows, Pays, Typed, JobsMakeSense, JobMakesSense
    <3>2. Recorded(job[w].ref, job[w].doc)
      BY <1>1, <2>4 DEF InsertLost
    <3> HIDE DEF Recorded, Kinds
    <3> QED BY <2>1, <2>3, <3>1, <3>2
  <2>5. CASE Reread(w)
    <3>1. Pays(w)
      BY <2>5 DEF Reread, Pays, Typed, JobsMakeSense, JobMakesSense
    <3>2. Recorded(job[w].ref, job[w].doc)
      BY <2>5 DEF Reread, Answer
    <3> HIDE DEF Recorded, Kinds
    <3> QED BY <2>1, <2>3, <3>1, <3>2
  <2>6. CASE CommitCapture(w)
    <3>1. Pays(w)
      BY <2>6 DEF CommitCapture, Pays, Allocates, Typed, JobsMakeSense, JobMakesSense
    <3>2. Recorded(job[w].ref, job[w].doc)
      BY <2>6 DEF CommitCapture
    <3> HIDE DEF Recorded, Kinds
    <3> QED BY <2>1, <2>3, <3>1, <3>2
  <2>7. ASSUME InsertOther(w) \/ CommitWithdraw(w) \/ CommitCancel(w) \/ CommitIssue(w) PROVE Kept
    BY <2>7 DEF InsertOther, CommitWithdraw, CommitCancel, CommitIssue
  <2> HIDE DEF Recorded
  <2> QED BY <2>1, <2>2, <2>4, <2>5, <2>6, <2>7, QuietSteps
<1>3. jobs' \in Nat
  <2>1. jobs' = jobs \/ jobs' = jobs + 1
    BY DEF Step, Begin, Pay, Withdraw, CancelOrder, Request, Edit, Fail, Advance, LockOrder, LockRow,
         InsertCaptured, InsertOther, InsertLost, Reread, PreferNamed, PreferHead, ReadPaid, AllotNext,
         CommitCapture, ReadNet, CommitWithdraw, CommitCancel, CommitIssue
  <2> QED BY <2>1
<1>4. faults' \in Nat
  <2>1. faults' = faults \/ faults' = faults + 1
    BY DEF Step, Begin, Pay, Withdraw, CancelOrder, Request, Edit, Fail, Advance, LockOrder, LockRow,
         InsertCaptured, InsertOther, InsertLost, Reread, PreferNamed, PreferHead, ReadPaid, AllotNext,
         CommitCapture, ReadNet, CommitWithdraw, CommitCancel, CommitIssue
  <2> QED BY <2>1
<1> QED BY <1>2, <1>3, <1>4

LEMMA TypeInvImplies == VersionInv /\ TypeInv => TypeOK
<1> SUFFICES ASSUME VersionInv, TypeInv PROVE TypeOK
  OBVIOUS
<1> USE DEF TypeInv, VersionInv, BaseInv, Typed
<1>1. DataShape /\ LocalShape /\ RecordsShape /\ pref \in [Worker -> Doc \cup {None}]
  BY DEF PreferredExists
<1>2. lifted \in [Doc -> Nat] /\ due \in [Worker -> [Doc -> Nat]] /\ advance \in Nat
  <2>1. lifted \in [Doc -> Int] /\ due \in [Worker -> [Doc -> Int]] /\ SumsMakeSense
    BY <1>1 DEF DataShape, LocalShape
  <2>2. \A d \in Doc : lifted[d] \in Nat
    BY <2>1 DEF SumsMakeSense
  <2>3. \A w \in Worker, d \in Doc : due[w][d] \in Nat
    BY <2>1 DEF SumsMakeSense
  <2>4. \A w \in Worker : due[w] \in [Doc -> Nat]
    BY <2>1, <2>3
  <2> HIDE DEF TypeInv
  <2>5. advance \in Nat
    BY <2>1 DEF SumsMakeSense
  <2> QED BY <2>1, <2>2, <2>4, <2>5
<1>3. \A w \in Worker : pc[w] # "idle" => job[w] \in Job
  BY DEF JobsMakeSense, JobMakesSense
<1> HIDE DEF TypeInv, VersionInv, BaseInv, Typed
<1> QED BY <1>1, <1>2, <1>3 DEF TypeOK, DataShape, LocalShape, RecordsShape, DocRow, Attempt, PC

LEMMA TypeInit == Init => TypeInv
<1> SUFFICES ASSUME Init PROVE TypeInv
  OBVIOUS
<1>2. LiftsAll /\ RecordsShape
  BY DEF Init, LiftsAll, RecordsShape
<1>3. SumsMakeSense
  BY DEF Init, SumsMakeSense, Zeros
<1>4. \A d \in Doc : doc[d].status # "superseded"
  <2>1. PICK owner \in [1..Cardinality(Order) -> Order], price \in [Order -> Amount] :
          doc = [d \in Doc |->
              IF d \in 1..Cardinality(Order)
              THEN [order |-> owner[d], status |-> "pending", price |-> price[owner[d]], next |-> None]
              ELSE [order |-> None, status |-> "none", price |-> 0, next |-> None]]
    BY Zenon DEF Init
  <2> QED BY <2>1
<1>5. PreferredExists
  BY <1>4 DEF Init, PreferredExists
<1> QED BY <1>2, <1>3, <1>5 DEF TypeInv

LEMMA TypeStep == VersionInv /\ TypeInv /\ [Next]_vars => TypeInv'
<1> SUFFICES ASSUME VersionInv, TypeInv, [Next]_vars PROVE TypeInv'
  OBVIOUS
<1>1. BaseInv /\ Typed
  BY DEF VersionInv, BaseInv
<1>2. ASSUME NEW w \in Worker, Step(w) PROVE TypeInv'
  BY <1>1, <1>2, LiftsStep, SumsStep, PreferredStep, RecordsStep DEF TypeInv
<1>3. CASE UNCHANGED vars
  <2>1. UNCHANGED <<doc, laid, lifted, advance, issues, told, pc, job, seen, pref, due, jobs, faults>>
    BY <1>3 DEF vars, data, locals
  <2>2. LiftsAll' /\ SumsMakeSense'
    BY <2>1 DEF TypeInv, LiftsAll, SumsMakeSense
  <2>3. PreferredExists'
    BY <2>1 DEF TypeInv, PreferredExists, Allocates
  <2>4. RecordsShape'
    BY <2>1 DEF TypeInv, RecordsShape
  <2> QED BY <2>2, <2>3, <2>4 DEF TypeInv
<1> QED BY <1>2, <1>3 DEF Next, Step

LEMMA TypeAlways == Spec => []TypeInv
BY TypeInit, TypeStep, VersionAlways, PTL DEF Spec

\* Every variable keeps its shape for any documents, payments and transactions: no sum on the
\* ledger, in an allocation or lifted by a cancel is ever negative, and money waiting for a
\* document always has one.
THEOREM PaymentsTyped == Spec => []TypeOK
BY TypeAlways, VersionAlways, TypeInvImplies, PTL

-----------------------------------------------------------------------------
(* Allocations lay out their whole amount *)

\* A capture on its way has laid out or still has to lay out its whole amount.
AllotsWhole ==
    \A w \in Worker :
        /\ Pays(w) => job[w].amount \in Amount
        /\ pc[w] = "allot" => Sum(put[w], Doc) + left[w] = job[w].amount

LEMMA AmountKept ==
  ASSUME Typed, NEW w \in Worker, Step(w), Pays(w) => job[w].amount \in Amount, Pays(w)'
  PROVE  job'[w].amount \in Amount
<1> USE DEF Typed, LocalShape
<1>1. ASSUME NEW j \in Job, NEW e, j.amount \in Amount, Repeat(w, j, e) PROVE pc'[w] = "idle" \/ job'[w].amount \in Amount
  <2>1. CASE End(w)
    BY <2>1, Ended
  <2>2. CASE ~End(w)
    <3>1. job' = [job EXCEPT ![w] = [j EXCEPT !.op = "resolve"]]
      BY <1>1, <2>2, Zenon DEF Repeat
    <3>2. [j EXCEPT !.op = "resolve"].amount = j.amount
      BY DEF Job
    <3> QED BY <1>1, <3>1, <3>2
  <2> QED BY <2>1, <2>2
<1>2. ASSUME NEW j, Start(w, j) PROVE job'[w] = j
  BY <1>2 DEF Start
<1>3. CASE Begin(w)
  <2>1. ASSUME NEW r \in Ref, NEW d \in Doc, NEW out \in Outcome, NEW a \in Amount, Pay(w, r, d, out, a)
        PROVE  pc'[w] = "idle" \/ job'[w].amount \in Amount
    <3>1. PayJob(r, d, out, a) \in Job /\ PayJob(r, d, out, a).amount = a
      BY <2>1, PayJobTyped DEF Pay, PayJob
    <3>2. Start(w, PayJob(r, d, out, a)) \/ Repeat(w, PayJob(r, d, out, a), attempt[r])
      BY <2>1 DEF Pay, PayJob
    <3> QED BY <1>1, <1>2, <3>1, <3>2
  <2>2. ASSUME NEW d \in Doc, Withdraw(w, d) PROVE ~Pays(w)'
    BY <1>2, <2>2 DEF Withdraw, Plain, Pays
  <2>3. ASSUME NEW o \in Order, CancelOrder(w, o) \/ Request(w, o) PROVE ~Pays(w)'
    BY <1>2, <2>3 DEF CancelOrder, Request, Plain, Pays
  <2>4. ASSUME NEW o \in Order, NEW a \in Amount \cup {0}, Edit(w, o, a) PROVE ~Pays(w)'
    BY <1>2, <2>4 DEF Edit, Plain, Pays
  <2> QED BY <1>3, <2>1, <2>2, <2>3, <2>4 DEF Begin, Pays
<1>4. CASE InsertLost(w)
  <2>1. Pays(w) /\ job[w] \in Job
    BY <1>4 DEF InsertLost, HasRows, Pays, JobsMakeSense, JobMakesSense
  <2>2. End(w) \/ Repeat(w, job[w], attempt[job[w].ref])
    BY <1>4 DEF InsertLost
  <2> QED BY <1>1, <2>1, <2>2, Ended DEF Pays
<1>5. CASE job'[w] = job[w] /\ pc[w] # "idle"
  BY <1>5 DEF Pays
<1>6. CASE pc'[w] = "idle"
  BY <1>6 DEF Pays
<1> QED BY <1>3, <1>4, <1>5, <1>6, AdvancePlace, Ended DEF Step, Goes, Pays, Allocates

LEMMA WholeAllotStep ==
  ASSUME BaseInv, AllotsWhole, NEW w \in Worker, Step(w)
  PROVE  AllotsWhole'
<1> USE DEF BaseInv, Typed, LocalShape
<1>0. IsFiniteSet(Doc)
  BY PaymentsAssumption DEF PaymentsAssumption
<1>1. ASSUME NEW v \in Worker \ {w}
      PROVE  /\ Pays(v)' => job'[v].amount \in Amount
             /\ pc'[v] = "allot" => Sum(put'[v], Doc) + left'[v] = job'[v].amount
  <2>1. pc'[v] = pc[v] /\ job'[v] = job[v] /\ put'[v] = put[v]
    BY StepFrame DEF LocalFrame, Apart
  <2>2. left'[v] = left[v]
    <3>1. \A j : Start(w, j) => left' = left
      BY DEF Start
    <3>2. End(w) => left'[v] = left[v]
      BY DEF End
    <3>3. \A j, e : Repeat(w, j, e) => left'[v] = left[v]
      BY <3>2 DEF Repeat
    <3>4. Begin(w) => left'[v] = left[v]
      <4>1. ASSUME NEW r \in Ref, NEW d \in Doc, NEW out \in Outcome, NEW a \in Amount, Pay(w, r, d, out, a)
            PROVE  left'[v] = left[v]
        BY <3>1, <3>3, <4>1 DEF Pay
      <4> QED BY <3>1, <4>1 DEF Begin, Withdraw, CancelOrder, Request, Edit
    <3>5. InsertLost(w) => left'[v] = left[v]
      BY <3>2, <3>3 DEF InsertLost
    <3>6. /\ LockOrder(w) \/ (\E d \in Doc : LockRow(w, d)) \/ Scan(w) \/ PreferNamed(w) \/ PreferHead(w)
               \/ ReadPaid(w) \/ ReadNet(w) => left'[v] = left[v]
          /\ AllotNext(w) => left'[v] = left[v]
      BY DEF LockOrder, LockRow, Scan, PreferNamed, PreferHead, ReadPaid, AllotNext, ReadNet, locals
    <3> QED BY <3>2, <3>4, <3>5, <3>6, AdvancePlace DEF Step
  <2> QED BY <2>1, <2>2 DEF AllotsWhole, Pays
<1>2. Pays(w)' => job'[w].amount \in Amount
  BY AmountKept DEF AllotsWhole
<1>3. ASSUME pc'[w] = "allot" PROVE Sum(put'[w], Doc) + left'[w] = job'[w].amount
  <2>1. CASE ReadPaid(w) /\ Goes(w, "allot") /\ pc[w] = "read"
    <3>1. \A d \in Doc : put[w][d] = 0
      BY <2>1 DEF Allotting
    <3>2. Sum(put[w], Doc) = 0
      <4> DEFINE f == put[w]
      <4>1. \A d \in Doc \ {} : f[d] = 0
        BY <3>1
      <4> HIDE DEF f
      <4>2. Sum(f, Doc) = Sum(f, {})
        BY ONLY <1>0, <4>1, SumZeros
      <4> QED BY <4>2, SumEmpty DEF f
    <3>3. put' = put /\ left'[w] = job[w].amount /\ job'[w] = job[w]
      BY <2>1 DEF ReadPaid, Goes
    <3>4. job[w].amount \in Nat
      BY <2>1 DEF JobsMakeSense, JobMakesSense, Job
    <3> QED BY <3>2, <3>3, <3>4
  <2>2. CASE AllotNext(w) /\ Goes(w, "allot") /\ pc[w] = "allot"
    <3>1. PICK d \in Waiting(w) : /\ put' = [put EXCEPT ![w][d] = Smaller(left[w], due[w][d])]
                                  /\ left' = [left EXCEPT ![w] = @ - Smaller(@, due[w][d])]
      BY <2>2 DEF AllotNext
    <3>2. d \in Doc /\ put[w][d] = 0 /\ left[w] \in Int /\ Smaller(left[w], due[w][d]) \in Int
      BY <3>1 DEF Waiting, Smaller
    <3> DEFINE m == Smaller(left[w], due[w][d])
    <3>3. /\ \A e \in Doc : put[w][e] \in Int /\ put'[w][e] \in Int
          /\ \A e \in Doc \ {d} : put'[w][e] = put[w][e]
          /\ put'[w][d] = m /\ left'[w] = left[w] - m
      BY <3>1, <3>2
    <3>4. Sum(put'[w], Doc) = Sum(put[w], Doc) + (put'[w][d] - put[w][d])
      <4> DEFINE f == put[w]
                 g == put'[w]
      <4>1. /\ \A e \in Doc : f[e] \in Int /\ g[e] \in Int
            /\ \A e \in Doc \ {d} : g[e] = f[e]
        BY <3>3
      <4> HIDE DEF f, g
      <4>2. Sum(g, Doc) = Sum(f, Doc) + (g[d] - f[d])
        BY ONLY <1>0, <3>2, <4>1, SumChange
      <4> QED BY <4>2 DEF f, g
    <3>5. Sum(put[w], Doc) + left[w] = job[w].amount /\ job'[w] = job[w]
      BY <2>2 DEF AllotsWhole, Goes
    <3>6. Sum(put[w], Doc) \in Int
      BY <1>0, <3>3, SumInt
    <3> HIDE DEF m
    <3>7. m \in Int
      BY <3>2 DEF m
    <3> HIDE DEF BaseInv, Typed, LocalShape
    <3> QED BY <3>2, <3>3, <3>4, <3>5, <3>6, <3>7
  <2> QED BY <1>3, <2>1, <2>2, AdvancePlace, BeginPlace, LostPlace, Ended DEF Step, Goes
<1> QED BY <1>1, <1>2, <1>3 DEF AllotsWhole

-----------------------------------------------------------------------------
(* The ledger is implemented *)

Price == [d \in Doc |-> doc[d].price]
Captured == [r \in Ref |-> IF attempt[r].status = "captured" THEN attempt[r].amount ELSE 0]

LedgerInv == VersionInv /\ AttemptsAreOwned /\ NeverOverpaid /\ TypeInv /\ AllotsWhole

\* What documents ask changes with a new version alone.
LEMMA PriceStep ==
  ASSUME BaseInv, NEW w \in Worker, Step(w), ~CommitIssue(w)
  PROVE  Price' = Price
<1>1. ASSUME NEW d \in Doc PROVE doc'[d].price = doc[d].price
  <2>1. Exists(d) => doc'[d].price = doc[d].price
    BY RowsKept
  <2>2. ~Exists(d) => doc'[d] = doc[d]
    BY RowsKept
  <2> QED BY <2>1, <2>2
<1> QED BY <1>1 DEF Price

\* Payments are captured by a commit of an allocation alone.
LEMMA CapturedStep ==
  ASSUME BaseInv, NEW w \in Worker, Step(w), ~CommitCapture(w)
  PROVE  Captured' = Captured
<1> USE DEF BaseInv, Typed, DataShape
<1>1. ASSUME NEW r \in Ref
      PROVE  \/ attempt'[r] = attempt[r]
             \/ attempt[r].status # "captured" /\ attempt'[r].status # "captured"
  <2>1. CASE InsertOther(w) /\ r = job[w].ref /\ attempt[r].status = "none"
    <3>1. job[w].out # "captured"
      BY <2>1 DEF InsertOther, Allocates
    <3>2. \/ attempt' = attempt
          \/ attempt' = [attempt EXCEPT ![job[w].ref] =
                            [status |-> job[w].out, doc |-> job[w].doc, amount |-> job[w].amount]]
      BY <2>1 DEF InsertOther
    <3> QED BY <2>1, <3>1, <3>2
  <2>2. CASE Reread(w) /\ r = job[w].ref /\ attempt[r].status = "pending"
    <3>1. \/ attempt' = attempt
          \/ attempt' = [attempt EXCEPT ![job[w].ref].status = job[w].out] /\ job[w].out # "captured"
      BY <2>2 DEF Reread
    <3>2. attempt[r] \in Attempt
      OBVIOUS
    <3> QED BY <2>2, <3>1, <3>2 DEF Attempt
  <2> QED BY <2>1, <2>2, AttemptChanges
<1> QED BY <1>1 DEF Captured

\* The commit of an allocation is the ledger's capture of its payment.
LEMMA CaptureIsLedger ==
  ASSUME LedgerInv, NEW w \in Worker, CommitCapture(w)
  PROVE  \E r \in Ref, a \in Amount : Ledger!CapturePayment(r, a)
<1> USE DEF LedgerInv, VersionInv, BaseInv, Typed, DataShape, LocalShape
<1> DEFINE share == put[w]
<1>0. IsFiniteSet(Doc) /\ Amount \subseteq Nat /\ Step(w)
  BY PaymentsAssumption DEF PaymentsAssumption, Step, Advance
<1>1. PICK r \in Ref, a \in Amount :
        pc[w] = "allot" /\ Pays(w) /\ Allocates(w) /\ r = job[w].ref /\ a = job[w].amount
  BY DEF CommitCapture, Pays, Allocates, JobsMakeSense, JobMakesSense, AllotsWhole
<1>2. attempt[r].status # "captured"
  BY <1>1 DEF Pays, Allocates, AttemptsAreOwned, Inserting
<1>3. Captured[r] = 0 /\ Captured' = [Captured EXCEPT ![r] = a]
  <2>1. attempt' = [attempt EXCEPT ![r] = [status |-> "captured", doc |-> job[w].doc, amount |-> a]]
    BY <1>1 DEF CommitCapture
  <2>2. ASSUME NEW e \in Ref PROVE Captured'[e] = IF e = r THEN a ELSE Captured[e]
    BY <1>1, <2>1 DEF Captured
  <2> QED BY <1>1, <1>2, <2>2 DEF Captured
<1>4. \A d \in Doc : share[d] \in Nat
  OBVIOUS
<1>5. Sum(share, Doc) + left[w] = a /\ Sum(share, Doc) \in Nat /\ left[w] \in Nat
  <2>1. Sum(share, Doc) + left[w] = a
    BY <1>1 DEF AllotsWhole
  <2> HIDE DEF share
  <2>2. Sum(share, Doc) \in Nat
    BY ONLY <1>0, <1>4, SumNat
  <2> QED BY <2>1, <2>2
<1>6. ASSUME NEW d \in Doc PROVE share[d] \in 0..a /\ share[d] <= Price[d] - laid[d]
  <2>1. share[d] <= Sum(share, Doc)
    <3> HIDE DEF share
    <3> QED BY ONLY <1>0, <1>4, <1>6, SumAtLeast
  <2>2. share[d] <= doc[d].price - laid[d]
    <3>1. laid[d] \in Nat /\ doc[d].price \in Nat /\ laid[d] <= doc[d].price
      BY DEF NeverOverpaid, DocRow
    <3>2. share[d] # 0 => share[d] <= due[w][d] /\ due[w][d] \in Int
      BY <1>1 DEF Allotting
    <3>3. due[w][d] > 0 => due[w][d] = doc[d].price - laid[d]
      BY <1>1 DEF Allotting
    <3> HIDE DEF share, LedgerInv, VersionInv, BaseInv, Typed, DataShape, LocalShape
    <3> QED BY <1>4, <3>1, <3>2, <3>3
  <2> HIDE DEF share
  <2> QED BY <1>4, <1>5, <2>1, <2>2 DEF Price
<1>7. /\ share \in [Doc -> 0..a]
      /\ \A d \in Doc : share[d] <= Price[d] - laid[d]
  BY <1>6
<1>8. /\ laid' = [d \in Doc |-> laid[d] + share[d]]
      /\ advance' = advance + left[w]
      /\ lifted' = lifted
  BY DEF CommitCapture, Rest
<1>9. Price' = Price
  BY <1>0, PriceStep DEF CommitIssue, CommitCapture, HasRows
<1>10. Ledger!Total(share) = Sum(share, Doc)
  <2>1. DOMAIN share = Doc
    BY <1>7
  <2> HIDE DEF share
  <2> QED BY <2>1 DEF Ledger!Total, Sum, MapThenSumSet, MapThenFoldSet, Ledger!MapThenSumSet, Ledger!MapThenFoldSet
<1>11. Ledger!Total(share) <= a /\ advance' = advance + (a - Ledger!Total(share))
  <2>1. advance \in Nat
    BY DEF TypeInv, SumsMakeSense
  <2> HIDE DEF share, LedgerInv, VersionInv, BaseInv, Typed, DataShape, LocalShape
  <2> QED BY <1>0, <1>1, <1>5, <1>8, <1>10, <2>1
<1> HIDE DEF share, LedgerInv, VersionInv, BaseInv, Typed, DataShape, LocalShape
<1>12. Ledger!CapturePayment(r, a)
  BY <1>3, <1>7, <1>8, <1>9, <1>11 DEF Ledger!CapturePayment, Price, Captured
<1> QED BY <1>12

\* The cancel of an order closes the documents whose rows it locked.
LEMMA CancelIsLedger ==
  ASSUME LedgerInv, NEW w \in Worker, CommitCancel(w)
  PROVE  \E D \in SUBSET Doc : Ledger!CloseDocuments(D)
<1> USE DEF LedgerInv, VersionInv, BaseInv, Typed, DataShape, LocalShape
<1> DEFINE D == {d \in Doc : seen[w][d] # "none"}
           rest == [d \in D |-> laid[d] - lifted[d]]
           f == due[w]
<1>1. IsFiniteSet(Doc) /\ IsFiniteSet(D) /\ D \in SUBSET Doc /\ Step(w)
  BY PaymentsAssumption, FS_Subset DEF PaymentsAssumption, Step, Advance
<1>2. \A d \in Doc : f[d] = IF d \in D THEN laid[d] - lifted[d] ELSE 0
  BY DEF CommitCancel, TypeInv, LiftsAll
<1>3. \A d \in Doc : laid[d] \in Int /\ lifted[d] \in Int /\ f[d] \in Int
  OBVIOUS
<1>4. lifted' = [d \in Doc |-> IF d \in D THEN laid[d] ELSE lifted[d]]
  <2>1. lifted' = [d \in Doc |-> lifted[d] + f[d]]
    BY DEF CommitCancel
  <2> HIDE DEF f, D
  <2> QED BY <1>2, <1>3, <2>1
<1>5. Sum(f, Doc) = Sum(rest, D)
  <2>1. /\ \A d \in D : f[d] \in Int
        /\ \A d \in Doc \ D : f[d] = 0
        /\ \A d \in D : f[d] = rest[d]
    BY <1>2, <1>3
  <2> HIDE DEF f, D, rest
  <2>2. Sum(f, Doc) = Sum(f, D)
    BY ONLY <1>1, <2>1, SumZeros
  <2>3. Sum(f, D) = Sum(rest, D)
    BY ONLY <1>1, <2>1, SumEqual
  <2> QED BY <2>2, <2>3
<1>6. Ledger!Total(rest) = Sum(rest, D)
  <2>1. DOMAIN rest = D
    OBVIOUS
  <2> HIDE DEF rest, D
  <2> QED BY <2>1 DEF Ledger!Total, Sum, MapThenSumSet, MapThenFoldSet, Ledger!MapThenSumSet,
             Ledger!MapThenFoldSet
<1>7. advance' = advance + Sum(f, Doc) /\ laid' = laid
  BY DEF CommitCancel, Sum
<1>8. Price' = Price /\ Captured' = Captured
  <2>1. ~CommitIssue(w) /\ ~CommitCapture(w)
    BY DEF CommitIssue, CommitCapture, CommitCancel, HasRows
  <2> QED BY <1>1, <2>1, PriceStep, CapturedStep
<1> SUFFICES Ledger!CloseDocuments(D)
  BY <1>1
<1>9. advance' = advance + Ledger!Total(rest)
  BY <1>5, <1>6, <1>7
<1> HIDE DEF D, f, LedgerInv, VersionInv, BaseInv, Typed, DataShape, LocalShape
<1> QED BY <1>4, <1>7, <1>8, <1>9 DEF Ledger!CloseDocuments, Price, Captured

\* A new version asks its price from then on, and nothing else changes on the ledger.
LEMMA IssueIsLedger ==
  ASSUME LedgerInv, NEW w \in Worker, CommitIssue(w)
  PROVE  \/ UNCHANGED <<Price, Captured, laid, lifted, advance>>
         \/ \E d \in Doc, a \in Amount : Ledger!IssueDocument(d, a)
<1> USE DEF LedgerInv, VersionInv, BaseInv, Typed, DataShape, LocalShape
<1>1. Step(w) /\ UNCHANGED <<laid, lifted, advance>>
  BY DEF Step, Advance, CommitIssue
<1>2. Captured' = Captured
  BY DEF CommitIssue, Captured
<1>3. \A d \in Doc : Exists(d) => doc'[d].price = doc[d].price
  BY <1>1, RowsKept
<1>4. CASE \A d \in Doc : ~Exists(d) => doc'[d] = doc[d]
  <2>1. Price' = Price
    BY <1>3, <1>4 DEF Price
  <2> QED BY <1>1, <1>2, <2>1
<1>5. ASSUME NEW n \in Doc, ~Exists(n), doc'[n] # doc[n]
      PROVE  \E a \in Amount : Ledger!IssueDocument(n, a)
  <2>1. \A c \in Doc \ {n} : doc'[c].price = doc[c].price
    BY <1>3, <1>5, NewIsNext
  <2>2. PICK a \in Amount : doc'[n].price = a
    <3>1. NewRow(n, job[w].order)
      BY <1>1, <1>5, RowsKept
    <3> QED BY <3>1 DEF NewRow
  <2>3. doc[n].price = 0
    BY <1>5 DEF RowsMakeSense
  <2>4. Price' = [Price EXCEPT ![n] = a] /\ Price[n] = 0
    BY <2>1, <2>2, <2>3 DEF Price
  <2> HIDE DEF LedgerInv, VersionInv, BaseInv, Typed, DataShape, LocalShape
  <2> QED BY <1>1, <1>2, <2>4 DEF Ledger!IssueDocument, Price, Captured
<1> QED BY <1>4, <1>5

LEMMA LedgerStep ==
  ASSUME LedgerInv, [Next]_vars
  PROVE  [Ledger!LedgerNext]_(Ledger!ledgerVars)
<1> USE DEF Ledger!LedgerNext
<1>1. ASSUME UNCHANGED <<Price, Captured, laid, lifted, advance>>
      PROVE  UNCHANGED Ledger!ledgerVars
  BY <1>1 DEF Ledger!ledgerVars, Price, Captured
<1>2. ASSUME NEW w \in Worker, Step(w)
      PROVE  [Ledger!LedgerNext]_(Ledger!ledgerVars)
  <2>1. CASE CommitCapture(w)
    <3>1. \E r \in Ref, a \in Amount : Ledger!CapturePayment(r, a)
      BY <2>1, CaptureIsLedger
    <3> QED BY <3>1
  <2>2. CASE CommitCancel(w)
    BY <2>2, CancelIsLedger
  <2>3. CASE CommitIssue(w)
    BY <1>1, <2>3, IssueIsLedger
  <2>4. CASE ~CommitCapture(w) /\ ~CommitCancel(w) /\ ~CommitIssue(w)
    <3>1. BaseInv /\ Typed /\ LiftsAll
      BY DEF LedgerInv, VersionInv, BaseInv, TypeInv
    <3>2. Price' = Price /\ Captured' = Captured
      BY <1>2, <2>4, <3>1, PriceStep, CapturedStep
    <3>3. UNCHANGED <<laid, lifted, advance>>
      <4>1. advance' = advance
        BY <1>2, <2>4, <3>1, AdvanceStep
      <4>2. UNCHANGED <<laid, lifted>>
        BY <1>2, <2>4, QuietSteps DEF InsertOther, Reread, CommitWithdraw
      <4> QED BY <4>1, <4>2
    <3> QED BY <1>1, <3>2, <3>3
  <2> QED BY <2>1, <2>2, <2>3, <2>4
<1>3. CASE UNCHANGED vars
  BY <1>1, <1>3 DEF vars, data, Price, Captured
<1> QED BY <1>2, <1>3 DEF Next, Step

LEMMA LedgerInitial == Init => Ledger!LedgerInit
<1> SUFFICES ASSUME Init PROVE Ledger!LedgerInit
  OBVIOUS
<1>1. PICK owner \in [1..Cardinality(Order) -> Order], price \in [Order -> Amount] :
        doc = [d \in Doc |->
              IF d \in 1..Cardinality(Order)
              THEN [order |-> owner[d], status |-> "pending", price |-> price[owner[d]], next |-> None]
              ELSE [order |-> None, status |-> "none", price |-> 0, next |-> None]]
  BY Zenon DEF Init
<1>2. \A d \in Doc : doc[d].price \in Amount \cup {0}
  BY <1>1
<1> QED BY <1>2 DEF Ledger!LedgerInit, Init, NoAttempt, Zeros

LEMMA WholeAlways == Spec => []AllotsWhole
<1>1. Init => AllotsWhole
  BY DEF Init, AllotsWhole, Pays
<1>2. VersionInv /\ AllotsWhole /\ [Next]_vars => AllotsWhole'
  <2> SUFFICES ASSUME VersionInv, AllotsWhole, [Next]_vars PROVE AllotsWhole'
    OBVIOUS
  <2>1. ASSUME NEW w \in Worker, Step(w) PROVE AllotsWhole'
    BY <2>1, WholeAllotStep DEF VersionInv
  <2>2. CASE UNCHANGED vars
    <3>1. UNCHANGED <<pc, job, put, left>> /\ AllotsWhole
      BY <2>2 DEF vars, locals
    <3> QED BY <3>1 DEF AllotsWhole, Pays
  <2> QED BY <2>1, <2>2 DEF Next, Step
<1> QED BY <1>1, <1>2, VersionAlways, PTL DEF Spec

\* The transactions implement the ledger: whatever their interleaving and failures, every
\* capture is laid out whole and once, a cancel moves all that lies on its documents to the
\* advance, and no other step moves money.
THEOREM LedgerIsImplemented == Spec => ImplementsLedger
<1>1. Spec => []LedgerInv
  <2>1. Spec => []AttemptInv
    BY AttemptInit, AttemptStep, PTL DEF Spec
  <2>2. VersionInv /\ AttemptInv /\ NeverOverpaid /\ TypeInv /\ AllotsWhole => LedgerInv
    BY DEF LedgerInv, AttemptInv
  <2> QED BY <2>1, <2>2, VersionAlways, NothingOverpaid, TypeAlways, WholeAlways, PTL
<1>2. LedgerInv /\ [Next]_vars => [Ledger!LedgerNext]_(Ledger!ledgerVars)
  BY LedgerStep
<1> QED BY <1>1, <1>2, LedgerInitial, PTL DEF Spec, ImplementsLedger, Ledger!LedgerSpec

-----------------------------------------------------------------------------
(* Locks *)

\* A transaction starts without locks and without documents to lock.
NoLocksYet ==
    \A w \in Worker :
        /\ pc[w] \in {"idle", "order"} => \A o \in Order : holder[o] # w
        /\ pc[w] \in {"idle", "order", "insert", "reread"} =>
              todo[w] = {} /\ \A d \in Doc : rowlock[d] # w

\* Except for issues, documents are locked in ascending order.
Ascending ==
    \A w \in Worker, c, d \in Doc :
        pc[w] = "rows" /\ job[w].op \notin {"request", "edit"} /\ rowlock[d] = w /\ c \in todo[w]
            => d < c

\* A job other than an allocation locks documents of its own order alone.
OwnRows ==
    \A w \in Worker : pc[w] # "idle" =>
        /\ job[w].op = "withdraw" => doc[job[w].doc].order = job[w].order
        /\ \A d \in Doc : rowlock[d] = w \/ d \in todo[w] =>
              /\ ~Allocates(w) => doc[d].order = job[w].order
              /\ job[w].op = "withdraw" => d = job[w].doc

\* A successor is of the same order, and so is the document money looks at first.
SameOrder ==
    /\ \A d \in Doc : doc[d].status = "superseded" => doc[doc[d].next].order = doc[d].order
    /\ \A w \in Worker : pc[w] = "rows" /\ Allocates(w) => doc[pref[w]].order = job[w].order

LockInv == NoLocksYet /\ Ascending /\ OwnRows /\ SameOrder

Released(w) ==
    /\ \A o \in Order : holder'[o] # w
    /\ \A d \in Doc : rowlock'[d] # w

LEMMA LocksOfOthers ==
  ASSUME Typed, NEW w \in Worker, Step(w)
  PROVE  /\ \A o \in Order : holder'[o] \in {holder[o], w, None}
         /\ \A d \in Doc : rowlock'[d] \in {rowlock[d], w, None}
<1> USE DEF Typed, LocalShape
<1>1. /\ End(w) => \A o \in Order : holder'[o] \in {holder[o], w, None}
      /\ End(w) => \A d \in Doc : rowlock'[d] \in {rowlock[d], w, None}
  BY DEF End
<1>2. ASSUME NEW j, NEW e, Repeat(w, j, e)
      PROVE  /\ \A o \in Order : holder'[o] \in {holder[o], w, None}
             /\ \A d \in Doc : rowlock'[d] \in {rowlock[d], w, None}
  BY <1>1, <1>2 DEF Repeat
<1>3. ASSUME NEW j, Start(w, j) PROVE UNCHANGED <<holder, rowlock>>
  BY <1>3 DEF Start
<1>4. CASE Begin(w)
  <2>1. ASSUME NEW r \in Ref, NEW d \in Doc, NEW out \in Outcome, NEW a \in Amount, Pay(w, r, d, out, a)
        PROVE  /\ \A o \in Order : holder'[o] \in {holder[o], w, None}
               /\ \A c \in Doc : rowlock'[c] \in {rowlock[c], w, None}
    BY <1>2, <1>3, <2>1 DEF Pay
  <2> QED BY <1>3, <1>4, <2>1 DEF Begin, Withdraw, CancelOrder, Request, Edit
<1>5. CASE InsertLost(w)
  BY <1>1, <1>2, <1>5 DEF InsertLost
<1>6. CASE LockOrder(w)
  BY <1>6 DEF LockOrder
<1>7. ASSUME NEW d \in Doc, LockRow(w, d)
      PROVE  /\ \A o \in Order : holder'[o] \in {holder[o], w, None}
             /\ \A c \in Doc : rowlock'[c] \in {rowlock[c], w, None}
  BY <1>7 DEF LockRow
<1>8. CASE PreferHead(w)
  BY <1>8 DEF PreferHead
<1>9. CASE Scan(w) \/ PreferNamed(w) \/ ReadPaid(w) \/ AllotNext(w) \/ ReadNet(w)
  BY <1>9 DEF Scan, PreferNamed, ReadPaid, AllotNext, ReadNet
<1> QED BY <1>1, <1>4, <1>5, <1>6, <1>7, <1>8, <1>9, AdvancePlace DEF Step

\* Where a transaction goes, with its locks and the documents it still has to lock.
LEMMA LockMoves ==
  ASSUME Typed, NoLocksYet, NEW w \in Worker, Step(w)
  PROVE  \/ pc'[w] = "idle" /\ todo'[w] = {} /\ Released(w)
         \/ pc'[w] = "order" /\ todo'[w] = {} /\ Released(w)
         \/ LockOrder(w)
         \/ \E d \in Doc : LockRow(w, d)
         \/ Scan(w) /\ Goes(w, "rows") /\ Allocates(w) /\ Pays(w) /\ pc[w] \in {"insert", "reread"}
         \/ PreferHead(w)
         \/ /\ pc'[w] \in {"read", "allot", "write"} /\ pc[w] # "idle" /\ job'[w] = job[w]
            /\ UNCHANGED <<rowlock, holder>> /\ todo'[w] = todo[w] /\ pref' = pref
<1> USE DEF Typed, LocalShape
<1>1. End(w) => pc'[w] = "idle" /\ todo'[w] = {} /\ Released(w)
  BY PaymentsAssumption DEF End, Released, PaymentsAssumption
<1>2. ASSUME NEW j, NEW e, Repeat(w, j, e), todo[w] = {}
      PROVE  pc'[w] \in {"idle", "order"} /\ todo'[w] = {} /\ Released(w)
  <2>1. CASE End(w)
    BY <1>1, <2>1
  <2>2. CASE ~End(w)
    <3>1. /\ pc' = [pc EXCEPT ![w] = "order"]
          /\ holder' = [o \in Order |-> IF holder[o] = w THEN None ELSE holder[o]]
          /\ rowlock' = [d \in Doc |-> IF rowlock[d] = w THEN None ELSE rowlock[d]]
          /\ UNCHANGED todo
      BY <1>2, <2>2, Zenon DEF Repeat
    <3> QED BY <1>2, <3>1, PaymentsAssumption DEF Released, PaymentsAssumption
  <2> QED BY <2>1, <2>2
<1>3. CASE Begin(w)
  <2>1. pc[w] = "idle" /\ todo[w] = {} /\ \A o \in Order : holder[o] # w
    BY <1>3, BeginPlace DEF NoLocksYet
  <2>2. \A d \in Doc : rowlock[d] # w
    BY <2>1 DEF NoLocksYet
  <2>3. ASSUME NEW j, Start(w, j) PROVE pc'[w] = "order" /\ todo'[w] = {} /\ Released(w)
    BY <2>1, <2>2, <2>3 DEF Start, Released
  <2>4. ASSUME NEW r \in Ref, NEW d \in Doc, NEW out \in Outcome, NEW a \in Amount, Pay(w, r, d, out, a)
        PROVE  pc'[w] \in {"idle", "order"} /\ todo'[w] = {} /\ Released(w)
    BY <1>2, <2>1, <2>3, <2>4 DEF Pay
  <2> QED BY <1>3, <2>3, <2>4 DEF Begin, Withdraw, CancelOrder, Request, Edit
<1>4. CASE InsertLost(w)
  <2>1. todo[w] = {}
    BY <1>4 DEF InsertLost, HasRows, NoLocksYet
  <2> QED BY <1>1, <1>2, <1>4, <2>1 DEF InsertLost
<1>5. CASE (InsertCaptured(w) \/ Reread(w)) /\ Scan(w) /\ Goes(w, "rows") /\ pc[w] \in {"insert", "reread"}
  <2>1. job[w].op \in {"pay", "resolve"}
    BY <1>5 DEF JobsMakeSense, JobMakesSense
  <2>2. CASE InsertCaptured(w)
    BY <1>5, <2>1, <2>2 DEF InsertCaptured, JobsMakeSense, JobMakesSense, Allocates, Pays
  <2>3. CASE Reread(w)
    <3>1. job[w].out = "captured"
      <4>1. pc'[w] = "rows"
        BY <1>5 DEF Goes
      <4>2. ~End(w)
        BY <1>1, <4>1
      <4> QED BY <2>3, <4>2 DEF Reread
    <3> QED BY <1>5, <2>1, <3>1 DEF Allocates, Pays
  <2> QED BY <1>5, <2>2, <2>3
<1>6. CASE \/ PreferNamed(w) /\ Goes(w, "read")
           \/ ReadPaid(w) /\ Goes(w, "allot")
           \/ AllotNext(w) /\ Goes(w, "allot")
           \/ ReadNet(w) /\ Goes(w, "write")
  BY <1>6 DEF PreferNamed, HasRows, ReadPaid, AllotNext, ReadNet, locals, Goes
<1>7. CASE Advance(w) \/ Fail(w)
  <2>1. \/ End(w) \/ InsertLost(w) \/ LockOrder(w) \/ (\E d \in Doc : LockRow(w, d)) \/ PreferHead(w)
        \/ (InsertCaptured(w) \/ Reread(w)) /\ Scan(w) /\ Goes(w, "rows") /\ pc[w] \in {"insert", "reread"}
        \/ PreferNamed(w) /\ Goes(w, "read")
        \/ ReadPaid(w) /\ Goes(w, "allot")
        \/ AllotNext(w) /\ Goes(w, "allot")
        \/ ReadNet(w) /\ Goes(w, "write")
    <3> HIDE DEF Typed, LocalShape
    <3> QED BY <1>7, AdvancePlace
  <2> QED BY <1>1, <1>4, <1>5, <1>6, <2>1, Zenon
<1> QED BY <1>3, <1>7 DEF Step

LEMMA NoLocksStep ==
  ASSUME Typed, NoLocksYet, NEW w \in Worker, Step(w)
  PROVE  NoLocksYet'
<1> USE DEF Typed, LocalShape
<1>1. ASSUME NEW v \in Worker \ {w}
      PROVE  /\ pc'[v] \in {"idle", "order"} => \A o \in Order : holder'[o] # v
             /\ pc'[v] \in {"idle", "order", "insert", "reread"} =>
                   todo'[v] = {} /\ \A d \in Doc : rowlock'[d] # v
  <2>1. pc'[v] = pc[v] /\ todo'[v] = todo[v]
    BY StepFrame DEF LocalFrame, Apart
  <2>2. v # w /\ v # None
    BY PaymentsAssumption DEF PaymentsAssumption
  <2> HIDE DEF Typed, LocalShape
  <2> QED BY <2>1, <2>2, LocksOfOthers DEF NoLocksYet
<1>2. /\ pc'[w] \in {"idle", "order"} => \A o \in Order : holder'[o] # w
      /\ pc'[w] \in {"idle", "order", "insert", "reread"} =>
            todo'[w] = {} /\ \A d \in Doc : rowlock'[d] # w
  <2>1. CASE LockOrder(w)
    <3>1. pc'[w] \in {"insert", "reread", "rows"} /\ rowlock' = rowlock /\ pc[w] = "order"
      BY <2>1 DEF LockOrder
    <3>2. pc'[w] # "rows" => todo'[w] = {}
      BY <2>1 DEF LockOrder
    <3> QED BY <3>1, <3>2 DEF NoLocksYet
  <2>2. ASSUME NEW d \in Doc, LockRow(w, d) PROVE pc'[w] = "rows"
    BY <2>2 DEF LockRow
  <2>3. PreferHead(w) => pc'[w] \in {"rows", "read"}
    BY DEF PreferHead, HasRows
  <2> QED BY <2>1, <2>2, <2>3, LockMoves DEF Released, Goes
<1> QED BY <1>1, <1>2 DEF NoLocksYet

LEMMA AscendingStep ==
  ASSUME Typed, NoLocksYet, Ascending, NEW w \in Worker, Step(w)
  PROVE  Ascending'
<1> USE DEF Typed, LocalShape
<1>1. ASSUME NEW v \in Worker \ {w}, NEW c \in Doc, NEW d \in Doc, pc'[v] = "rows",
             job'[v].op \notin {"request", "edit"}, rowlock'[d] = v, c \in todo'[v]
      PROVE  d < c
  <2>1. pc'[v] = pc[v] /\ todo'[v] = todo[v] /\ job'[v] = job[v]
    BY StepFrame DEF LocalFrame, Apart
  <2>2. v # w /\ v # None
    BY PaymentsAssumption DEF PaymentsAssumption
  <2>3. rowlock[d] = v
    BY <1>1, <2>2, LocksOfOthers
  <2> QED BY <1>1, <2>1, <2>3 DEF Ascending
<1>2. ASSUME NEW c \in Doc, NEW d \in Doc, pc'[w] = "rows",
             job'[w].op \notin {"request", "edit"}, rowlock'[d] = w, c \in todo'[w]
      PROVE  d < c
  <2>1. CASE LockOrder(w) \/ (Scan(w) /\ pc[w] \in {"insert", "reread"})
    <3>1. rowlock' = rowlock /\ pc[w] \in {"order", "insert", "reread"}
      BY <2>1 DEF LockOrder, Scan
    <3> QED BY <1>2, <3>1 DEF NoLocksYet
  <2>2. ASSUME NEW e \in Doc, LockRow(w, e) PROVE d < c
    <3>1. /\ pc[w] = "rows" /\ e \in NextRows(w) /\ job' = job
          /\ rowlock' = [rowlock EXCEPT ![e] = w] /\ todo'[w] = todo[w] \ {e}
      BY <2>2 DEF LockRow
    <3>2. e \in todo[w] /\ \A x \in todo[w] : e <= x
      BY <1>2, <3>1 DEF NextRows
    <3>3. c \in todo[w] /\ c # e
      BY <1>2, <3>1
    <3>4. CASE d = e
      BY <3>2, <3>3, <3>4, PaymentsAssumption DEF PaymentsAssumption
    <3>5. CASE d # e
      BY <1>2, <3>1, <3>3, <3>5 DEF Ascending
    <3> QED BY <3>4, <3>5
  <2>3. ~PreferHead(w)
    BY <1>2 DEF PreferHead, HasRows
  <2> QED BY <1>2, <2>1, <2>2, <2>3, LockMoves
<1> QED BY <1>1, <1>2 DEF Ascending

LEMMA OrdersKept ==
  ASSUME BaseInv, NEW w \in Worker, Step(w), NEW d \in Doc, NEW o \in Order, doc[d].order = o
  PROVE  doc'[d].order = o /\ Exists(d)
<1>1. Exists(d)
  BY PaymentsAssumption DEF BaseInv, Typed, RowsMakeSense, PaymentsAssumption
<1> QED BY <1>1, RowsKept

LEMMA OwnRowsStep ==
  ASSUME BaseInv, NoLocksYet, OwnRows, NEW w \in Worker, Step(w)
  PROVE  OwnRows'
<1> USE DEF BaseInv, Typed, LocalShape
<1> DEFINE Own(v) ==
      pc[v] # "idle" =>
        /\ job[v].op = "withdraw" => doc[job[v].doc].order = job[v].order
        /\ \A d \in Doc : rowlock[d] = v \/ d \in todo[v] =>
              /\ ~Allocates(v) => doc[d].order = job[v].order
              /\ job[v].op = "withdraw" => d = job[v].doc
<1>0. \A v \in Worker : Own(v)
  BY DEF OwnRows
<1>1. ASSUME NEW v \in Worker, pc'[v] # "idle", pc[v] # "idle", job'[v] = job[v],
             \A d \in Doc : rowlock'[d] = v \/ d \in todo'[v] => rowlock[d] = v \/ d \in todo[v]
      PROVE  Own(v)'
  <2>1. job[v].order \in Order
    BY <1>1 DEF JobsMakeSense, JobMakesSense, Job
  <2>2. job[v].op = "withdraw" => job[v].doc \in Doc
    BY <1>1 DEF JobsMakeSense, JobMakesSense
  <2>3. Own(v)
    BY <1>0
  <2>4. \A d \in Doc : doc[d].order = job[v].order => doc'[d].order = job[v].order
    BY <2>1, OrdersKept
  <2> QED BY <1>1, <2>2, <2>3, <2>4 DEF Allocates
<1>2. ASSUME NEW v \in Worker \ {w} PROVE Own(v)'
  <2>1. pc'[v] = pc[v] /\ todo'[v] = todo[v] /\ job'[v] = job[v]
    BY StepFrame DEF LocalFrame, Apart
  <2>2. v # w /\ v # None
    BY PaymentsAssumption DEF PaymentsAssumption
  <2>3. \A d \in Doc : rowlock'[d] = v => rowlock[d] = v
    BY <2>2, LocksOfOthers
  <2>4. CASE pc[v] # "idle"
    BY <1>1, <2>1, <2>3, <2>4
  <2>5. CASE pc[v] = "idle"
    BY <2>1, <2>5
  <2> QED BY <2>4, <2>5
<1>3. Own(w)'
  <2>1. CASE pc'[w] = "order" /\ todo'[w] = {} /\ Released(w)
    <3>1. job'[w].op = "withdraw" => doc'[job'[w].doc].order = job'[w].order
      <4>1. CASE Begin(w)
        <5>1. ASSUME NEW r \in Ref, NEW d \in Doc, NEW out \in Outcome, NEW a \in Amount, Pay(w, r, d, out, a)
              PROVE  job'[w].op # "withdraw"
          <6> DEFINE j == PayJob(r, d, out, a)
          <6>1. j.op = "pay" /\ [j EXCEPT !.op = "resolve"].op # "withdraw"
            BY DEF PayJob
          <6>2. Start(w, j) \/ Repeat(w, j, attempt[r])
            BY <5>1 DEF Pay, PayJob
          <6> HIDE DEF j
          <6>3. CASE Start(w, j)
            BY <6>1, <6>3 DEF Start
          <6>4. CASE ~Start(w, j)
            <7>1. ~End(w)
              BY <2>1, Ended
            <7>2. job' = [job EXCEPT ![w] = [j EXCEPT !.op = "resolve"]]
              BY <6>2, <6>4, <7>1, Zenon DEF Repeat
            <7> QED BY <6>1, <7>2
          <6> QED BY <6>3, <6>4
        <5>2. ASSUME NEW d \in Doc, Withdraw(w, d) PROVE doc'[job'[w].doc].order = job'[w].order
          BY <5>2 DEF Withdraw, Start, Plain, data
        <5>3. ASSUME NEW o \in Order, CancelOrder(w, o) \/ Request(w, o) PROVE job'[w].op # "withdraw"
          BY <5>3 DEF CancelOrder, Request, Start, Plain
        <5>4. ASSUME NEW o \in Order, NEW a \in Amount \cup {0}, Edit(w, o, a) PROVE job'[w].op # "withdraw"
          BY <5>4 DEF Edit, Start, Plain
        <5> QED BY <4>1, <5>1, <5>2, <5>3, <5>4 DEF Begin
      <4>2. CASE InsertLost(w)
        <5>1. ~End(w) /\ job[w] \in Job
          BY <2>1, <4>2, Ended DEF InsertLost, HasRows, JobsMakeSense, JobMakesSense
        <5>2. job' = [job EXCEPT ![w] = [job[w] EXCEPT !.op = "resolve"]]
          BY <4>2, <5>1, Zenon DEF InsertLost, Repeat
        <5> QED BY <5>1, <5>2 DEF Job
      <4>3. CASE Advance(w) \/ Fail(w)
        BY <2>1, <4>2, <4>3, AdvancePlace, Ended DEF Goes
      <4> QED BY <4>1, <4>3 DEF Step
    <3> QED BY <2>1, <3>1 DEF Released
  <2>2. CASE LockOrder(w)
    <3>1. /\ pc[w] = "order" /\ job' = job /\ rowlock' = rowlock /\ doc' = doc /\ pc'[w] # "idle"
      BY <2>2 DEF LockOrder, data
    <3>2. job[w].op \in {"pay", "withdraw"} => job[w].doc \in Doc
      BY <3>1 DEF JobsMakeSense, JobMakesSense
    <3>3. job[w].op = "pay" => doc[job[w].doc].order = job[w].order
      BY <3>1 DEF JobsMakeSense, JobMakesSense, Pays
    <3>4. job[w].op = "withdraw" => doc[job[w].doc].order = job[w].order
      BY <1>0, <3>1
    <3>5. \A d \in Doc : rowlock'[d] # w
      BY <3>1 DEF NoLocksYet
    <3>6. todo'[w] = CASE job[w].op = "pay" /\ ~Allocates(w) -> {job[w].doc}
                       [] job[w].op = "withdraw" -> {job[w].doc}
                       [] job[w].op \in {"cancel", "request", "edit"} -> DocsOf(job[w].order)
                       [] OTHER -> {}
      BY <2>2 DEF LockOrder
    <3>7. ASSUME NEW d \in Doc, d \in todo'[w]
          PROVE  doc[d].order = job[w].order /\ (job[w].op = "withdraw" => d = job[w].doc)
      BY <3>2, <3>3, <3>4, <3>6, <3>7 DEF DocsOf
    <3> QED BY <3>1, <3>4, <3>5, <3>7 DEF Allocates
  <2>3. ASSUME NEW d \in Doc, LockRow(w, d) PROVE Own(w)'
    <3>1. /\ pc[w] = "rows" /\ pc'[w] = "rows" /\ job'[w] = job[w] /\ d \in todo[w]
          /\ rowlock' = [rowlock EXCEPT ![d] = w] /\ todo'[w] = todo[w] \ {d}
      BY <2>3 DEF LockRow, NextRows
    <3>2. \A e \in Doc : rowlock'[e] = w \/ e \in todo'[w] => rowlock[e] = w \/ e \in todo[w]
      BY <3>1
    <3> QED BY <1>1, <3>1, <3>2
  <2>4. ASSUME Allocates(w), pc[w] # "idle", job'[w] = job[w] PROVE Own(w)'
    BY <2>4 DEF Allocates
  <2>5. CASE Scan(w) /\ Goes(w, "rows") /\ Allocates(w) /\ pc[w] \in {"insert", "reread"}
    BY <2>4, <2>5 DEF Goes
  <2>6. CASE PreferHead(w)
    BY <2>4, <2>6 DEF PreferHead, HasRows
  <2>7. CASE pc'[w] # "idle" /\ pc[w] # "idle" /\ job'[w] = job[w] /\ rowlock' = rowlock /\ todo'[w] = todo[w]
    BY <1>1, <2>7
  <2>8. CASE pc'[w] = "idle"
    BY <2>8
  <2> HIDE DEF Own
  <2> QED BY <2>1, <2>2, <2>3, <2>5, <2>6, <2>7, <2>8, LockMoves
<1> QED BY <1>2, <1>3 DEF OwnRows

\* A document is superseded by a new version of its own order.
LEMMA SupersededStep ==
  ASSUME VersionInv, NEW w \in Worker, Step(w), NEW d \in Doc,
         doc'[d].status = "superseded", doc'[d] # doc[d]
  PROVE  doc'[d].next \in Doc /\ doc'[doc'[d].next].order = doc'[d].order
<1> USE DEF VersionInv, BaseInv, Typed, DataShape, LocalShape
<1>1. RowChanges(w, d) /\ doc[d] \in DocRow
  BY StepRows DEF Rows
<1>2. \A status \in {"issued", "cancelled", "paid"} : Restated(d, status) => doc'[d].status = status
  BY <1>1 DEF Restated, DocRow
<1>3. ~NewRow(d, job[w].order)
  <2>1. ASSUME NEW status \in Open, NEW a, NEW o,
               doc'[d] = [order |-> o, status |-> status, price |-> a, next |-> None]
        PROVE  FALSE
    <3>1. doc'[d].status = status
      BY <2>1
    <3> QED BY <3>1 DEF Open
  <2> QED BY <2>1 DEF NewRow
<1>4. seen[w][d] \in Open /\ Superseded(d)
  BY <1>1, <1>2, <1>3 DEF RowChanges
<1>5. CommitIssue(w)
  <2>1. doc' # doc
    OBVIOUS
  <2>2. ASSUME NEW e \in Doc, NEW status \in {"issued", "cancelled"}, doc' = [doc EXCEPT ![e].status = status]
        PROVE  FALSE
    <3>1. doc'[d] = doc[d] \/ doc'[d] = [doc[d] EXCEPT !.status = status]
      BY <2>2
    <3> QED BY <1>1, <3>1 DEF DocRow
  <2>3. ASSUME NEW D \in SUBSET Doc, NEW status \in {"paid", "cancelled"},
               doc' = [e \in Doc |-> IF e \in D THEN [doc[e] EXCEPT !.status = status] ELSE doc[e]]
        PROVE  FALSE
    <3>1. doc'[d] = doc[d] \/ doc'[d] = [doc[d] EXCEPT !.status = status]
      BY <2>3
    <3> QED BY <1>1, <3>1 DEF DocRow
  <2>4. ~InsertOther(w)
    BY <2>1, <2>2 DEF InsertOther, HasRows, JobsMakeSense, JobMakesSense
  <2>5. ~CommitWithdraw(w)
    BY <2>1, <2>2 DEF CommitWithdraw, JobsMakeSense, JobMakesSense
  <2>6. ~CommitCapture(w)
    <3>1. Covered(w) \in SUBSET Doc
      BY DEF Covered
    <3> QED BY <2>3, <3>1 DEF CommitCapture
  <2>7. ~CommitCancel(w)
    <3> DEFINE D == {e \in Doc : seen[w][e] \in Open \cup {"paid"} /\ doc[e].next = None}
    <3>1. D \in SUBSET Doc
      OBVIOUS
    <3>2. CommitCancel(w) => doc' = [e \in Doc |-> IF e \in D THEN [doc[e] EXCEPT !.status = "cancelled"] ELSE doc[e]]
      BY DEF CommitCancel
    <3> HIDE DEF D
    <3> QED BY <2>3, <3>1, <3>2
  <2>8. Reread(w) => doc' = doc
    BY DEF Reread
  <2> QED BY <2>1, <2>4, <2>5, <2>6, <2>7, <2>8, QuietSteps
<1> DEFINE j == job[w]
           wanted == IF j.op = "edit" THEN j.amount ELSE content[j.order]
           unpaid == Head(w) \cap OpenSeen(w)
           first == IF j.op = "request" THEN "issued" ELSE "pending"
           status == IF unpaid = {} THEN first ELSE seen[w][CHOOSE e \in unpaid : TRUE]
<1>6. \/ doc' = doc
      \/ doc' = [e \in Doc |-> IF e \in unpaid THEN [doc[e] EXCEPT !.status = "cancelled"] ELSE doc[e]]
      \/ NewVersion(j.order, unpaid, status, wanted)
  BY <1>5, Zenon DEF CommitIssue
<1>7. d \in Doc /\ Exists(d) /\ doc[d].order = j.order
  <2>1. pc[w] = "rows" /\ j.op \in ByOrder
    BY <1>5 DEF CommitIssue, HasRows, ByOrder
  <2>2. seen[w][d] # "none"
    BY <1>4 DEF Open
  <2> QED BY <2>1, <2>2 DEF WholeOrder, SeenIsCurrent, Exists
<1> HIDE DEF status, wanted, unpaid
<1>8. NewVersion(j.order, unpaid, status, wanted)
  <2>1. doc' # doc
    OBVIOUS
  <2>2. ASSUME doc' = [e \in Doc |-> IF e \in unpaid THEN [doc[e] EXCEPT !.status = "cancelled"] ELSE doc[e]]
        PROVE  FALSE
    <3>1. doc'[d] = [doc[d] EXCEPT !.status = "cancelled"]
      BY <2>2
    <3> QED BY <1>1, <3>1 DEF DocRow
  <2> QED BY <1>6, <2>1, <2>2
<1>9. PICK n \in Unused :
        doc' = [e \in Doc |->
             IF e = n THEN [order |-> j.order, status |-> status, price |-> wanted, next |-> None]
             ELSE IF e \in unpaid THEN [doc[e] EXCEPT !.status = "superseded", !.next = n]
             ELSE doc[e]]
  BY <1>8 DEF NewVersion
<1>10. n \in Doc /\ d # n
  BY <1>7 DEF Unused
<1>11. doc'[d] = [doc[d] EXCEPT !.status = "superseded", !.next = n]
  BY <1>9, <1>10
<1>12. doc'[d].next = n /\ doc'[d].order = j.order
  BY <1>1, <1>7, <1>11 DEF DocRow
<1>13. doc'[n].order = j.order
  BY <1>9, <1>10
<1> QED BY <1>10, <1>12, <1>13

LEMMA SameOrderStep ==
  ASSUME VersionInv, PreferredExists, SameOrder, NEW w \in Worker, Step(w)
  PROVE  SameOrder'
<1> USE DEF VersionInv, BaseInv, Typed, LocalShape, DataShape
<1>1. ASSUME NEW d \in Doc, doc'[d].status = "superseded"
      PROVE  doc'[doc'[d].next].order = doc'[d].order
  <2>1. CASE doc'[d] # doc[d]
    BY <1>1, <2>1, SupersededStep
  <2>2. CASE doc'[d] = doc[d]
    <3>1. doc[d].status = "superseded" /\ doc[d].next \in Doc /\ doc[doc[d].next].order = doc[d].order
      BY <1>1, <2>2 DEF PreferredExists, SameOrder
    <3>2. doc[d].order \in Order
      BY <3>1 DEF RowsMakeSense, Exists
    <3>3. doc'[doc[d].next].order = doc[d].order
      BY <3>1, <3>2, OrdersKept
    <3> QED BY <2>2, <3>3
  <2> QED BY <2>1, <2>2
<1>2. ASSUME NEW v \in Worker, pc[v] = "rows", Allocates(v), job'[v] = job[v], pref'[v] = pref[v]
      PROVE  doc'[pref'[v]].order = job'[v].order
  <2>1. job[v].order \in Order /\ pref[v] \in Doc /\ doc[pref[v]].order = job[v].order
    BY <1>2 DEF JobsMakeSense, JobMakesSense, Job, PreferredExists, SameOrder
  <2> QED BY <1>2, <2>1, OrdersKept
<1>3. ASSUME NEW v \in Worker, pc'[v] = "rows", Allocates(v)'
      PROVE  doc'[pref'[v]].order = job'[v].order
  <2>1. CASE v # w
    <3>1. pc'[v] = pc[v] /\ job'[v] = job[v]
      BY <2>1, StepFrame DEF LocalFrame, Apart
    <3>2. pref'[v] = pref[v]
      BY <2>1, PrefMoves DEF PreferredExists
    <3> QED BY <1>2, <1>3, <3>1, <3>2 DEF Allocates
  <2>2. CASE v = w
    <3>1. CASE LockOrder(w)
      <4>1. job' = job /\ pc' = [pc EXCEPT ![w] = CASE job[w].op = "pay" /\ Allocates(w) -> "insert"
                                    [] job[w].op = "resolve" -> "reread"
                                    [] OTHER -> "rows"]
        BY <3>1 DEF LockOrder
      <4> QED BY <1>3, <2>2, <4>1 DEF Allocates
    <3>2. CASE pref' = pref /\ pc[w] = "rows" /\ job'[w] = job[w]
      BY <1>2, <1>3, <2>2, <3>2 DEF Allocates
    <3>3. CASE pref' = [pref EXCEPT ![w] = job[w].doc] /\ Pays(w) /\ Goes(w, "rows")
      <4>1. job[w].doc \in Doc /\ doc[job[w].doc].order = job[w].order
        BY <3>3 DEF JobsMakeSense, JobMakesSense, Pays
      <4>2. doc' = doc /\ job'[w] = job[w] /\ pref'[w] = job[w].doc
        BY <3>3 DEF Goes, PreferredExists
      <4> QED BY <2>2, <4>1, <4>2
    <3>4. CASE /\ pref' = [pref EXCEPT ![w] = doc[pref[w]].next] /\ PreferHead(w) /\ doc' = doc
               /\ doc[pref[w]].status = "superseded"
      <4>1. pref[w] \in Doc /\ job' = job /\ doc[pref[w]].order = job[w].order
        BY <3>4 DEF PreferHead, HasRows, PreferredExists, SameOrder
      <4>2. doc[doc[pref[w]].next].order = doc[pref[w]].order
        BY <3>4, <4>1 DEF SameOrder
      <4>3. pref'[w] = doc[pref[w]].next
        BY <3>4 DEF PreferredExists
      <4> QED BY <2>2, <3>4, <4>1, <4>2, <4>3
    <3> QED BY <1>3, <2>2, <3>1, <3>2, <3>3, <3>4, PrefMoves
  <2> QED BY <2>1, <2>2
<1> QED BY <1>1, <1>3 DEF SameOrder

LEMMA LockAlways == Spec => []LockInv
<1>1. Init => LockInv
  <2> SUFFICES ASSUME Init PROVE LockInv
    OBVIOUS
  <2>1. \A d \in Doc : doc[d].status # "superseded"
    <3>1. PICK owner \in [1..Cardinality(Order) -> Order], price \in [Order -> Amount] :
          doc = [d \in Doc |->
              IF d \in 1..Cardinality(Order)
              THEN [order |-> owner[d], status |-> "pending", price |-> price[owner[d]], next |-> None]
              ELSE [order |-> None, status |-> "none", price |-> 0, next |-> None]]
      BY Zenon DEF Init
    <3> QED BY <3>1
  <2> QED BY <2>1, PaymentsAssumption DEF PaymentsAssumption, Init, LockInv, NoLocksYet, Ascending, OwnRows, SameOrder
<1>2. VersionInv /\ TypeInv /\ LockInv /\ [Next]_vars => LockInv'
  <2> SUFFICES ASSUME VersionInv, TypeInv, LockInv, [Next]_vars PROVE LockInv'
    OBVIOUS
  <2>1. BaseInv /\ Typed /\ PreferredExists
    BY DEF VersionInv, BaseInv, TypeInv
  <2>2. ASSUME NEW w \in Worker, Step(w) PROVE LockInv'
    BY <2>1, <2>2, NoLocksStep, AscendingStep, OwnRowsStep, SameOrderStep DEF LockInv
  <2>3. CASE UNCHANGED vars
    <3>1. UNCHANGED <<doc, holder, rowlock, pc, job, todo, pref>>
      BY <2>3 DEF vars, data, locals
    <3>2. NoLocksYet' /\ Ascending'
      BY <3>1 DEF LockInv, NoLocksYet, Ascending
    <3>3. OwnRows' /\ SameOrder'
      BY <3>1 DEF LockInv, OwnRows, SameOrder, Allocates
    <3> QED BY <3>2, <3>3 DEF LockInv
  <2> QED BY <2>2, <2>3 DEF Next, Step
<1> QED BY <1>1, <1>2, VersionAlways, TypeAlways, PTL DEF Spec

-----------------------------------------------------------------------------
(* Circles of waits *)

Blockers(w) == LockBlockers(w) \cup InsertBlockers(w)
SameLock == VersionInv /\ PreferredExists /\ LockInv

\* In a circle everyone is waited for.
LEMMA WaitedFor ==
  ASSUME NEW S \in SUBSET Worker, Circle(S), NEW w \in S
  PROVE  \E v \in S : w \in Blockers(v)
<1> SUFFICES ASSUME \A v \in S : w \notin Blockers(v) PROVE FALSE
  OBVIOUS
<1> DEFINE R == S \ {w}
<1>1. \A v \in S : Blockers(v) \cap S # {}
  BY DEF Circle, Closed, Blockers
<1>2. \A v \in R : Blockers(v) \cap R # {}
  BY <1>1
<1>3. R # {}
  BY <1>1
<1>4. Closed(R)
  BY <1>2, <1>3 DEF Closed, Blockers
<1>5. R \in SUBSET S /\ R # S
  OBVIOUS
<1> QED BY <1>4, <1>5 DEF Circle

\* Nobody waits for a transaction that waits for its order.
LEMMA OrderWaitersHoldNothing ==
  ASSUME SameLock, NEW w \in Worker, pc[w] = "order", NEW v \in Worker, pc[v] # "idle"
  PROVE  w \notin Blockers(v)
<1> USE DEF SameLock, VersionInv, BaseInv, Typed, LocalShape
<1>1. (\A o \in Order : holder[o] # w) /\ (\A d \in Doc : rowlock[d] # w)
  BY DEF LockInv, NoLocksYet
<1>2. ~Inserting(w)
  BY DEF Inserting
<1>3. job[v].order \in Order
  BY DEF JobsMakeSense, JobMakesSense, Job
<1>4. NextRows(v) \subseteq Doc
  BY DEF NextRows
<1>5. HasRows(v) /\ Allocates(v) => pref[v] \in Doc
  BY DEF HasRows, PreferredExists
<1>6. w \notin LockBlockers(v)
  BY <1>1, <1>3, <1>4, <1>5 DEF LockBlockers
<1>7. w \notin InsertBlockers(v)
  BY <1>2 DEF InsertBlockers
<1> QED BY <1>6, <1>7 DEF Blockers

\* So in a circle everyone waits for a document, or for an insert.
LEMMA CircleOfRows ==
  ASSUME SameLock, NEW S \in SUBSET Worker, Circle(S), NEW w \in S
  PROVE  /\ pc[w] \notin {"idle", "order"}
         /\ Blockers(w) \cap S # {}
         /\ \/ pc[w] = "rows" /\ todo[w] # {} /\ \E d \in NextRows(w) : d \in Doc /\ rowlock[d] \in S \ {w}
            \/ HasRows(w) /\ Allocates(w) /\ pref[w] \in Doc /\ rowlock[pref[w]] \in S \ {w}
            \/ InsertBlockers(w) \cap S # {}
<1> USE DEF SameLock, VersionInv, BaseInv, Typed, LocalShape
<1>1. \A v \in S : Blockers(v) \cap S # {}
  BY DEF Circle, Closed, Blockers
<1>2. \A v \in S : pc[v] # "idle"
  <2>1. ASSUME NEW v \in S, pc[v] = "idle" PROVE Blockers(v) = {}
    BY <2>1 DEF Blockers, LockBlockers, InsertBlockers, HasRows
  <2> QED BY <1>1, <2>1
<1>3. pc[w] # "order"
  <2>1. PICK v \in S : w \in Blockers(v)
    BY WaitedFor
  <2> QED BY <1>2, <2>1, OrderWaitersHoldNothing
<1>4. CASE InsertBlockers(w) \cap S # {}
  BY <1>1, <1>2, <1>3, <1>4
<1>5. CASE InsertBlockers(w) \cap S = {}
  <2>1. PICK v \in S : v \in LockBlockers(w)
    BY <1>1, <1>5 DEF Blockers
  <2>2. CASE pc[w] = "rows" /\ todo[w] # {}
    <3>0. LockBlockers(w) = {rowlock[d] : d \in NextRows(w)} \ {None, w}
      BY <2>2 DEF LockBlockers, HasRows
    <3>1. PICK d \in NextRows(w) : v = rowlock[d] /\ v # w
      BY <2>1, <3>0
    <3>2. d \in Doc
      BY DEF NextRows
    <3> QED BY <1>1, <1>2, <1>3, <2>2, <3>1, <3>2
  <2>3. CASE HasRows(w) /\ Allocates(w)
    <3>1. v = rowlock[pref[w]] /\ v # w
      BY <2>1, <2>3 DEF LockBlockers, HasRows
    <3>2. pref[w] \in Doc
      BY <2>3 DEF HasRows, PreferredExists
    <3> QED BY <1>1, <1>2, <1>3, <2>3, <3>1, <3>2
  <2> QED BY <1>3, <2>1, <2>2, <2>3 DEF LockBlockers
<1> QED BY <1>4, <1>5

\* A finite set of numbers has a greatest one.
LEMMA Greatest ==
  ASSUME NEW N, IsFiniteSet(N), N # {}, N \subseteq Nat
  PROVE  \E m \in N : \A n \in N : n <= m
<1> DEFINE Above(n) == {x \in N : n <= x}
           B == {Above(n) : n \in N}
<1>1. IsFiniteSet(N) /\ B \in SUBSET (SUBSET N) /\ B # {}
  OBVIOUS
<1>2. PICK s \in B : \A t \in B : t \subseteq s => t = s
  <2> HIDE DEF B
  <2> QED BY ONLY <1>1, SmallestSubset
<1>3. PICK m \in N : s = Above(m)
  OBVIOUS
<1>4. ASSUME NEW n \in N, ~(n <= m) PROVE FALSE
  <2>1. n \in Nat /\ m \in Nat /\ m < n
    BY <1>4
  <2>2. Above(n) \subseteq Above(m)
    <3> SUFFICES ASSUME NEW x \in N, n <= x PROVE m <= x
      OBVIOUS
    <3> QED BY <2>1
  <2>3. Above(n) = Above(m)
    BY <1>2, <1>3, <2>2
  <2>4. m \in Above(m) /\ m \notin Above(n)
    BY <2>1
  <2> QED BY <2>3, <2>4
<1> QED BY <1>4

\* Locking in ascending order closes no circle.
LEMMA CircleHasCause ==
  ASSUME SameLock, NEW S \in SUBSET Worker, Circle(S)
  PROVE  \E w \in S : OutOfTurn(w) \/ InsertBlockers(w) \cap S # {}
<1> USE DEF SameLock, VersionInv, BaseInv, Typed, LocalShape
<1> SUFFICES ASSUME \A w \in S : ~OutOfTurn(w) /\ InsertBlockers(w) \cap S = {}
             PROVE  FALSE
  OBVIOUS
<1> DEFINE Awaits(w, d) == /\ pc[w] = "rows" /\ d \in Doc /\ d \in todo[w] /\ \A c \in todo[w] : d <= c
                           /\ rowlock[d] \in S \ {w}
           N == {d \in Doc : \E w \in S : Awaits(w, d)}
<1>1. \A w \in S : \E d \in Doc : Awaits(w, d)
  <2> SUFFICES ASSUME NEW w \in S PROVE \E d \in Doc : Awaits(w, d)
    OBVIOUS
  <2>1. pc[w] = "rows" /\ todo[w] # {} /\ \E d \in NextRows(w) : d \in Doc /\ rowlock[d] \in S \ {w}
    BY CircleOfRows DEF OutOfTurn
  <2>2. job[w].op \notin {"request", "edit"}
    BY <2>1 DEF OutOfTurn
  <2> QED BY <2>1, <2>2 DEF NextRows
<1>2. IsFiniteSet(N) /\ N \subseteq Nat /\ N # {}
  <2>1. N \subseteq Doc
    OBVIOUS
  <2>2. S # {}
    BY DEF Circle, Closed
  <2> QED BY <1>1, <2>1, <2>2, FS_Subset, PaymentsAssumption DEF PaymentsAssumption
<1>3. PICK m \in N : \A n \in N : n <= m
  <2> HIDE DEF N
  <2> QED BY <1>2, Greatest
<1>4. PICK w \in S : Awaits(w, m)
  OBVIOUS
<1> DEFINE v == rowlock[m]
<1>5. v \in S
  BY <1>4
<1>6. PICK n \in Doc : Awaits(v, n)
  BY <1>1, <1>5
<1>7. m < n
  BY <1>5, <1>6, <1>3 DEF LockInv, Ascending, OutOfTurn
<1>8. n \in N /\ n \in Nat /\ m \in Nat
  BY <1>2, <1>5, <1>6
<1> QED BY <1>3, <1>7, <1>8

\* A withdrawal, with its one document, is in no circle.
LEMMA WithdrawalsGoOn ==
  ASSUME SameLock, NEW S \in SUBSET Worker, Circle(S), NEW w \in S
  PROVE  job[w].op # "withdraw"
<1> USE DEF SameLock, VersionInv, BaseInv, Typed, LocalShape
<1> SUFFICES ASSUME job[w].op = "withdraw" PROVE FALSE
  OBVIOUS
<1>1. ~Allocates(w) /\ InsertBlockers(w) = {} /\ ~Inserting(w)
  BY DEF Allocates, InsertBlockers, HasRows, Inserting, JobsMakeSense, JobMakesSense
<1>2. pc[w] = "rows" /\ todo[w] # {}
  BY <1>1, CircleOfRows
<1>3. ASSUME NEW d \in Doc, rowlock[d] = w PROVE FALSE
  <2>1. PICK c \in todo[w] : c \in Doc
    BY <1>2
  <2>2. d = job[w].doc /\ c = job[w].doc
    BY <1>2, <1>3, <2>1 DEF LockInv, OwnRows
  <2>3. d < c
    BY <1>2, <1>3, <2>1 DEF LockInv, Ascending
  <2> QED BY <2>2, <2>3, PaymentsAssumption DEF PaymentsAssumption
<1>4. PICK v \in S : w \in Blockers(v)
  BY WaitedFor
<1>5. w \in LockBlockers(v)
  BY <1>1, <1>4 DEF Blockers, InsertBlockers
<1>6. pc[v] \notin {"idle", "order"}
  BY CircleOfRows
<1>7. NextRows(v) \subseteq Doc /\ (HasRows(v) /\ Allocates(v) => pref[v] \in Doc)
  BY DEF NextRows, HasRows, PreferredExists
<1> QED BY <1>3, <1>5, <1>6, <1>7 DEF LockBlockers

\* A cancel is in no circle with one other transaction alone.
LEMMA CancelsSerialize ==
  ASSUME SameLock, NEW S \in SUBSET Worker, Circle(S), NEW w \in S, job[w].op = "cancel", NEW v \in S
  PROVE  S # {v, w}
<1> USE DEF SameLock, VersionInv, BaseInv, Typed, LocalShape
<1> SUFFICES ASSUME S = {v, w} PROVE FALSE
  OBVIOUS
<1>1. ~Allocates(w) /\ InsertBlockers(w) = {} /\ ~Inserting(w)
  BY DEF Allocates, InsertBlockers, HasRows, Inserting, JobsMakeSense, JobMakesSense
<1>2. PICK d \in Doc : pc[w] = "rows" /\ d \in todo[w] /\ rowlock[d] \in S \ {w}
  BY <1>1, CircleOfRows DEF NextRows
<1>3. rowlock[d] = v /\ v # w
  BY <1>2
<1>4. pc[v] \notin {"idle", "order"} /\ Blockers(v) \cap S # {}
  BY CircleOfRows
<1>5. w \in LockBlockers(v)
  BY <1>1, <1>3, <1>4 DEF Blockers, LockBlockers, InsertBlockers
<1>6. job[v].order # job[w].order
  BY <1>2, <1>3, <1>4 DEF HoldsOrder
<1>7. job[v].order \in Order /\ job[w].order \in Order
  BY <1>2, <1>4 DEF JobsMakeSense, JobMakesSense, Job
<1>8. doc[d].order = job[w].order
  BY <1>1, <1>2 DEF LockInv, OwnRows
<1>9. Allocates(v)
  BY <1>3, <1>4, <1>6, <1>8 DEF LockInv, OwnRows
<1>10. CASE HasRows(v)
  <2>1. pref[v] \in Doc /\ rowlock[pref[v]] = w
    BY <1>4, <1>5, <1>9, <1>10 DEF LockBlockers, HasRows, PreferredExists
  <2>2. doc[pref[v]].order = job[w].order
    BY <1>1, <1>2, <2>1 DEF LockInv, OwnRows
  <2>3. doc[pref[v]].order = job[v].order
    BY <1>9, <1>10 DEF LockInv, SameOrder, HasRows
  <2> QED BY <1>6, <2>2, <2>3
<1>11. CASE ~HasRows(v)
  <2>1. PICK c \in NextRows(v) : rowlock[c] = w /\ pc[v] = "rows"
    BY <1>4, <1>5, <1>11 DEF LockBlockers, HasRows
  <2>2. c \in todo[v] /\ c \in Doc
    BY DEF NextRows
  <2>3. d < c
    BY <1>3, <1>9, <2>1, <2>2 DEF LockInv, Ascending, Allocates
  <2>4. c < d
    BY <1>2, <2>1, <2>2 DEF LockInv, Ascending
  <2> QED BY <2>2, <2>3, <2>4, PaymentsAssumption DEF PaymentsAssumption
<1> QED BY <1>10, <1>11

\* For any number of transactions, a deadlock needs one that locks out of creation order or
\* waits for an insert; a withdrawal is in none, a cancel in none with one other alone.
THEOREM DeadlocksHaveCauses == Spec => []DeadlockNeedsDisorder
<1>1. SameLock => DeadlockNeedsDisorder
  BY CircleHasCause, WithdrawalsGoOn, CancelsSerialize DEF DeadlockNeedsDisorder
<1>2. VersionInv /\ TypeInv /\ LockInv => SameLock
  BY DEF SameLock, TypeInv
<1> QED BY <1>1, <1>2, VersionAlways, TypeAlways, LockAlways, PTL

=============================================================================
