------------------------------- MODULE Checks -------------------------------
(***************************************************************************)
(* Stored check results and the policies they were computed under          *)
(* (packages/plugins/checks).  A run evaluates one subject under the       *)
(* subject's lock with its policy rows share-locked; a policy edit writes  *)
(* a durable stale request in its own transaction; drains claim the        *)
(* request by lease and flag the results, subject by subject.  One check   *)
(* code at one stage: a global policy row and one branch's override.       *)
(***************************************************************************)
EXTENDS Naturals, FiniteSets

CONSTANTS
    Subject,        \* subject ids, ordered as the keyset orders them
    Branch,         \* the subjects of the branch an override row may exist for
    Runner,         \* concurrent runChecks calls
    Drainer,        \* concurrent drains (scheduled task, post-commit)
    PageSize,       \* subjects per keyset page
    OverrideRow,    \* the override row exists at the start
    NewOverride,    \* may the staff create the override row?
    MaxEdits,       \* bound of the policy edits
    MaxFaults,      \* bound of the crashes and failing handlers
    MaxOverruns,    \* bound of the leases that end under a working drain
    None            \* no row, nobody

ASSUME ChecksAssumption ==
    /\ Subject \subseteq Nat \ {0} /\ IsFiniteSet(Subject)
    /\ Branch \subseteq Subject
    /\ PageSize \in Nat \ {0}
    /\ OverrideRow \in BOOLEAN /\ NewOverride \in BOOLEAN
    /\ MaxEdits \in Nat /\ MaxFaults \in Nat /\ MaxOverruns \in Nat
    /\ None \notin Nat /\ None \notin Runner /\ None \notin Drainer

VARIABLES
    global, override,   \* the policy rows: which edit wrote them
    edits,
    result,     \* per subject, the policy its stored findings come from
    stale,      \* ... and are they flagged out of date?
    lock,       \* the subject's advisory lock
    phase,      \* where a run is: idle, locked, global, ready
    about,      \* the subject it is about
    saw,        \* the policy it evaluates with
    shares,     \* the policy rows it holds a share lock on
    request,    \* the check_stale_request row of this check code
    step,       \* where a drain is: idle, scan, mark
    claim,      \* the request row as it claimed it
    last, page, full,   \* the keyset cursor, the rest of its page, was it full
    faults, overruns

policyVars == <<global, override, edits>>
resultVars == <<result, stale>>
runVars == <<lock, phase, about, saw, shares>>
drainVars == <<step, claim, last, page, full>>
faultVars == <<faults, overruns>>
vars == <<policyVars, resultVars, runVars, request, drainVars, faultVars>>

TypeOK ==
    /\ global \in Nat /\ override \in Nat \cup {None} /\ edits \in Nat
    /\ result \in [Subject -> Nat \cup {None}] /\ stale \in [Subject -> BOOLEAN]
    /\ lock \in [Subject -> Runner \cup {None}]
    /\ phase \in [Runner -> {"idle", "locked", "global", "ready"}]
    /\ about \in [Runner -> Subject \cup {None}]
    /\ saw \in [Runner -> Nat \cup {None}]
    /\ \A r \in Runner : phase[r] = "ready" => saw[r] \in Nat
    /\ shares \in [Runner -> SUBSET {"global", "override"}]
    /\ request \in [there : BOOLEAN, id : Nat, version : Nat,
                    token : Drainer \cup {None}, leased : BOOLEAN]
    /\ step \in [Drainer -> {"idle", "scan", "mark"}]
    /\ claim \in [Drainer -> [id : Nat, version : Nat]]
    /\ last \in [Drainer -> Nat] /\ page \in [Drainer -> SUBSET Subject]
    /\ full \in [Drainer -> BOOLEAN]
    /\ faults \in Nat /\ overruns \in Nat

Init ==
    /\ global = 0 /\ override = (IF OverrideRow THEN 0 ELSE None) /\ edits = 0
    /\ result = [s \in Subject |-> None] /\ stale = [s \in Subject |-> FALSE]
    /\ lock = [s \in Subject |-> None]
    /\ phase = [r \in Runner |-> "idle"]
    /\ about = [r \in Runner |-> None]
    /\ saw = [r \in Runner |-> None]
    /\ shares = [r \in Runner |-> {}]
    /\ request = [there |-> FALSE, id |-> 0, version |-> 0, token |-> None, leased |-> FALSE]
    /\ step = [d \in Drainer |-> "idle"]
    /\ claim = [d \in Drainer |-> [id |-> 0, version |-> 0]]
    /\ last = [d \in Drainer |-> 0] /\ page = [d \in Drainer |-> {}]
    /\ full = [d \in Drainer |-> FALSE]
    /\ faults = 0 /\ overruns = 0

\* The policy that applies to a subject: its branch's override, else the global row.
Effective(s) == IF s \in Branch /\ override # None THEN override ELSE global

-----------------------------------------------------------------------------
(* A run *)

RunBegin(r, s) ==
    /\ phase[r] = "idle" /\ lock[s] = None
    /\ lock' = [lock EXCEPT ![s] = r]
    /\ phase' = [phase EXCEPT ![r] = "locked"]
    /\ about' = [about EXCEPT ![r] = s]
    /\ UNCHANGED <<policyVars, resultVars, saw, shares, request, drainVars, faultVars>>

\* The global row is read with FOR SHARE, then the branch's rows, in two statements.
ReadGlobal(r) ==
    /\ phase[r] = "locked"
    /\ phase' = [phase EXCEPT ![r] = "global"]
    /\ saw' = [saw EXCEPT ![r] = global]
    /\ shares' = [shares EXCEPT ![r] = {"global"}]
    /\ UNCHANGED <<policyVars, resultVars, lock, about, request, drainVars, faultVars>>

OverrideUnchecked(r) == about[r] \in Branch
OverrideFound(r) == about[r] \in Branch /\ override # None

ReadOverride(r) ==
    /\ phase[r] = "global"
    /\ phase' = [phase EXCEPT ![r] = "ready"]
    /\ IF OverrideFound(r)
          THEN /\ saw' = [saw EXCEPT ![r] = override]
               /\ shares' = [shares EXCEPT ![r] = @ \cup {"override"}]
          ELSE UNCHANGED <<saw, shares>>
    /\ UNCHANGED <<policyVars, resultVars, lock, about, request, drainVars, faultVars>>

RunEnds(r) ==
    /\ lock' = [lock EXCEPT ![about[r]] = None]
    /\ phase' = [phase EXCEPT ![r] = "idle"]
    /\ about' = [about EXCEPT ![r] = None]
    /\ saw' = [saw EXCEPT ![r] = None]
    /\ shares' = [shares EXCEPT ![r] = {}]

\* The providers found something, or nothing (the policy may be disabled): the subject's
\* results are replaced.
RunCommit(r, found) ==
    /\ phase[r] = "ready"
    /\ result' = [result EXCEPT ![about[r]] = IF found THEN saw[r] ELSE None]
    /\ stale' = [stale EXCEPT ![about[r]] = FALSE]
    /\ RunEnds(r)
    /\ UNCHANGED <<policyVars, request, drainVars, faultVars>>

\* A provider threw or the process died: the stored results stay.
RunRollback(r) ==
    /\ phase[r] # "idle"
    /\ RunEnds(r)
    /\ UNCHANGED <<policyVars, resultVars, request, drainVars, faultVars>>

\* A data event flags one subject's results under its lock.
FlagResults(s) == stale' = [stale EXCEPT ![s] = result[s] # None]

MarkStale(s) ==
    /\ lock[s] = None
    /\ FlagResults(s)
    /\ UNCHANGED <<policyVars, result, runVars, request, drainVars, faultVars>>

-----------------------------------------------------------------------------
(* A policy edit: the row and the stale request commit together *)

\* An UPDATE waits for the share locks of the runs that read the row.
NeverHeld(row) == TRUE
NotHeld(row) == \A r \in Runner : row \notin shares[r]

\* INSERT ... ON CONFLICT: a repeated request bumps the version and drops the claim.
Request ==
    request' = IF request.there
               THEN [request EXCEPT !.version = @ + 1, !.token = None, !.leased = FALSE]
               ELSE [there |-> TRUE, id |-> request.id + 1, version |-> 1,
                     token |-> None, leased |-> FALSE]

Edit ==
    /\ edits < MaxEdits
    /\ edits' = edits + 1
    /\ Request
    /\ UNCHANGED <<resultVars, runVars, drainVars, faultVars>>

UpdateGlobal ==
    /\ Edit
    /\ NotHeld("global")
    /\ global' = edits + 1
    /\ UNCHANGED override

\* An absent override row is inserted, which no share lock can delay.
UpdateOverride ==
    /\ Edit
    /\ IF override = None THEN NewOverride ELSE NotHeld("override")
    /\ override' = edits + 1
    /\ UNCHANGED global

ResetOverride ==
    /\ Edit
    /\ override # None /\ NotHeld("override")
    /\ override' = None
    /\ UNCHANGED global

-----------------------------------------------------------------------------
(* A drain *)

ClaimableLeased == request.there
ClaimableNeverClaimed == request.there /\ request.token = None
Claimable == request.there /\ ~request.leased

Claim(d) ==
    /\ step[d] = "idle"
    /\ Claimable
    /\ request' = [request EXCEPT !.token = d, !.leased = TRUE]
    /\ claim' = [claim EXCEPT ![d] = [id |-> request.id, version |-> request.version]]
    /\ last' = [last EXCEPT ![d] = 0]
    /\ step' = [step EXCEPT ![d] = "scan"]
    /\ UNCHANGED <<policyVars, resultVars, runVars, page, full, faultVars>>

\* The next keyset page: the first subjects after the cursor whose results are not flagged.
Unflagged(after) == {s \in Subject : result[s] # None /\ ~stale[s] /\ s > after}
IsPage(P, after) ==
    /\ P \subseteq Unflagged(after)
    /\ \A s \in P, t \in Unflagged(after) : t < s => t \in P
    /\ Cardinality(P) <= PageSize
    /\ Cardinality(P) < PageSize => P = Unflagged(after)

Scan(d) ==
    /\ step[d] = "scan"
    /\ \E P \in SUBSET Subject :
          /\ IsPage(P, last[d])
          /\ page' = [page EXCEPT ![d] = P]
          /\ full' = [full EXCEPT ![d] = Cardinality(P) = PageSize]
    /\ step' = [step EXCEPT ![d] = "mark"]
    /\ UNCHANGED <<policyVars, resultVars, runVars, request, claim, last, faultVars>>

\* Each subject in its own short transaction, under its lock.
MarkNext(d, s) ==
    /\ step[d] = "mark" /\ s \in page[d]
    /\ \A t \in page[d] : s <= t
    /\ lock[s] = None
    /\ FlagResults(s)
    /\ page' = [page EXCEPT ![d] = @ \ {s}]
    /\ last' = [last EXCEPT ![d] = s]
    /\ UNCHANGED <<policyVars, result, runVars, request, step, claim, full, faultVars>>

Owns(d) == request.there /\ request.id = claim[d].id /\ request.token = d

DrainEnds(d) ==
    /\ step' = [step EXCEPT ![d] = "idle"]
    /\ claim' = [claim EXCEPT ![d] = [id |-> 0, version |-> 0]]
    /\ last' = [last EXCEPT ![d] = 0]
    /\ page' = [page EXCEPT ![d] = {}]
    /\ full' = [full EXCEPT ![d] = FALSE]

\* Between two pages the lease is extended, unless another drain owns the row.
Heartbeat(d) ==
    /\ step[d] = "mark" /\ page[d] = {} /\ full[d]
    /\ IF Owns(d)
          THEN /\ request' = [request EXCEPT !.leased = TRUE]
               /\ step' = [step EXCEPT ![d] = "scan"]
               /\ UNCHANGED <<claim, last, page, full>>
          ELSE DrainEnds(d) /\ UNCHANGED request
    /\ UNCHANGED <<policyVars, resultVars, runVars, faultVars>>

Gone == [request EXCEPT !.there = FALSE, !.token = None, !.leased = FALSE]
Fenced(d) == Owns(d) /\ request.version = claim[d].version

\* The handler is through: the request is deleted, fenced by token and version.
Finish(d) ==
    /\ step[d] = "mark" /\ page[d] = {} /\ ~full[d]
    /\ request' = IF Fenced(d) THEN Gone ELSE request
    /\ DrainEnds(d)
    /\ UNCHANGED <<policyVars, resultVars, runVars, faultVars>>

Fault ==
    /\ faults < MaxFaults
    /\ faults' = faults + 1
    /\ UNCHANGED overruns

\* The handler threw: the claim is released for the next drain.
HandlerFails(d) ==
    /\ step[d] # "idle"
    /\ Fault
    /\ request' = IF Owns(d) THEN [request EXCEPT !.token = None, !.leased = FALSE]
                  ELSE request
    /\ DrainEnds(d)
    /\ UNCHANGED <<policyVars, resultVars, runVars>>

\* The process died: its lease stays on the row.
DrainDies(d) ==
    /\ step[d] # "idle"
    /\ Fault
    /\ DrainEnds(d)
    /\ UNCHANGED <<policyVars, resultVars, runVars, request>>

WorkedOn == \E d \in Drainer : step[d] # "idle" /\ Owns(d)

LeaseRunsOut ==
    /\ request.leased
    /\ request' = [request EXCEPT !.leased = FALSE]
    /\ UNCHANGED <<policyVars, resultVars, runVars, drainVars>>

\* The lease of a dead drain ends, or that of one that outlives it.
DeadLeaseEnds == ~WorkedOn /\ LeaseRunsOut /\ UNCHANGED faultVars
LeaseOverrun ==
    /\ WorkedOn /\ LeaseRunsOut
    /\ overruns < MaxOverruns
    /\ overruns' = overruns + 1
    /\ UNCHANGED faults

-----------------------------------------------------------------------------

Next ==
    \/ \E r \in Runner : \/ \E s \in Subject : RunBegin(r, s)
                         \/ ReadGlobal(r)
                         \/ ReadOverride(r)
                         \/ \E found \in BOOLEAN : RunCommit(r, found)
                         \/ RunRollback(r)
    \/ \E s \in Subject : MarkStale(s)
    \/ UpdateGlobal \/ UpdateOverride \/ ResetOverride
    \/ \E d \in Drainer : \/ Claim(d)
                          \/ Scan(d)
                          \/ \E s \in Subject : MarkNext(d, s)
                          \/ Heartbeat(d)
                          \/ Finish(d)
                          \/ HandlerFails(d)
                          \/ DrainDies(d)
    \/ DeadLeaseEnds \/ LeaseOverrun

Spec == Init /\ [][Next]_vars

\* The scheduled task drains every minute, a run ends, a dead drain's lease elapses,
\* and the queue for a subject's advisory lock is first come first served.
Fairness ==
    /\ \A r \in Runner : WF_vars(RunRollback(r) \/ \E found \in BOOLEAN : RunCommit(r, found))
    /\ WF_vars(\E d \in Drainer : Claim(d))
    /\ WF_vars(DeadLeaseEnds)
    /\ \A d \in Drainer :
          /\ WF_vars(Scan(d) \/ Heartbeat(d) \/ Finish(d))
          /\ \A s \in Subject : SF_vars(MarkNext(d, s))

FairSpec == Spec /\ Fairness

-----------------------------------------------------------------------------
(* Properties *)

\* Once no request is pending, every stored result that looks fresh comes from the policy
\* in force: a run in flight during an edit, a repeated request or a lost lease leaves no
\* fresh-looking result of an old policy (runs share-lock the policy rows, the delete is fenced).
FreshMeansCurrent ==
    ~request.there =>
        \A s \in Subject : result[s] # None /\ ~stale[s] => result[s] = Effective(s)

\* Two drains work on one version of the request only after a lease ran out under its owner.
OneDrainPerRequest ==
    \A d, e \in Drainer :
        d # e /\ step[d] # "idle" /\ step[e] # "idle" /\ claim[d] = claim[e] => overruns > 0

\* A stale request is served in the end, whatever drains die, fail or lose their lease.
RequestIsServed == request.there ~> ~request.there

=============================================================================
