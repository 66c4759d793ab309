---------------------------- MODULE ChecksProofs ----------------------------
(***************************************************************************)
(* What Checks guarantees for any subjects, runs, drains, edits, crashes   *)
(* and lost leases.                                                        *)
(***************************************************************************)
EXTENDS Checks, FiniteSetTheorems, TLAPS

-----------------------------------------------------------------------------
(* The invariant *)

\* A run in progress holds its subject's lock; what it read of the policy it keeps locked,
\* so that is still the policy in force.
Holds(r) ==
    /\ phase[r] # "idle" => about[r] \in Subject /\ lock[about[r]] = r
    /\ phase[r] = "global" => "global" \in shares[r] /\ saw[r] = global
    /\ phase[r] = "ready" =>
          /\ "global" \in shares[r]
          /\ about[r] \in Branch /\ override # None => "override" \in shares[r]
          /\ saw[r] = Effective(about[r])
RunsHold == \A r \in Runner : Holds(r)

\* A result that looks fresh though its policy is no longer in force.
Old(s) == result[s] # None /\ ~stale[s] /\ result[s] # Effective(s)

\* What the drain d still has to do for an old result s.
Ahead(d, s) ==
    \/ step[d] = "scan" /\ s > last[d]
    \/ step[d] = "mark" /\ s \in page[d]
    \/ /\ step[d] = "mark" /\ full[d] /\ s > last[d]
       /\ \A t \in page[d] : t < s

\* The one drain that may delete the request still has every old result ahead of it.
AllAhead ==
    \A d \in Drainer : step[d] # "idle" /\ Fenced(d) =>
        \A s \in Subject : Old(s) => Ahead(d, s)

\* A claim is never newer than the request.
ClaimsArePast ==
    \A d \in Drainer : step[d] # "idle" =>
        \/ claim[d].id < request.id
        \/ claim[d].id = request.id /\ claim[d].version <= request.version

\* Without an overrun a drain that works on the request as it is holds its lease.
WorkersLease ==
    \A d \in Drainer :
        /\ overruns = 0 /\ request.there /\ step[d] # "idle"
        /\ claim[d].id = request.id /\ claim[d].version = request.version
        => request.token = d /\ request.leased

\* A run that has read the global row carries a policy.
SawRead == \A r \in Runner : phase[r] = "global" => saw[r] \in Nat

TypedInv == TypeOK /\ SawRead
RunInv == TypedInv /\ RunsHold
FreshInv == RunInv /\ AllAhead /\ FreshMeansCurrent
LeaseInv == TypedInv /\ ClaimsArePast /\ WorkersLease /\ OneDrainPerRequest

-----------------------------------------------------------------------------
(* Types *)

RowsTyped ==
    /\ global \in Nat /\ override \in Nat \cup {None} /\ edits \in Nat
    /\ faults \in Nat /\ overruns \in Nat
ResultsTyped ==
    result \in [Subject -> Nat \cup {None}] /\ stale \in [Subject -> BOOLEAN]
RunsTyped ==
    /\ lock \in [Subject -> Runner \cup {None}]
    /\ phase \in [Runner -> {"idle", "locked", "global", "ready"}]
    /\ about \in [Runner -> Subject \cup {None}]
    /\ saw \in [Runner -> Nat \cup {None}]
    /\ \A r \in Runner : phase[r] = "ready" => saw[r] \in Nat
    /\ shares \in [Runner -> SUBSET {"global", "override"}]
RequestTyped ==
    request \in [there : BOOLEAN, id : Nat, version : Nat,
                 token : Drainer \cup {None}, leased : BOOLEAN]
DrainsTyped ==
    /\ step \in [Drainer -> {"idle", "scan", "mark"}]
    /\ claim \in [Drainer -> [id : Nat, version : Nat]]
    /\ last \in [Drainer -> Nat] /\ page \in [Drainer -> SUBSET Subject]
    /\ full \in [Drainer -> BOOLEAN]

LEMMA TypeParts ==
    TypeOK <=> RowsTyped /\ ResultsTyped /\ RunsTyped /\ RequestTyped /\ DrainsTyped
BY DEF TypeOK, RowsTyped, ResultsTyped, RunsTyped, RequestTyped,
                      DrainsTyped

LEMMA TypedInit == Init => TypeOK
<1> USE ChecksAssumption
<1>1. Init => RowsTyped /\ ResultsTyped
  BY DEF Init, RowsTyped, ResultsTyped
<1>2. Init => RunsTyped
  BY DEF Init, RunsTyped
<1>3. Init => RequestTyped /\ DrainsTyped
  BY DEF Init, RequestTyped, DrainsTyped
<1> QED
  BY <1>1, <1>2, <1>3, TypeParts

RunStep ==
    \E r \in Runner : \/ \E s \in Subject : RunBegin(r, s)
                      \/ ReadGlobal(r)
                      \/ ReadOverride(r)
                      \/ \E found \in BOOLEAN : RunCommit(r, found)
                      \/ RunRollback(r)
EditStep == UpdateGlobal \/ UpdateOverride \/ ResetOverride
DrainStep ==
    \E d \in Drainer : \/ Claim(d)
                       \/ Scan(d)
                       \/ \E s \in Subject : MarkNext(d, s)
                       \/ Heartbeat(d)
                       \/ Finish(d)
                       \/ HandlerFails(d)
                       \/ DrainDies(d)
MarkStep == \E s \in Subject : MarkStale(s)
LeaseStep == DeadLeaseEnds \/ LeaseOverrun

LEMMA NextParts == Next <=> RunStep \/ MarkStep \/ EditStep \/ DrainStep \/ LeaseStep
BY DEF Next, RunStep, MarkStep, EditStep, DrainStep, LeaseStep

\* What a run's step leaves alone, and the types of the rest.
LEMMA RunTypes ==
    ASSUME TypeOK, SawRead, RunStep
    PROVE  TypeOK'
<1> USE ChecksAssumption
<1>0. RowsTyped /\ ResultsTyped /\ RunsTyped /\ RequestTyped /\ DrainsTyped
  BY TypeParts
<1>1. PICK r \in Runner : \/ \E s \in Subject : RunBegin(r, s)
                          \/ ReadGlobal(r)
                          \/ ReadOverride(r)
                          \/ \E found \in BOOLEAN : RunCommit(r, found)
                          \/ RunRollback(r)
  BY DEF RunStep
<1>2. CASE \E s \in Subject : RunBegin(r, s)
  <2>1. RowsTyped' /\ ResultsTyped' /\ RequestTyped' /\ DrainsTyped'
    BY <1>0, <1>2 DEF RunBegin, RowsTyped, ResultsTyped, RequestTyped, DrainsTyped,
                     policyVars, resultVars, drainVars, faultVars
  <2>2. RunsTyped'
    BY <1>0, <1>2 DEF RunBegin, RunsTyped
  <2> QED
    BY <2>1, <2>2 DEF TypeOK, RowsTyped, ResultsTyped, RunsTyped, RequestTyped,
                      DrainsTyped
<1>3. CASE ReadGlobal(r)
  <2>1. RowsTyped' /\ ResultsTyped' /\ RequestTyped' /\ DrainsTyped'
    BY <1>0, <1>3 DEF ReadGlobal, RowsTyped, ResultsTyped, RequestTyped, DrainsTyped,
                     policyVars, resultVars, drainVars, faultVars
  <2>2. RunsTyped'
    BY <1>0, <1>3 DEF ReadGlobal, RunsTyped, RowsTyped
  <2> QED
    BY <2>1, <2>2 DEF TypeOK, RowsTyped, ResultsTyped, RunsTyped, RequestTyped,
                      DrainsTyped
<1>4. CASE ReadOverride(r)
  <2>1. RowsTyped' /\ ResultsTyped' /\ RequestTyped' /\ DrainsTyped'
    BY <1>0, <1>4 DEF ReadOverride, RowsTyped, ResultsTyped, RequestTyped, DrainsTyped,
                     policyVars, resultVars, drainVars, faultVars
  <2>2. RunsTyped'
    BY <1>0, <1>4 DEF ReadOverride, OverrideFound, RunsTyped, RowsTyped, SawRead
  <2> QED
    BY <2>1, <2>2 DEF TypeOK, RowsTyped, ResultsTyped, RunsTyped, RequestTyped,
                      DrainsTyped
<1>5. CASE \E found \in BOOLEAN : RunCommit(r, found)
  <2>1. RowsTyped' /\ RequestTyped' /\ DrainsTyped'
    BY <1>0, <1>5 DEF RunCommit, RowsTyped, RequestTyped, DrainsTyped,
                     policyVars, drainVars, faultVars
  <2>2. RunsTyped'
    BY <1>0, <1>5 DEF RunCommit, RunEnds, RunsTyped
  <2>3. ResultsTyped'
    BY <1>0, <1>5 DEF RunCommit, ResultsTyped, RunsTyped
  <2> QED
    BY <2>1, <2>2, <2>3 DEF TypeOK, RowsTyped, ResultsTyped, RunsTyped, RequestTyped,
                      DrainsTyped
<1>6. CASE RunRollback(r)
  <2>1. RowsTyped' /\ ResultsTyped' /\ RequestTyped' /\ DrainsTyped'
    BY <1>0, <1>6 DEF RunRollback, RowsTyped, ResultsTyped, RequestTyped, DrainsTyped,
                     policyVars, resultVars, drainVars, faultVars
  <2>2. RunsTyped'
    BY <1>0, <1>6 DEF RunRollback, RunEnds, RunsTyped
  <2> QED
    BY <2>1, <2>2 DEF TypeOK, RowsTyped, ResultsTyped, RunsTyped, RequestTyped,
                      DrainsTyped
<1> QED
  BY <1>1, <1>2, <1>3, <1>4, <1>5, <1>6

LEMMA MarkTypes ==
    ASSUME TypeOK, MarkStep
    PROVE  TypeOK'
<1>0. RowsTyped /\ ResultsTyped /\ RunsTyped /\ RequestTyped /\ DrainsTyped
  BY TypeParts
<1>1. RowsTyped' /\ RunsTyped' /\ RequestTyped' /\ DrainsTyped'
  BY <1>0 DEF MarkStep, MarkStale, RowsTyped, RunsTyped, RequestTyped, DrainsTyped,
              policyVars, runVars, drainVars, faultVars
<1>2. ResultsTyped'
  BY <1>0 DEF MarkStep, MarkStale, FlagResults, ResultsTyped
<1> QED
  BY <1>1, <1>2 DEF TypeOK, RowsTyped, ResultsTyped, RunsTyped, RequestTyped, DrainsTyped

LEMMA EditTypes ==
    ASSUME TypeOK, EditStep
    PROVE  TypeOK'
<1> USE ChecksAssumption
<1>0. RowsTyped /\ ResultsTyped /\ RunsTyped /\ RequestTyped /\ DrainsTyped
  BY TypeParts
<1>1. Edit
  BY DEF EditStep, UpdateGlobal, UpdateOverride, ResetOverride
<1>2. ResultsTyped' /\ RunsTyped' /\ DrainsTyped'
  BY <1>0, <1>1 DEF Edit, ResultsTyped, RunsTyped, DrainsTyped, resultVars, runVars, drainVars
<1>3. RequestTyped'
  <2>1. CASE request.there
    <3>1. request' = [[[request EXCEPT !.version = request.version + 1] EXCEPT
                           !.token = None] EXCEPT !.leased = FALSE]
      BY <1>1, <2>1 DEF Edit, Request
    <3>2. request.version + 1 \in Nat
      BY <1>0 DEF RequestTyped
    <3>3. [request EXCEPT !.version = request.version + 1] \in
              [there : BOOLEAN, id : Nat, version : Nat,
               token : Drainer \cup {None}, leased : BOOLEAN]
      BY <1>0, <3>2 DEF RequestTyped
    <3> QED
      BY <3>1, <3>3 DEF RequestTyped
  <2>2. CASE ~request.there
    <3>1. request' = [there |-> TRUE, id |-> request.id + 1, version |-> 1,
                      token |-> None, leased |-> FALSE]
      BY <1>1, <2>2 DEF Edit, Request
    <3>2. request.id + 1 \in Nat
      BY <1>0 DEF RequestTyped
    <3> QED
      BY <3>1, <3>2 DEF RequestTyped
  <2> QED
    BY <2>1, <2>2
<1>4. RowsTyped'
  BY <1>0, <1>1 DEF EditStep, Edit, UpdateGlobal, UpdateOverride, ResetOverride, RowsTyped,
                    faultVars
<1> QED
  BY <1>2, <1>3, <1>4 DEF TypeOK, RowsTyped, ResultsTyped, RunsTyped, RequestTyped, DrainsTyped

LEMMA LeaseTypes ==
    ASSUME TypeOK, LeaseStep
    PROVE  TypeOK'
<1>0. RowsTyped /\ ResultsTyped /\ RunsTyped /\ RequestTyped /\ DrainsTyped
  BY TypeParts
<1>1. LeaseRunsOut
  BY DEF LeaseStep, DeadLeaseEnds, LeaseOverrun
<1>2. ResultsTyped' /\ RunsTyped' /\ DrainsTyped'
  BY <1>0, <1>1 DEF LeaseRunsOut, ResultsTyped, RunsTyped, DrainsTyped, resultVars, runVars,
                    drainVars
<1>3. RequestTyped'
  BY <1>0, <1>1 DEF LeaseRunsOut, RequestTyped
<1>4. RowsTyped'
  BY <1>0, <1>1 DEF LeaseStep, DeadLeaseEnds, LeaseOverrun, LeaseRunsOut, RowsTyped,
                    policyVars, faultVars
<1> QED
  BY <1>2, <1>3, <1>4 DEF TypeOK, RowsTyped, ResultsTyped, RunsTyped, RequestTyped, DrainsTyped

LEMMA EndTypes ==
    ASSUME DrainsTyped, NEW d \in Drainer, DrainEnds(d)
    PROVE  DrainsTyped'
<1>1. (step \in [Drainer -> {"idle", "scan", "mark"}])'
  BY DEF DrainEnds, DrainsTyped
<1>2. (claim \in [Drainer -> [id : Nat, version : Nat]])'
  BY DEF DrainEnds, DrainsTyped
<1>3. (last \in [Drainer -> Nat] /\ page \in [Drainer -> SUBSET Subject])'
  BY DEF DrainEnds, DrainsTyped
<1>4. (full \in [Drainer -> BOOLEAN])'
  BY DEF DrainEnds, DrainsTyped
<1> QED
  BY <1>1, <1>2, <1>3, <1>4 DEF DrainsTyped

\* Every drain's step leaves the policy and the runs alone; only MarkNext touches results.
LEMMA DrainTypes ==
    ASSUME TypeOK, NEW d \in Drainer,
           \/ Claim(d) \/ Scan(d) \/ (\E s \in Subject : MarkNext(d, s))
           \/ Heartbeat(d) \/ Finish(d) \/ HandlerFails(d) \/ DrainDies(d)
    PROVE  TypeOK'
<1> USE ChecksAssumption
<1>0. RowsTyped /\ ResultsTyped /\ RunsTyped /\ RequestTyped /\ DrainsTyped
  BY TypeParts
<1>1. RowsTyped' /\ RunsTyped'
  BY <1>0 DEF Claim, Scan, MarkNext, Heartbeat, Finish, HandlerFails, DrainDies, Fault,
              RowsTyped, RunsTyped, policyVars, runVars, faultVars
<1>2. ResultsTyped'
  <2>1. CASE \E s \in Subject : MarkNext(d, s)
    BY <1>0, <2>1 DEF MarkNext, FlagResults, ResultsTyped
  <2>2. CASE Claim(d) \/ Scan(d) \/ Heartbeat(d) \/ Finish(d) \/ HandlerFails(d) \/ DrainDies(d)
    BY <1>0, <2>2 DEF Claim, Scan, Heartbeat, Finish, HandlerFails, DrainDies, ResultsTyped,
                      resultVars
  <2> QED
    BY <2>1, <2>2
<1>3. RequestTyped'
  BY <1>0 DEF Claim, Scan, MarkNext, Heartbeat, Finish, HandlerFails, DrainDies, Gone,
              RequestTyped
<1>4. DrainsTyped'
  <2>1. CASE Claim(d)
    BY <1>0, <2>1 DEF Claim, DrainsTyped, RequestTyped
  <2>2. CASE Scan(d)
    BY <1>0, <2>2 DEF Scan, DrainsTyped
  <2>3. CASE \E s \in Subject : MarkNext(d, s)
    BY <1>0, <2>3 DEF MarkNext, DrainsTyped
  <2>4. CASE Heartbeat(d)
    <3>1. CASE DrainEnds(d)
      BY <1>0, <3>1, EndTypes
    <3>2. CASE ~DrainEnds(d)
      BY <1>0, <2>4, <3>2 DEF Heartbeat, DrainsTyped
    <3> QED
      BY <3>1, <3>2
  <2>5. CASE Finish(d) \/ HandlerFails(d) \/ DrainDies(d)
    BY <1>0, <2>5, EndTypes DEF Finish, HandlerFails, DrainDies
  <2> QED
    BY <2>1, <2>2, <2>3, <2>4, <2>5
<1> QED
  BY <1>1, <1>2, <1>3, <1>4 DEF TypeOK, RowsTyped, ResultsTyped, RunsTyped, RequestTyped,
                                DrainsTyped
LEMMA SawStep ==
    ASSUME TypedInv, [Next]_vars
    PROVE  SawRead'
<1>1. CASE \E r \in Runner : ReadGlobal(r)
  BY <1>1 DEF TypedInv, TypeOK, SawRead, ReadGlobal
<1>2. CASE ~\E r \in Runner : ReadGlobal(r)
  <2>1. \A r \in Runner : phase'[r] = "global" => phase[r] = "global" /\ saw'[r] = saw[r]
    BY <1>2 DEF TypedInv, TypeOK, Next, vars, policyVars, resultVars, runVars, drainVars,
         RunBegin, ReadOverride, RunCommit, RunRollback, RunEnds, MarkStale, UpdateGlobal,
         UpdateOverride, ResetOverride, Edit, Claim, Scan, MarkNext, Heartbeat, Finish,
         HandlerFails, DrainDies, DeadLeaseEnds, LeaseOverrun, LeaseRunsOut
  <2> QED
    BY <2>1 DEF TypedInv, SawRead
<1> QED
  BY <1>1, <1>2

LEMMA TypedStep ==
    ASSUME TypedInv, [Next]_vars
    PROVE  TypedInv'
<1>1. TypeOK'
  <2>1. CASE UNCHANGED vars
    BY <2>1 DEF TypedInv, TypeOK, vars, policyVars, resultVars, runVars, drainVars, faultVars
  <2>2. CASE RunStep
    BY <2>2, RunTypes DEF TypedInv
  <2>3. CASE MarkStep
    BY <2>3, MarkTypes DEF TypedInv
  <2>4. CASE EditStep
    BY <2>4, EditTypes DEF TypedInv
  <2>5. CASE DrainStep
    BY <2>5, DrainTypes DEF TypedInv, DrainStep
  <2>6. CASE LeaseStep
    BY <2>6, LeaseTypes DEF TypedInv
  <2> QED
    BY <2>1, <2>2, <2>3, <2>4, <2>5, <2>6, NextParts
<1> QED
  BY <1>1, SawStep DEF TypedInv

\* Every variable keeps its type and a run that is ready to evaluate has read a policy,
\* for any number of subjects, runs, drains and edits.
THEOREM ChecksTyped == Spec => []TypeOK
<1>1. Init => TypedInv
  BY TypedInit DEF TypedInv, SawRead, Init
<1>2. TypedInv /\ [Next]_vars => TypedInv'
  BY TypedStep
<1>3. TypedInv => TypeOK
  BY DEF TypedInv
<1> QED
  BY <1>1, <1>2, <1>3, PTL DEF Spec

-----------------------------------------------------------------------------
(* Runs *)

LEMMA RunKeepsHold ==
    ASSUME RunInv, NewOverride = FALSE, RunStep
    PROVE  RunsHold'
<1> USE ChecksAssumption
<1>0. PICK r \in Runner : \/ \E s \in Subject : RunBegin(r, s)
                          \/ ReadGlobal(r)
                          \/ ReadOverride(r)
                          \/ \E found \in BOOLEAN : RunCommit(r, found)
                          \/ RunRollback(r)
  BY DEF RunStep
<1>1. RunsTyped
  BY TypeParts DEF RunInv, TypedInv
<1>2. global' = global /\ override' = override
  BY <1>0 DEF RunBegin, ReadGlobal, ReadOverride, RunCommit, RunRollback, policyVars
<1>3. CASE \E s \in Subject : RunBegin(r, s)
  <2>1. PICK s \in Subject : RunBegin(r, s)
    BY <1>3
  <2>2. Holds(r)'
    BY <1>1, <2>1 DEF RunBegin, Holds, RunsTyped
  <2>3. ASSUME NEW q \in Runner, q # r PROVE Holds(q)'
    BY <1>1, <1>2, <2>1, <2>3 DEF RunBegin, Holds, RunsTyped, RunInv, RunsHold, Effective
  <2> QED
    BY <2>2, <2>3 DEF RunsHold
<1>4. CASE ReadGlobal(r)
  <2>1. Holds(r)'
    BY <1>1, <1>2, <1>4 DEF ReadGlobal, Holds, RunsTyped, RunInv, RunsHold
  <2>2. ASSUME NEW q \in Runner, q # r PROVE Holds(q)'
    BY <1>1, <1>2, <1>4, <2>2 DEF ReadGlobal, Holds, RunsTyped, RunInv, RunsHold, Effective
  <2> QED
    BY <2>1, <2>2 DEF RunsHold
<1>5. CASE ReadOverride(r)
  <2>1. Holds(r)'
    BY <1>1, <1>2, <1>5 DEF ReadOverride, OverrideFound, Holds, RunsTyped, RunInv, RunsHold,
                            Effective
  <2>2. ASSUME NEW q \in Runner, q # r PROVE Holds(q)'
    BY <1>1, <1>2, <1>5, <2>2 DEF ReadOverride, Holds, RunsTyped, RunInv, RunsHold, Effective
  <2> QED
    BY <2>1, <2>2 DEF RunsHold
<1>6. CASE (\E found \in BOOLEAN : RunCommit(r, found)) \/ RunRollback(r)
  <2>1. RunEnds(r) /\ phase[r] # "idle"
    BY <1>6 DEF RunCommit, RunRollback
  <2>2. Holds(r)'
    BY <1>1, <2>1 DEF RunEnds, Holds, RunsTyped
  <2>3. ASSUME NEW q \in Runner, q # r PROVE Holds(q)'
    BY <1>1, <1>2, <2>1, <2>3 DEF RunEnds, Holds, RunsTyped, RunInv, RunsHold, Effective
  <2> QED
    BY <2>2, <2>3 DEF RunsHold
<1> QED
  BY <1>0, <1>3, <1>4, <1>5, <1>6

\* An edit waits for the share locks; without NewOverride it inserts no row.
LEMMA EditKeepsHold ==
    ASSUME RunInv, NewOverride = FALSE, EditStep
    PROVE  RunsHold'
<1> USE ChecksAssumption
<1>0. UNCHANGED runVars
  BY DEF EditStep, UpdateGlobal, UpdateOverride, ResetOverride, Edit
<1>1. SUFFICES ASSUME NEW r \in Runner PROVE Holds(r)'
  BY DEF RunsHold
<1>2. Holds(r)
  BY DEF RunInv, RunsHold
<1>3. CASE UpdateGlobal
  <2>1. "global" \notin shares[r]
    BY <1>3 DEF UpdateGlobal, NotHeld
  <2>2. (phase[r] = "idle" \/ phase[r] = "locked")'
    BY <1>0, <1>2, <2>1 DEF Holds, runVars, RunInv, TypedInv, TypeOK
  <2> QED
    BY <1>0, <1>2, <2>2 DEF Holds, runVars
<1>4. CASE UpdateOverride \/ ResetOverride
  <2>1. override # None /\ "override" \notin shares[r] /\ global' = global
    BY <1>4 DEF UpdateOverride, ResetOverride, NotHeld
  <2> QED
    BY <1>0, <1>2, <2>1 DEF Holds, runVars, Effective
<1> QED
  BY <1>3, <1>4 DEF EditStep

LEMMA HoldStep ==
    ASSUME RunInv, NewOverride = FALSE, [Next]_vars
    PROVE  RunInv'
<1>1. CASE RunStep
  BY <1>1, RunKeepsHold, TypedStep DEF RunInv
<1>2. CASE EditStep
  BY <1>2, EditKeepsHold, TypedStep DEF RunInv
<1>3. CASE MarkStep \/ DrainStep \/ LeaseStep \/ UNCHANGED vars
  <2>1. UNCHANGED <<runVars, policyVars>>
    BY <1>3 DEF MarkStep, MarkStale, DrainStep, Claim, Scan, MarkNext, Heartbeat, Finish,
                HandlerFails, DrainDies, LeaseStep, DeadLeaseEnds, LeaseOverrun, LeaseRunsOut,
                vars
  <2>2. RunsHold'
    BY <2>1 DEF RunInv, RunsHold, Holds, Effective, runVars, policyVars
  <2> QED
    BY <2>2, TypedStep DEF RunInv
<1> QED
  BY <1>1, <1>2, <1>3, NextParts

-----------------------------------------------------------------------------
(* A fresh-looking result comes from the policy in force *)

\* Only an edit can make a result old: a run stores what the policy in force yields.
LEMMA OldShrinks ==
    ASSUME RunInv, RunStep \/ MarkStep \/ DrainStep \/ LeaseStep,
           NEW s \in Subject, Old(s)'
    PROVE  Old(s)
<1> USE ChecksAssumption
<1>1. ResultsTyped /\ RunsTyped
  BY TypeParts DEF RunInv, TypedInv
<1>2. UNCHANGED policyVars
  BY DEF RunStep, RunBegin, ReadGlobal, ReadOverride, RunCommit, RunRollback, MarkStep,
         MarkStale, DrainStep, Claim, Scan, MarkNext, Heartbeat, Finish, HandlerFails,
         DrainDies, LeaseStep, DeadLeaseEnds, LeaseOverrun, LeaseRunsOut
<1>3. Effective(s)' = Effective(s)
  BY <1>2 DEF Effective, policyVars
<1>4. CASE UNCHANGED resultVars
  BY <1>3, <1>4 DEF Old, resultVars
<1>5. CASE \E r \in Runner, found \in BOOLEAN : RunCommit(r, found)
  <2>1. PICK r \in Runner, found \in BOOLEAN : RunCommit(r, found)
    BY <1>5
  <2>2. saw[r] = Effective(about[r])
    BY <2>1 DEF RunCommit, RunInv, RunsHold, Holds
  <2>3. CASE about[r] = s
    BY <1>1, <1>3, <2>1, <2>2, <2>3 DEF RunCommit, Old, ResultsTyped
  <2>4. CASE about[r] # s
    BY <1>1, <1>3, <2>1, <2>4 DEF RunCommit, Old, ResultsTyped
  <2> QED
    BY <2>3, <2>4
<1>6. CASE \E t \in Subject : FlagResults(t) /\ UNCHANGED result
  BY <1>1, <1>3, <1>6 DEF FlagResults, Old, ResultsTyped
<1> QED
  BY <1>4, <1>5, <1>6 DEF RunStep, RunBegin, ReadGlobal, ReadOverride, RunRollback, MarkStep,
         MarkStale, DrainStep, Claim, Scan, MarkNext, Heartbeat, Finish, HandlerFails,
         DrainDies, LeaseStep, DeadLeaseEnds, LeaseOverrun, LeaseRunsOut

\* A step that leaves the drain d and its fence as they are leaves its work ahead of it.
LEMMA Untouched ==
    ASSUME FreshInv, NEW d \in Drainer, step[d] # "idle",
           UNCHANGED <<step[d], last[d], page[d], full[d]>>, Fenced(d),
           NEW s \in Subject, Old(s)
    PROVE  Ahead(d, s)'
<1>1. Ahead(d, s)
  BY DEF FreshInv, AllAhead
<1> QED
  BY <1>1 DEF Ahead

\* The next page ends before whatever it leaves out.
LEMMA PageEnds ==
    ASSUME NEW P \in SUBSET Subject, NEW after \in Nat, IsPage(P, after),
           NEW s \in Subject, s \in Unflagged(after), s \notin P
    PROVE  Cardinality(P) = PageSize /\ \A t \in P : t < s
<1> USE ChecksAssumption
<1>1. IsFiniteSet(P)
  BY FS_Subset
<1>2. Cardinality(P) \in Nat
  BY <1>1, FS_CardinalityType
<1>3. ~(Cardinality(P) < PageSize) /\ Cardinality(P) <= PageSize
  BY DEF IsPage
<1>4. Cardinality(P) = PageSize
  BY <1>2, <1>3
<1>5. ASSUME NEW t \in P PROVE t < s
  <2>1. ~(s < t)
    BY DEF IsPage
  <2>2. s \in Nat /\ t \in Nat /\ s # t
    OBVIOUS
  <2> QED
    BY <2>1, <2>2
<1> QED
  BY <1>4, <1>5

\* Runs, data events and lost leases.
LEMMA OthersKeepFresh ==
    ASSUME FreshInv, RunStep \/ MarkStep \/ LeaseStep
    PROVE  (AllAhead /\ FreshMeansCurrent)'
<1>1. RunInv
  BY DEF FreshInv
<1>2. \A s \in Subject : Old(s)' => Old(s)
  BY <1>1, OldShrinks
<1>3. UNCHANGED drainVars
  BY DEF RunStep, RunBegin, ReadGlobal, ReadOverride, RunCommit, RunRollback, MarkStep,
         MarkStale, LeaseStep, DeadLeaseEnds, LeaseOverrun, LeaseRunsOut
<1>4. request' = request \/ request' = [request EXCEPT !.leased = FALSE]
  BY DEF RunStep, RunBegin, ReadGlobal, ReadOverride, RunCommit, RunRollback, MarkStep,
         MarkStale, LeaseStep, DeadLeaseEnds, LeaseOverrun, LeaseRunsOut
<1>5. UNCHANGED <<request.there, request.id, request.version, request.token>>
  BY <1>1, <1>4 DEF RunInv, TypedInv, TypeOK
<1>6. AllAhead'
  <2> SUFFICES ASSUME NEW d \in Drainer, (step[d] # "idle")', Fenced(d)',
                      NEW s \in Subject, Old(s)'
               PROVE  Ahead(d, s)'
    BY DEF AllAhead
  <2>1. step[d] # "idle" /\ UNCHANGED <<step[d], last[d], page[d], full[d]>> /\ Fenced(d)
    BY <1>3, <1>5 DEF drainVars, Fenced, Owns
  <2> QED
    BY <1>2, <2>1, Untouched
<1>7. FreshMeansCurrent'
  BY <1>2, <1>5 DEF FreshInv, FreshMeansCurrent, Old
<1> QED
  BY <1>6, <1>7

\* An edit takes the request from whoever drains it.
LEMMA EditKeepsFresh ==
    ASSUME FreshInv, EditStep
    PROVE  (AllAhead /\ FreshMeansCurrent)'
<1> USE ChecksAssumption
<1>1. Request
  BY DEF EditStep, UpdateGlobal, UpdateOverride, ResetOverride, Edit
<1>2. RequestTyped
  BY TypeParts DEF FreshInv, RunInv, TypedInv
<1>3. request'.token = None /\ request'.there = TRUE
  <2>1. CASE request.there
    <3>1. request' = [[[request EXCEPT !.version = request.version + 1] EXCEPT
                           !.token = None] EXCEPT !.leased = FALSE]
      BY <1>1, <2>1 DEF Request
    <3> QED
      BY <1>2, <2>1, <3>1 DEF RequestTyped
  <2>2. CASE ~request.there
    BY <1>1, <2>2 DEF Request
  <2> QED
    BY <2>1, <2>2
<1>4. AllAhead'
  BY <1>3 DEF AllAhead, Fenced, Owns
<1>5. FreshMeansCurrent'
  BY <1>3 DEF FreshMeansCurrent
<1> QED
  BY <1>4, <1>5

\* A drain's step: the drains that do not take it, then its own.
LEMMA DrainFence ==
    ASSUME TypeOK, NEW d \in Drainer,
           \/ Claim(d) \/ Scan(d) \/ (\E s \in Subject : MarkNext(d, s))
           \/ Heartbeat(d) \/ Finish(d) \/ HandlerFails(d) \/ DrainDies(d),
           NEW e \in Drainer, e # d
    PROVE  /\ UNCHANGED <<step[e], claim[e], last[e], page[e], full[e]>>
           /\ Fenced(e)' => Fenced(e)
<1> USE ChecksAssumption
<1>1. UNCHANGED <<step[e], claim[e], last[e], page[e], full[e]>>
  BY DEF Claim, Scan, MarkNext, Heartbeat, Finish, HandlerFails, DrainDies, DrainEnds, TypeOK
<1>2. RequestTyped
  BY TypeParts
<1>3. \/ request' = request
      \/ request' = [request EXCEPT !.token = d, !.leased = TRUE]
      \/ request' = [request EXCEPT !.leased = TRUE]
      \/ request' = Gone
      \/ request' = [request EXCEPT !.token = None, !.leased = FALSE]
  BY DEF Claim, Scan, MarkNext, Heartbeat, Finish, HandlerFails, DrainDies
<1>4. \/ UNCHANGED <<request.there, request.id, request.version, request.token>>
      \/ request'.token = d \/ request'.token = None
  <2>1. CASE request' = request
    BY <2>1
  <2>2. CASE request' = [request EXCEPT !.token = d, !.leased = TRUE]
    BY <1>2, <2>2 DEF RequestTyped
  <2>3. CASE request' = [request EXCEPT !.leased = TRUE]
    BY <1>2, <2>3 DEF RequestTyped
  <2>4. CASE request' = Gone
    BY <1>2, <2>4 DEF RequestTyped, Gone
  <2>5. CASE request' = [request EXCEPT !.token = None, !.leased = FALSE]
    BY <1>2, <2>5 DEF RequestTyped
  <2> QED
    BY <1>3, <2>1, <2>2, <2>3, <2>4, <2>5
<1>5. Fenced(e)' => Fenced(e)
  BY <1>1, <1>4 DEF Fenced, Owns
<1> QED
  BY <1>1, <1>5

\* Each of the drain's own steps leaves every old result ahead of it.
LEMMA DrainKeepsAhead ==
    ASSUME FreshInv, NEW d \in Drainer,
           \/ Claim(d) \/ Scan(d) \/ (\E s \in Subject : MarkNext(d, s))
           \/ Heartbeat(d) \/ Finish(d) \/ HandlerFails(d) \/ DrainDies(d),
           step'[d] # "idle", Fenced(d)', NEW s \in Subject, Old(s)'
    PROVE  Ahead(d, s)'
<1> USE ChecksAssumption
<1>0. TypeOK /\ DrainsTyped /\ RequestTyped
  BY TypeParts DEF FreshInv, RunInv, TypedInv
<1>1. Old(s)
  BY OldShrinks DEF FreshInv, DrainStep
<1>2. CASE Claim(d)
  <2>1. step'[d] = "scan" /\ last'[d] = 0
    BY <1>0, <1>2 DEF Claim, DrainsTyped
  <2>2. s > 0
    OBVIOUS
  <2> QED
    BY <2>1, <2>2 DEF Ahead
<1>3. CASE Scan(d)
  <2>1. PICK P \in SUBSET Subject :
            /\ IsPage(P, last[d])
            /\ page' = [page EXCEPT ![d] = P]
            /\ full' = [full EXCEPT ![d] = Cardinality(P) = PageSize]
    BY <1>3 DEF Scan
  <2>2. step[d] = "scan" /\ step'[d] = "mark" /\ page'[d] = P /\ last' = last
    BY <1>0, <1>3, <2>1 DEF Scan, DrainsTyped
  <2>3. full'[d] = (Cardinality(P) = PageSize)
    BY <1>0, <2>1 DEF DrainsTyped
  <2>4. s > last[d]
    <3>1. Fenced(d)
      BY <1>3 DEF Scan, Fenced, Owns
    <3>2. Ahead(d, s)
      BY <1>1, <2>2, <3>1 DEF FreshInv, AllAhead
    <3> QED
      BY <2>2, <3>2 DEF Ahead
  <2>5. s \in Unflagged(last[d])
    BY <1>1, <2>4 DEF Old, Unflagged
  <2>6. CASE s \in P
    BY <2>2, <2>6 DEF Ahead
  <2>7. CASE s \notin P
    <3>1. last[d] \in Nat
      BY <1>0 DEF DrainsTyped
    <3>2. Cardinality(P) = PageSize /\ \A t \in P : t < s
      BY <2>1, <2>5, <2>7, <3>1, PageEnds
    <3> QED
      BY <2>2, <2>3, <2>4, <3>2 DEF Ahead
  <2> QED
    BY <2>6, <2>7
<1>4. CASE \E t \in Subject : MarkNext(d, t)
  <2>1. PICK t \in Subject : MarkNext(d, t)
    BY <1>4
  <2>2. /\ step[d] = "mark" /\ step' = step /\ full' = full /\ t \in page[d]
        /\ page'[d] = page[d] \ {t} /\ last'[d] = t
    BY <1>0, <2>1 DEF MarkNext, DrainsTyped
  <2>3. Fenced(d)
    BY <2>1 DEF MarkNext, Fenced, Owns
  <2>4. Ahead(d, s)
    BY <1>1, <2>2, <2>3 DEF FreshInv, AllAhead
  <2>5. s # t
    <3>1. ~Old(t)'
      BY <1>0, <2>1 DEF MarkNext, FlagResults, Old, TypeOK
    <3> QED
      BY <3>1
  <2>6. CASE s \in page[d]
    BY <2>2, <2>5, <2>6 DEF Ahead
  <2>7. CASE full[d] /\ s > last[d] /\ \A u \in page[d] : u < s
    <3>1. t < s
      BY <2>2, <2>7
    <3>2. \A u \in page'[d] : u < s
      BY <2>2, <2>7
    <3>3. s > t
      BY <3>1
    <3> QED
      BY <2>2, <2>7, <3>2, <3>3 DEF Ahead
  <2> QED
    BY <2>2, <2>4, <2>6, <2>7 DEF Ahead
<1>5. CASE Heartbeat(d)
  <2>1. Owns(d) /\ step[d] = "mark" /\ page[d] = {}
    BY <1>0, <1>5 DEF Heartbeat, DrainEnds, DrainsTyped
  <2>2. step'[d] = "scan" /\ last' = last /\ claim' = claim
    BY <1>0, <1>5, <2>1 DEF Heartbeat, DrainsTyped
  <2>3. request' = [request EXCEPT !.leased = TRUE]
    BY <1>5, <2>1 DEF Heartbeat
  <2>4. request'.version = request.version
    BY <1>0, <2>3 DEF RequestTyped
  <2>5. Fenced(d)
    BY <2>1, <2>2, <2>4 DEF Fenced
  <2>6. Ahead(d, s)
    BY <1>1, <2>1, <2>5 DEF FreshInv, AllAhead
  <2> QED
    BY <2>1, <2>2, <2>6 DEF Ahead
<1>6. CASE Finish(d) \/ HandlerFails(d) \/ DrainDies(d)
  BY <1>0, <1>6 DEF Finish, HandlerFails, DrainDies, DrainEnds, DrainsTyped
<1> QED
  BY <1>2, <1>3, <1>4, <1>5, <1>6

\* The delete of the request comes after the last page, so nothing old is left.
LEMMA DrainKeepsCurrent ==
    ASSUME FreshInv, NEW d \in Drainer,
           \/ Claim(d) \/ Scan(d) \/ (\E s \in Subject : MarkNext(d, s))
           \/ Heartbeat(d) \/ Finish(d) \/ HandlerFails(d) \/ DrainDies(d)
    PROVE  FreshMeansCurrent'
<1> USE ChecksAssumption
<1>0. RequestTyped
  BY TypeParts DEF FreshInv, RunInv, TypedInv
<1>1. SUFFICES ASSUME NEW s \in Subject, Old(s)', ~request'.there
               PROVE  FALSE
  BY DEF FreshMeansCurrent, Old
<1>2. Old(s)
  BY <1>1, OldShrinks DEF FreshInv, DrainStep
<1>3. request.there
  BY <1>2 DEF FreshInv, FreshMeansCurrent, Old
<1>4. Finish(d) /\ Fenced(d)
  <2> SUFFICES ASSUME ~(Finish(d) /\ Fenced(d)) PROVE FALSE
    OBVIOUS
  <2>1. CASE request' = request
    BY <1>1, <1>3, <2>1
  <2>2. CASE request' = [request EXCEPT !.token = d, !.leased = TRUE]
    BY <1>0, <1>1, <1>3, <2>2 DEF RequestTyped
  <2>3. CASE request' = [request EXCEPT !.leased = TRUE]
    BY <1>0, <1>1, <1>3, <2>3 DEF RequestTyped
  <2>4. CASE request' = [request EXCEPT !.token = None, !.leased = FALSE]
    BY <1>0, <1>1, <1>3, <2>4 DEF RequestTyped
  <2> QED
    BY <2>1, <2>2, <2>3, <2>4 DEF Claim, Scan, MarkNext, Heartbeat, Finish, HandlerFails,
                                  DrainDies
<1>5. Ahead(d, s)
  BY <1>2, <1>4 DEF FreshInv, AllAhead, Finish
<1> QED
  BY <1>4, <1>5 DEF Finish, Ahead

LEMMA FreshStep ==
    ASSUME FreshInv, NewOverride = FALSE, [Next]_vars
    PROVE  FreshInv'
<1>1. RunInv'
  BY HoldStep DEF FreshInv
<1>2. CASE RunStep \/ MarkStep \/ LeaseStep
  BY <1>1, <1>2, OthersKeepFresh DEF FreshInv
<1>3. CASE EditStep
  BY <1>1, <1>3, EditKeepsFresh DEF FreshInv
<1>4. CASE DrainStep
  <2>1. PICK d \in Drainer :
            \/ Claim(d) \/ Scan(d) \/ (\E s \in Subject : MarkNext(d, s))
            \/ Heartbeat(d) \/ Finish(d) \/ HandlerFails(d) \/ DrainDies(d)
    BY <1>4 DEF DrainStep
  <2>2. ASSUME NEW e \in Drainer, (step[e] # "idle")', Fenced(e)', NEW s \in Subject, Old(s)'
        PROVE  Ahead(e, s)'
    <3>1. CASE e = d
      BY <2>1, <2>2, <3>1, DrainKeepsAhead
    <3>2. CASE e # d
      <4>1. UNCHANGED <<step[e], claim[e], last[e], page[e], full[e]>> /\ Fenced(e)
        BY <2>1, <2>2, <3>2, DrainFence DEF FreshInv, RunInv, TypedInv
      <4>2. Old(s)
        BY <1>4, <2>2, OldShrinks DEF FreshInv
      <4> QED
        BY <2>2, <4>1, <4>2, Untouched
    <3> QED
      BY <3>1, <3>2
  <2>3. AllAhead'
    BY <2>2 DEF AllAhead
  <2> QED
    BY <1>1, <2>1, <2>3, DrainKeepsCurrent DEF FreshInv
<1>5. CASE UNCHANGED vars
  BY <1>1, <1>5 DEF FreshInv, AllAhead, Ahead, Fenced, Owns, Old, Effective, FreshMeansCurrent,
         vars, policyVars, resultVars, drainVars
<1> QED
  BY <1>2, <1>3, <1>4, <1>5, NextParts

\* Once no request is pending, a result that looks fresh comes from the policy in force, for
\* any number of subjects, runs, drains and edits, if no override row is created: with one,
\* the code lets a run in flight miss it.
THEOREM FreshResultsAreCurrent ==
    ASSUME NewOverride = FALSE
    PROVE  Spec => []FreshMeansCurrent
<1>1. Init => FreshInv
  <2>1. Init => TypeOK /\ SawRead
    BY TypedInit DEF SawRead, Init
  <2>2. Init => RunsHold /\ AllAhead /\ FreshMeansCurrent
    BY DEF Init, RunsHold, Holds, AllAhead, FreshMeansCurrent
  <2> QED
    BY <2>1, <2>2 DEF FreshInv, RunInv, TypedInv
<1>2. FreshInv /\ [Next]_vars => FreshInv'
  BY FreshStep
<1>3. FreshInv => FreshMeansCurrent
  BY DEF FreshInv
<1> QED
  BY <1>1, <1>2, <1>3, PTL DEF Spec

-----------------------------------------------------------------------------
(* One drain works on a request *)

\* The drain e works on the request as it is now.
Current(e) ==
    /\ request.there /\ step[e] # "idle"
    /\ claim[e].id = request.id /\ claim[e].version = request.version

LEMMA EditOutdates ==
    ASSUME LeaseInv, EditStep, NEW e \in Drainer, step[e] # "idle"
    PROVE  /\ ~Current(e)'
           /\ \/ claim'[e].id < request'.id
              \/ claim'[e].id = request'.id /\ claim'[e].version <= request'.version
<1>1. Request /\ UNCHANGED <<step[e], claim[e]>>
  BY DEF EditStep, UpdateGlobal, UpdateOverride, ResetOverride, Edit, drainVars
<1>2. RequestTyped /\ DrainsTyped
  BY TypeParts DEF LeaseInv, TypedInv
<1>3. /\ request.id \in Nat /\ request.version \in Nat
      /\ claim[e].id \in Nat /\ claim[e].version \in Nat
  BY <1>2 DEF RequestTyped, DrainsTyped
<1>4. \/ claim[e].id < request.id
      \/ claim[e].id = request.id /\ claim[e].version <= request.version
  BY DEF LeaseInv, ClaimsArePast
<1>5. CASE request.there
  <2>1. request' = [[[request EXCEPT !.version = request.version + 1] EXCEPT
                         !.token = None] EXCEPT !.leased = FALSE]
    BY <1>1, <1>5 DEF Request
  <2>2. request'.id = request.id /\ request'.version = request.version + 1
    BY <1>2, <2>1 DEF RequestTyped
  <2> QED
    BY <1>1, <1>3, <1>4, <2>2 DEF Current
<1>6. CASE ~request.there
  <2>1. request'.id = request.id + 1
    BY <1>1, <1>6 DEF Request
  <2> QED
    BY <1>1, <1>3, <1>4, <2>1 DEF Current
<1> QED
  BY <1>5, <1>6

LEMMA EditKeepsLease ==
    ASSUME LeaseInv, EditStep
    PROVE  (ClaimsArePast /\ WorkersLease /\ OneDrainPerRequest)'
<1>1. UNCHANGED <<drainVars, overruns>>
  BY DEF EditStep, UpdateGlobal, UpdateOverride, ResetOverride, Edit, faultVars
<1>2. ClaimsArePast'
  BY <1>1, EditOutdates DEF ClaimsArePast, drainVars
<1>3. WorkersLease'
  BY <1>1, EditOutdates DEF WorkersLease, Current, drainVars
<1>4. OneDrainPerRequest'
  BY <1>1 DEF LeaseInv, OneDrainPerRequest, drainVars
<1> QED
  BY <1>2, <1>3, <1>4

LEMMA LeaseEnds ==
    ASSUME LeaseInv, LeaseStep
    PROVE  (ClaimsArePast /\ WorkersLease /\ OneDrainPerRequest)'
<1>1. UNCHANGED drainVars /\ request' = [request EXCEPT !.leased = FALSE]
  BY DEF LeaseStep, DeadLeaseEnds, LeaseOverrun, LeaseRunsOut
<1>2. RequestTyped /\ overruns \in Nat
  BY TypeParts DEF LeaseInv, TypedInv, RowsTyped
<1>3. UNCHANGED <<request.there, request.id, request.version, request.token>>
  BY <1>1, <1>2 DEF RequestTyped
<1>4. ClaimsArePast'
  BY <1>1, <1>3 DEF LeaseInv, ClaimsArePast, drainVars
<1>5. CASE DeadLeaseEnds
  <2>1. overruns' = overruns
    BY <1>5 DEF DeadLeaseEnds, faultVars
  <2>2. WorkersLease'
    <3> SUFFICES ASSUME NEW d \in Drainer, overruns' = 0, Current(d)'
                 PROVE  FALSE
      BY DEF WorkersLease, Current
    <3>1. Current(d)
      BY <1>1, <1>3 DEF Current, drainVars
    <3>2. request.token = d
      BY <2>1, <3>1 DEF LeaseInv, WorkersLease, Current
    <3> QED
      BY <1>5, <3>1, <3>2 DEF DeadLeaseEnds, WorkedOn, Owns, Current
  <2>3. OneDrainPerRequest'
    BY <1>1, <2>1 DEF LeaseInv, OneDrainPerRequest, drainVars
  <2> QED
    BY <1>4, <2>2, <2>3
<1>6. CASE LeaseOverrun
  <2>1. overruns' = overruns + 1
    BY <1>6 DEF LeaseOverrun
  <2>2. overruns' > 0 /\ overruns' # 0
    BY <1>2, <2>1
  <2>3. WorkersLease' /\ OneDrainPerRequest'
    BY <2>2 DEF WorkersLease, OneDrainPerRequest
  <2> QED
    BY <1>4, <2>3
<1> QED
  BY <1>5, <1>6 DEF LeaseStep

\* What a drain's step makes of the request.
LEMMA DrainRequest ==
    ASSUME TypeOK, NEW d \in Drainer,
           \/ Claim(d) \/ Scan(d) \/ (\E s \in Subject : MarkNext(d, s))
           \/ Heartbeat(d) \/ Finish(d) \/ HandlerFails(d) \/ DrainDies(d)
    PROVE  /\ UNCHANGED <<request.id, request.version, overruns>>
           /\ request'.there => request.there
           /\ \/ Claim(d) /\ request'.token = d /\ request'.leased = TRUE
              \/ Owns(d) /\ request'.token = d /\ request'.leased = TRUE
              \/ Owns(d) /\ step'[d] = "idle"
              \/ ~Claim(d) /\ UNCHANGED <<request.token, request.leased>>
<1> USE ChecksAssumption
<1>1. RequestTyped /\ DrainsTyped
  BY TypeParts
<1>2. overruns' = overruns
  BY DEF Claim, Scan, MarkNext, Heartbeat, Finish, HandlerFails, DrainDies, Fault, faultVars
<1>3. CASE Claim(d)
  <2>1. request' = [request EXCEPT !.token = d, !.leased = TRUE]
    BY <1>3 DEF Claim
  <2>2. UNCHANGED <<request.id, request.version, request.there>>
    BY <1>1, <2>1 DEF RequestTyped
  <2>3. request'.token = d
    BY <1>1, <2>1 DEF RequestTyped
  <2>4. request'.leased = TRUE
    BY <1>1, <2>1 DEF RequestTyped
  <2> QED
    BY <1>2, <1>3, <2>2, <2>3, <2>4
<1>4. CASE Owns(d) /\ request' = [request EXCEPT !.leased = TRUE]
  <2>1. UNCHANGED <<request.id, request.version, request.there, request.token>>
    BY <1>1, <1>4 DEF RequestTyped
  <2>2. request'.leased = TRUE
    BY <1>1, <1>4 DEF RequestTyped
  <2> QED
    BY <1>2, <1>4, <2>1, <2>2 DEF Owns
<1>5. CASE Owns(d) /\ step'[d] = "idle" /\ request' = Gone
  <2>1. UNCHANGED <<request.id, request.version>>
    BY <1>1, <1>5 DEF RequestTyped, Gone
  <2>2. ~request'.there
    BY <1>1, <1>5 DEF RequestTyped, Gone
  <2> QED
    BY <1>2, <1>5, <2>1, <2>2
<1>6. CASE Owns(d) /\ step'[d] = "idle" /\
           request' = [request EXCEPT !.token = None, !.leased = FALSE]
  <2>1. UNCHANGED <<request.id, request.version, request.there>>
    BY <1>1, <1>6 DEF RequestTyped
  <2> QED
    BY <1>2, <1>6, <2>1
<1>7. CASE ~Claim(d) /\ request' = request
  BY <1>2, <1>7
<1>8. DrainEnds(d) => step'[d] = "idle"
  BY <1>1 DEF DrainEnds, DrainsTyped
<1> QED
  BY <1>3, <1>4, <1>5, <1>6, <1>7, <1>8 DEF Scan, MarkNext, Heartbeat, Finish, HandlerFails,
         DrainDies, Fenced

LEMMA DrainKeepsLease ==
    ASSUME LeaseInv, NEW d \in Drainer,
           \/ Claim(d) \/ Scan(d) \/ (\E s \in Subject : MarkNext(d, s))
           \/ Heartbeat(d) \/ Finish(d) \/ HandlerFails(d) \/ DrainDies(d)
    PROVE  (ClaimsArePast /\ WorkersLease /\ OneDrainPerRequest)'
<1> USE ChecksAssumption
<1>1. TypeOK /\ RequestTyped /\ DrainsTyped
  BY TypeParts DEF LeaseInv, TypedInv
<1>2. /\ UNCHANGED <<request.id, request.version, overruns>>
      /\ request'.there => request.there
  BY <1>1, DrainRequest
<1>3. \A e \in Drainer : e # d => UNCHANGED <<step[e], claim[e]>>
  BY <1>1, DrainFence
<1>4. \/ step'[d] = "idle"
      \/ step[d] # "idle" /\ claim'[d] = claim[d]
      \/ Claim(d)
  BY <1>1 DEF Scan, MarkNext, Heartbeat, Finish, HandlerFails, DrainDies, DrainEnds, DrainsTyped
<1>5. Claim(d) => request.there /\ ~request.leased /\ claim'[d].id = request.id
                  /\ claim'[d].version = request.version
  BY <1>1 DEF Claim, Claimable, DrainsTyped
<1>6. ClaimsArePast'
  <2> SUFFICES ASSUME NEW e \in Drainer, step'[e] # "idle"
               PROVE  \/ claim'[e].id < request'.id
                      \/ claim'[e].id = request'.id /\ claim'[e].version <= request'.version
    BY DEF ClaimsArePast
  <2>1. CASE e = d /\ Claim(d)
    <3>1. request.version <= request.version
      BY <1>1 DEF RequestTyped
    <3> QED
      BY <1>2, <1>5, <2>1, <3>1
  <2>2. CASE step[e] # "idle" /\ claim'[e] = claim[e]
    BY <1>2, <2>2 DEF LeaseInv, ClaimsArePast
  <2> QED
    BY <1>3, <1>4, <2>1, <2>2
<1>7. WorkersLease'
  <2> SUFFICES ASSUME NEW e \in Drainer, overruns' = 0, Current(e)'
               PROVE  request'.token = e /\ request'.leased = TRUE
    BY <1>1 DEF WorkersLease, Current
  <2>1. ASSUME step[e] # "idle", claim'[e] = claim[e]
        PROVE  request.token = e /\ request.leased = TRUE
    BY <1>1, <1>2, <2>1 DEF Current, LeaseInv, WorkersLease, RequestTyped
  <2>2. CASE Claim(d)
    <3>1. e = d
      BY <1>1, <1>3, <1>5, <2>1, <2>2 DEF Current
    <3>2. request'.token = d /\ request'.leased = TRUE
      BY <1>1, <2>2 DEF Claim, RequestTyped
    <3> QED
      BY <3>1, <3>2
  <2>3. CASE ~Claim(d)
    <3>1. step[e] # "idle" /\ claim'[e] = claim[e]
      BY <1>3, <1>4, <2>3 DEF Current
    <3>2. request.token = e /\ request.leased = TRUE
      BY <2>1, <3>1
    <3>3. e # d => ~Owns(d)
      BY <3>2 DEF Owns
    <3>4. ~(Owns(d) /\ step'[d] = "idle")
      BY <3>3 DEF Current
    <3>5. \/ Owns(d) /\ request'.token = d /\ request'.leased = TRUE
          \/ UNCHANGED <<request.token, request.leased>>
      BY <1>1, <2>3, <3>4, DrainRequest
    <3> QED
      BY <3>2, <3>3, <3>5
  <2> QED
    BY <2>2, <2>3
<1>8. OneDrainPerRequest'
  <2> SUFFICES ASSUME NEW e \in Drainer, NEW f \in Drainer, e # f,
                      step'[e] # "idle", step'[f] # "idle", claim'[e] = claim'[f],
                      ~(overruns' > 0)
               PROVE  FALSE
    BY DEF OneDrainPerRequest
  <2>1. overruns = 0 /\ ~(overruns > 0)
    BY <1>2, TypeParts DEF LeaseInv, TypedInv, RowsTyped
  <2>2. ASSUME NEW g \in Drainer, g # d, step'[g] # "idle", Claim(d)
        PROVE  claim'[g] # claim'[d]
    <3>1. SUFFICES ASSUME claim'[g] = claim'[d] PROVE FALSE
      OBVIOUS
    <3>2. claim[g].id = request.id /\ claim[g].version = request.version /\ step[g] # "idle"
      BY <1>3, <1>5, <2>2, <3>1
    <3>3. request.leased
      BY <1>5, <2>1, <2>2, <3>2 DEF LeaseInv, WorkersLease
    <3> QED
      BY <1>5, <2>2, <3>3
  <2>3. ~Claim(d)
    <3>1. CASE e # d /\ f # d
      BY <1>3, <2>1, <3>1 DEF LeaseInv, OneDrainPerRequest
    <3>2. CASE e = d \/ f = d
      BY <2>2, <3>2
    <3> QED
      BY <3>1, <3>2
  <2>4. step[e] # "idle" /\ claim'[e] = claim[e] /\ step[f] # "idle" /\ claim'[f] = claim[f]
    BY <1>3, <1>4, <2>3
  <2> QED
    BY <2>1, <2>4 DEF LeaseInv, OneDrainPerRequest
<1> QED
  BY <1>6, <1>7, <1>8

LEMMA LeaseStepwise ==
    ASSUME LeaseInv, [Next]_vars
    PROVE  LeaseInv'
<1>1. TypedInv'
  BY TypedStep DEF LeaseInv
<1>2. CASE EditStep
  BY <1>1, <1>2, EditKeepsLease DEF LeaseInv
<1>3. CASE LeaseStep
  BY <1>1, <1>3, LeaseEnds DEF LeaseInv
<1>4. CASE DrainStep
  BY <1>1, <1>4, DrainKeepsLease DEF LeaseInv, DrainStep
<1>5. CASE RunStep \/ MarkStep \/ UNCHANGED vars
  <2>1. UNCHANGED <<drainVars, request, overruns>>
    BY <1>5 DEF RunStep, RunBegin, ReadGlobal, ReadOverride, RunCommit, RunRollback, MarkStep,
                MarkStale, vars, faultVars
  <2>2. (ClaimsArePast /\ WorkersLease /\ OneDrainPerRequest)'
    BY <2>1 DEF LeaseInv, ClaimsArePast, WorkersLease, OneDrainPerRequest, drainVars
  <2> QED
    BY <1>1, <2>2 DEF LeaseInv
<1> QED
  BY <1>2, <1>3, <1>4, <1>5, NextParts

\* Two drains work on one version of the request only after a lease ran out under its owner,
\* for any number of drains, crashes, failing handlers and repeated requests.
THEOREM OneDrainWorks == Spec => []OneDrainPerRequest
<1>1. Init => LeaseInv
  <2>1. Init => TypedInv
    BY TypedInit DEF TypedInv, SawRead, Init
  <2>2. Init => ClaimsArePast /\ WorkersLease /\ OneDrainPerRequest
    BY DEF Init, ClaimsArePast, WorkersLease, OneDrainPerRequest
  <2> QED
    BY <2>1, <2>2 DEF LeaseInv
<1>2. LeaseInv /\ [Next]_vars => LeaseInv'
  BY LeaseStepwise
<1>3. LeaseInv => OneDrainPerRequest
  BY DEF LeaseInv
<1> QED
  BY <1>1, <1>2, <1>3, PTL DEF Spec

=============================================================================
