\* Three jobs of two transactions at a time, on two orders of one counterparty.  Jobs
\* are bounded, so the system stops.
CONSTANTS
    o1 = o1  o2 = o2  r1 = r1  r2 = r2  r3 = r3  w1 = w1  w2 = w2
    None = None
    Order = {o1, o2}
    Doc = {1, 2, 3}
    Ref = {r1, r2}
    Stub = {r2}
    Amount = {1, 2}
    Outcome = {"captured", "pending", "failed"}
    Worker = {w1, w2}
    LateRequest = FALSE
    MaxJobs = 3
    MaxFaults = 1
SPECIFICATION Spec
SYMMETRY Symmetry
INVARIANTS TypeOK NeverOverpaid PaidMeansCovered OneCurrentVersion NoMoneyIgnored
    CancelledOrderIsClosed DeadlockNeedsDisorder
PROPERTIES FinalStaysFinal ImplementsLedger
CHECK_DEADLOCK FALSE
