\* Two reservation cycles with holds and a rebuild that races the listener.
\* A sent order may stop.
SPECIFICATION FairSpec
CONSTANTS
    Row = {r1, r2, r3}
    Rebuilder = {b1}
    CancelCause = {"cancel"}
    MaxReserves = 2
    MaxEdits = 0
    MaxGiveUps = 0
    MaxRequeues = 0
    MaxLost = 1
    MaxDropped = 0
    MaxRejections = 0
    NoRow = NoRow
INVARIANT OneSubmission
PROPERTY OwedSendIsSent
CHECK_DEADLOCK FALSE
