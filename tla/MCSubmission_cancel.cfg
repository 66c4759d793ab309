\* One reservation cycle: publishing with failures and requeues, cancels, expiry,
\* line edits, rejections and every answer of the ERP.  A settled order may stop.
SPECIFICATION Spec
CONSTANTS
    Row = {r1, r2, r3, r4}
    Rebuilder = {}
    CancelCause = {"cancel", "expire"}
    MaxReserves = 1
    MaxEdits = 2
    MaxGiveUps = 1
    MaxRequeues = 2
    MaxLost = 0
    MaxDropped = 1
    MaxRejections = 1
    NoRow = NoRow
SYMMETRY Symmetry
INVARIANTS TypeOK CancelIsTold NothingSentAfterCancel
CHECK_DEADLOCK FALSE
