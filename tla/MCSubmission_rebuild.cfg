\* A rebuild of a held row races a cancel.
SPECIFICATION Spec
CONSTANTS
    Row = {r1, r2, r3, r4}
    Rebuilder = {b1}
    CancelCause = {"cancel", "expire"}
    MaxReserves = 1
    MaxEdits = 0
    MaxGiveUps = 0
    MaxRequeues = 0
    MaxLost = 0
    MaxDropped = 0
    MaxRejections = 0
    NoRow = NoRow
SYMMETRY Symmetry
INVARIANT CancelIsTold
CHECK_DEADLOCK FALSE
