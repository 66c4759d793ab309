SPECIFICATION Spec
CONSTANTS
    Subject = {1, 2}
    Branch = {1}
    Runner = {r1}
    Drainer = {d1, d2}
    PageSize = 1
    OverrideRow = FALSE
    NewOverride = TRUE
    MaxEdits = 2
    MaxFaults = 0
    MaxOverruns = 0
    None = None
INVARIANT FreshMeansCurrent
