SPECIFICATION FairSpec
CONSTANTS
    Subject = {1, 2}
    Branch = {1}
    Runner = {r1}
    Drainer = {d1, d2}
    PageSize = 1
    OverrideRow = TRUE
    NewOverride = FALSE
    MaxEdits = 1
    MaxFaults = 1
    MaxOverruns = 1
    None = None
INVARIANTS TypeOK FreshMeansCurrent OneDrainPerRequest
PROPERTY RequestIsServed
