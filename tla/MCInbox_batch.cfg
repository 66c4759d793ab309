SPECIFICATION Spec
CONSTANTS
    e1 = e1
    e2 = e2
    e3 = e3
    a1 = a1
    Event = {e1, e2}
    Entity = {a1}
    Worker = {w1, w2}
    Operator = {}
    EntityOf <- MCEntityOf
    VersionOf <- MCVersionOf
    MaxVersion = 2
    Rejected = {}
    Undecodable = {}
    BatchCapable = TRUE
    MaxCrashes = 1
    NoWorker = NoWorker
    NoEvent = NoEvent
SYMMETRY Symmetry
CHECK_DEADLOCK FALSE
INVARIANT TypeOK
INVARIANT StateCoversProcessed
PROPERTY OnlyHolderSettles
PROPERTY SettledForGood
