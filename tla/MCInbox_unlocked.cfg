SPECIFICATION Spec
CONSTANTS
    e1 = e1
    e2 = e2
    e3 = e3
    a1 = a1
    Event = {e1, e2}
    Entity = {a1}
    Worker = {w1, w2}
    Operator = {}
    EntityOf <- MCEntityOf
    VersionOf <- MCVersionOf
    MaxVersion = 2
    Rejected = {}
    Undecodable = {}
    BatchCapable = FALSE
    MaxCrashes = 0
    NoWorker = NoWorker
    NoEvent = NoEvent
CHECK_DEADLOCK FALSE
PROPERTY NeverRegress
