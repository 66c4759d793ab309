SPECIFICATION FairSpec
CONSTANTS
    e1 = e1
    e2 = e2
    e3 = e3
    a1 = a1
    Event = {e1, e3}
    Entity = {a1}
    Worker = {w1}
    Operator = {o1, o2}
    EntityOf <- MCEntityOf
    VersionOf <- MCVersionOf
    MaxVersion = 2
    Rejected = {e3}
    Undecodable = {}
    BatchCapable = FALSE
    MaxCrashes = 1
    NoWorker = NoWorker
    NoEvent = NoEvent
CHECK_DEADLOCK FALSE
INVARIANT ResolvedByReplayedEvent
INVARIANT AnsweredReplayIsClosed
PROPERTY EveryRowSettles
PROPERTY EveryReplayEnds
