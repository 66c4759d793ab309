SPECIFICATION ReplicaSpec
CONSTANTS
    Move = {"Cancelled"}
    Fact = {"own", "seen"}
    Witnessed = {"seen"}
    OwnerHandler = {"o1"}
    ReplicaHandler = {"r1", "r2"}
    MaxTry = 2
    MaxCopies = 1
    MaxFault = 2
CHECK_DEADLOCK FALSE
INVARIANTS TypeOK OneReplica NothingDropped
PROPERTIES EveryMessageEnds
