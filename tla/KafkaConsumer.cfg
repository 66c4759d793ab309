\* A destroyed service stops.
CONSTANTS StartCrash = FALSE MaxAttempt = 7
SPECIFICATION FairSpec
INVARIANTS TypeOK OneBuild NeverUnwatched
PROPERTY ComesBack
CHECK_DEADLOCK FALSE
