SPECIFICATION FairSpec
CONSTANTS
    Limit = 2
    MaxRequests = 3
    MayKill = TRUE
INVARIANTS
    KeeperInSync
    VerdictComplete
PROPERTIES
    JobEnds
\* a job that is over stops
CHECK_DEADLOCK FALSE
