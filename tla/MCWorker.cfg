\* The worker dies, clients leave and the scheduler exits, at any time.
SPECIFICATION FairSpec
CONSTANTS
    Job <- MCJob
    File <- MCFile
    Key <- MCKey
    Deps <- MCDeps
    Outs <- MCOuts
    KeyOf <- MCKeyOf
    WorkerHas = {}
    ServerHas = {"main", "text"}
    Pieces = 1
    MayDie = TRUE
    MayStop = TRUE
    MayExit = TRUE
    NoJob = NoJob
    NoKey = NoKey
INVARIANTS
    ViewIsRight
PROPERTIES
    JobsAnswered
    ShutDown
\* a worker without jobs waits, and one that is over stops
CHECK_DEADLOCK FALSE
