SPECIFICATION Spec
CONSTANTS
    Client = {"alice", "bob"}
    Worker = {w1, w2}
    Group = {"comp", "run", "check", "comp2", "probe"}
    File = {"src", "in", "exe", "log", "out", "src2", "exe2"}
    CacheKey = {"kcomp", "krun", "kcheck", "kprobe"}
    Tag = {"evaluation"}
    NoJob = NoJob
    NoTag = NoTag
    Owner <- MCOwner
    FileOwner <- MCFileOwner
    Provided <- MCProvided
    Deps <- MCDeps
    Outs <- MCOuts
    WatchedGroups = {"comp", "run", "check", "comp2"}
    WatchedFiles = {"exe", "log", "out", "exe2"}
    KeyOf <- MCKeyOf
    NoCache = {}
    ExceptTags <- MCExceptTags
    TagOf <- MCTagOf
    DagPriority <- MCDagPriority
    Priority <- MCPriority
    HighPriority = 2
    InitCaches <- MCAnyCache
    MayLeave = {"alice"}
    MayDie = {w1}
    MayExit = TRUE
INVARIANTS
    GroupLifecycle
    WorkerJobsConsistent
    InputsAvailable
    NoLostWakeup
    Reports
CHECK_DEADLOCK FALSE
PROPERTY ImplementsDagEvaluation
