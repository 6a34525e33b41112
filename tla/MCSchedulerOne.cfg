SPECIFICATION FairSpec
CONSTANTS
    Client = {"alice"}
    Worker = {w1, w2}
    Group = {"comp", "run", "check"}
    File = {"src", "in", "exe", "log", "out"}
    CacheKey = {"kcomp", "krun", "kcheck"}
    Tag = {"evaluation"}
    NoJob = NoJob
    NoTag = NoTag
    Owner <- MCOwner
    FileOwner <- MCFileOwner
    Provided <- MCProvided
    Deps <- MCDeps
    Outs <- MCOuts
    WatchedGroups = {"comp", "run", "check"}
    WatchedFiles = {"exe", "out"}
    KeyOf <- MCKeyOf
    NoCache = {}
    ExceptTags <- MCExceptTags
    TagOf <- MCTagOf
    DagPriority <- MCDagPriority
    Priority <- MCPriority
    HighPriority = 2
    InitCaches <- MCAnyCache
    MayLeave = {"alice"}
    MayDie = {}
    MayExit = FALSE
PROPERTY
    EvaluationCompletes
CHECK_DEADLOCK FALSE
