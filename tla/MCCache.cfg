SPECIFICATION CacheSpec
CONSTANTS
    Measured = {"cpu", "sys", "wall", "memory"}
    CpuTime = "cpu"
    SysTime = "sys"
    WallTime = "wall"
    Second = 2
    Unsigned = {"memory"}
    Hard = {"stack"}
    Power = {"fork", "dir1", "dir2", "proc"}
    Directory = {"dir1", "dir2"}
    Ignored = {"proc"}
    Programs <- MCPrograms
    Queries <- MCQueries
    Inf = Inf
    Usage <- MCUsage
    MaxEntries = 2
    MaxRunning = 2
    MaxLoads = 1
INVARIANTS
    HitIsRight
    NoNeedlessRun
\* nothing is left to run when all that fits is in the cache
CHECK_DEADLOCK FALSE
