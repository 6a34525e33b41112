SPECIFICATION Spec
CONSTANTS
    Tasks <- MCTasks
    Statuses = {"Success", "ReturnCode", "WallTimeLimitExceeded"}
    ToolStatuses = {"Success", "ReturnCode", "InternalError"}
    Printed <- MCPrinted
    \* all the scores are multiples of 3, so that averages of three are exact
    One = 12
    Tolerance = 4
    Epsilon = 3
    Overwrite = {TRUE, FALSE}
INVARIANTS
    ScoreIsRight
    VerdictMatchesScore
    FailureShown
    OnlyValidInputs
    WrittenChecksHold
    ExportBoundsScore
\* a finished or failed evaluation stops
CHECK_DEADLOCK FALSE
