\* A solution tried on two batches of two testcases.
SPECIFICATION FairSpec
CONSTANTS
    BatchSize = 2
    MaxBatches = 2
    Tasks <- MCTasks
    Local = TRUE
    None = None
INVARIANTS
    ReportedIsBad
    FoundUnlessLate
PROPERTIES
    SearchEnds
\* after the last batch of the bound main waits for a reason to stop
CHECK_DEADLOCK FALSE
