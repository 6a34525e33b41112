\* A client of a local executor or of a server, that polls and may be stopped.
SPECIFICATION FairSpec
CONSTANTS
    Provided <- MCProvided
    Exec <- MCExec
    Produced <- MCProduced
    Needs <- MCNeeds
    Producer <- MCProducer
    ServerHas = {"source"}
    Skippable = {"eval"}
    Urgent = {"output"}
    ClientHas = {}
    Pieces = 1
    Executors = {TRUE, FALSE}
    CheckDag = {TRUE, FALSE}
    CallbackMayFail = TRUE
    MayStop = TRUE
    MayLose = TRUE
    MaxPolls = 1
    None = None
    NoFile = NoFile
INVARIANTS
    AllDelivered
PROPERTIES
    SessionEnds
    TearDown
\* a session that is over stops
CHECK_DEADLOCK FALSE
