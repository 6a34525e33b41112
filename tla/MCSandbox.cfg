CONSTANTS
    Groups <- MCGroups
    Tries = 2
SPECIFICATION FairSpec
CHECK_DEADLOCK FALSE
INVARIANTS
    SomebodyBlamed
    BoxInUse
PROPERTY
    GroupEnds
