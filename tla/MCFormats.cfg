CONSTANTS
    Normal <- MCNormal
    Refused = {"", "bad!"}
    Disks <- MCDisks
    Slots <- MCSlots
    MaxRuns = 2
SPECIFICATION Spec
CHECK_DEADLOCK FALSE
INVARIANTS
    SubtasksClosed
    OwnedOnce
    ConstraintsHold
    GenGenFaithful
    ReadAgainSame
PROPERTY
    OnlyGeneratedTouched
