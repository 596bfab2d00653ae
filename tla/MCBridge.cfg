CONSTANTS
    HANDLE_SLOTS = 2
    MAX_GENERATION = 2
    Values = {v1, v2}
    MAX_CALLBACKS = 2
    MaxArgs = 1
    MaxCalls = 2
SYMMETRY ValueSymmetry
SPECIFICATION Spec
CHECK_DEADLOCK FALSE
INVARIANTS
    TableTypeOK
    OneOwner
    WatchesFaithful
    OutstandingIsSent
PROPERTIES
    BorrowedUntilSettled
    KeepsHandleSpace
    StaleReleaseIsHarmless
