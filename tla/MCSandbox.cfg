CONSTANTS
    Operations = {o1, o2, o3}
    Cleanups = {o3}
    InlineOnly = {o2}
    CAPACITY = 1
SPECIFICATION MCSpec
CHECK_DEADLOCK FALSE
INVARIANTS
    SlotsAccounted
    ClosedTogether
    WorkerRequestsTravelOnce
PROPERTIES
    NoLateValue
    ImplementsService
    OperationSettles
