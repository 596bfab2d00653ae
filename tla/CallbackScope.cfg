CONSTANTS
    Args = {a1, a2}
    Copies = {d1, d2, d3}
    MaxOps = 3
SPECIFICATION Spec
CHECK_DEADLOCK FALSE
INVARIANTS
    ReturnedHandleConverts
    AwaitedOperationsSucceed
PROPERTY SettlementArrives
