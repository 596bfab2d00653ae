CONSTANTS
    Args = {a1}
    Copies = {d1}
    MaxOps = 1
SPECIFICATION Spec
CHECK_DEADLOCK FALSE
INVARIANT InFlightRetainsOperands
