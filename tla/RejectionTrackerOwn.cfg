CONSTANTS
    Promises = {p1, p2, p3}
    MAX_REJECTIONS = 2
    INSPECTION = {"handle", "handleOwn"}
SPECIFICATION Spec
CHECK_DEADLOCK FALSE
INVARIANTS
    ReferencesOwned
