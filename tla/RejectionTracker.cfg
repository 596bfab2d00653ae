CONSTANTS
    Promises = {p1, p2, p3}
    MAX_REJECTIONS = 2
    INSPECTION = {"reject", "handle", "work"}
SPECIFICATION Spec
CHECK_DEADLOCK FALSE
INVARIANTS
    ReferencesOwned
PROPERTIES
    OnlyUnhandledReported
    ReportedInTheEnd
