CONSTANT MaxGlobals = 2
SPECIFICATION StartupSpec
CHECK_DEADLOCK FALSE
INVARIANTS
    ResolvedIsUsable
    TimeoutDoesNotLeak
PROPERTY StartupEnds
