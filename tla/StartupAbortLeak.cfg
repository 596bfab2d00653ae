CONSTANT MaxGlobals = 0
SPECIFICATION StartupSpec
CHECK_DEADLOCK FALSE
INVARIANT FailedStartupDoesNotLeak
