CONSTANTS
    Modules = {"a", "b", "c", "d", "e", "r", "x", "cell"}
    Cells = {"cell"}
    Declarations = {"d"}
    Clashes <- MCClashes
    Imports <- MCImports
    Redirect <- MCRedirect
    Loads = {1, 2}
    Entries = {"a", "c", "d", "e", "x", "cell"}
    MAX_MODULES = 4
    MaxPending = 2
    MaxRegistered = 2
    MaxFaults = 1
SPECIFICATION Spec
CHECK_DEADLOCK FALSE
INVARIANTS
    RegisteredWhole
    FailuresStayLocal
PROPERTIES
    LoadsSettle
