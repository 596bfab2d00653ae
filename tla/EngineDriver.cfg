CONSTANTS
    Requests = {r1, r2}
    Calls = {c1}
    TIMEOUT = 3
    SLICE = 1
    MAX_SLICE_TURNS = 2
    BATCH = 1
    MAX_BATCHES = 2
    MaxStep = 3
SPECIFICATION Spec
INVARIANTS
    Accounted
    WorkIsScheduled
    ExpiryCovers
    TimeoutMeansOverdue
PROPERTIES
    CauseReachesAll
    EverythingEnds
    HostTimersRun
