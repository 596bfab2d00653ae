CONSTANTS
    MaxBody = 2
    MaxRedirects = 1
    ItemSizes = {2}
    MaxLost = 1
SPECIFICATION Spec
CHECK_DEADLOCK FALSE
INVARIANTS
    BodiesFaithful
    FreedTogether
    NoDemandLost
PROPERTIES
    FetchEnds
