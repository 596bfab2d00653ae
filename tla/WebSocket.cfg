CONSTANTS
    MaxBuffered = 3
    MaxQueued = 2
    SendSizes = {1, 4}
    MessageSizes = {2}
    MaxSends = 1
    MaxMessages = 2
    MaxPolls = 1
    MaxLost = 2
SPECIFICATION Spec
CHECK_DEADLOCK FALSE
INVARIANTS
    BufferedAmountCovers
    EventsInOrder
    RacesAnswered
PROPERTIES
    BothEndsClose
