CONSTANTS
    NumSources = 2
    Queues <- MCQueues
    Capacity = 1
SPECIFICATION Spec
INVARIANT TypeOK
INVARIANT ScreenIsHonest
PROPERTY KeepsLast
PROPERTY ReconnectRecovers
CHECK_DEADLOCK FALSE
