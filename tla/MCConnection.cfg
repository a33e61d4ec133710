SPECIFICATION FairSpec
CONSTANTS
    MaxConns = 2
    MaxData = 2
    MaxRtx = 1
    MaxEvents = 1
INVARIANTS
    OneTimerList
    NotForgotten
    OrderlyEndIsComplete
PROPERTY ClosedEnds
CHECK_DEADLOCK FALSE
