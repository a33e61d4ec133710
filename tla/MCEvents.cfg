SPECIFICATION FairSpec
CONSTANTS
    NumStacks = 1
    NumStreams = 2
    StackOf <- OneStack
    NULL = NULL
    Homes = {0, NULL}
    Apis = {"qepoll_wait", "eventmgt_get"}
    QueSize = 3
    Backlog = 1
    MaxWait = 2
    Types = {"IN"}
    MaxRaised = 4
INVARIANTS
    NoEventLost
    NoLostWakeup
    HighFirst
PROPERTY EveryEventTaken
CHECK_DEADLOCK FALSE
