SPECIFICATION Spec
CONSTANTS
    SeqSpace = 16
    MaxPuts = 3
    Lens = {1, 2}
    Priorities = {0, 1}
    QueueSize = 2
    EventSize = 1
    InitSeq = 13
    InitWnd = 4
    MaxRtx = 1
    DupSpace = 4
    Modes <- ThreadsAndCoroutines
INVARIANTS
    InOneList
    SameBytesSameNumbers
    NeverStuck
    RoomExact
CHECK_DEADLOCK FALSE
