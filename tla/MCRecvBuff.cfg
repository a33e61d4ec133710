SPECIFICATION Spec
CONSTANTS
    SeqSpace = 16
    Mbufs = {m1, m2, m3, m4}
    NULL = NULL
    RingSize = 3
    InitWindow = 4
    InitSeq = 13
    Modes <- ThreadsAndCoroutines
    Lens = {1, 2}
    MaxEvents = 3
SYMMETRY MbufSymmetry
INVARIANTS
    AckedIsKept
    MbufsExact
    DeliveredExactly
    OooListExact
    NothingStranded
    WindowExact
CHECK_DEADLOCK FALSE
