SPECIFICATION Spec
CONSTANTS
    SeqSpace = 16
    Mbufs = {m1, m2, m3, m4}
    NULL = NULL
    RingSize = 4
    InitWindow = 4
    InitSeq = 13
    Modes <- OneGap
    Lens = {1}
    MaxEvents = 4
SYMMETRY MbufSymmetry
INVARIANTS
    MergedIsAvailable
CHECK_DEADLOCK FALSE
