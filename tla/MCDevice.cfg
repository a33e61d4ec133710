SPECIFICATION Spec
CONSTANTS
    None = None
    r1 = r1
    r2 = r2
    s1 = s1
    u0 = u0
    u1 = u1
    Cores = {0, 1}
    Rx <- MCRx
    Sw <- MCSw
    Uw <- MCUw
    MAX_RECV_BATCH = 1
    MAX_PKT_TX_BURST = 2
    MAX_TX_CHECK_BATCH = 2
    FreeSize = 1
    Descriptors = 2
    MaxRefs = 2
    MaxStall = 1
    MaxQueued = 4
CONSTRAINT Bounded
INVARIANTS
    OneUser
    MbufsAccounted
    BurstsExact
CHECK_DEADLOCK FALSE
