SPECIFICATION Spec
CONSTANTS
    k1 = k1
    k2 = k2
    k3 = k3
    k4 = k4
    k5 = k5
    Keys = {k1, k2, k3, k4, k5}
    Data = {1, 2, 3, 4, 5, 6}
    DataOf <- MCDataOf
    Sought = {k2}
    None = None
    Hash <- MCHash
    Secondary <- MCSecondary
    Entries = 3
    BucketEntries = 1
    MaxPushes = 2
    BfsMax = 6
    CacheSize = 1
    MaxLcores = 2
    AddKeyCases = {"SINGLEWRITER", "SINGLEWRITER_TM", "MULTIWRITER_TM"}
    MaxAborts = 1
    MaxCalls = 4
INVARIANTS
    SlotsExact
    LookupIsHonest
PROPERTIES
    ImplementsMap
