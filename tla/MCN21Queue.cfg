CONSTANTS
    N = 3
    Capacity = 2
    Items = {x}
    NULL = NULL
SPECIFICATION Spec
INVARIANTS
    BoundedBypass
PROPERTIES
    NullIsHonest
