CONSTANTS
    Size = 4
    Items = {x, y}
    NULL = NULL
SPECIFICATION Spec
INVARIANTS
    NoSlotRace
PROPERTIES
    ImplementsFifo
