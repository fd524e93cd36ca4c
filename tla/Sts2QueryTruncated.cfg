SPECIFICATION Spec
CONSTANTS
    MaxSets = 2
    MaxPages = 2
    MaxMessages = 1
    Window = 2
    OrphanCap = 2
    Controls = {}
    Faults = {}
INVARIANTS
    SucceededIsWhole
CHECK_DEADLOCK FALSE
