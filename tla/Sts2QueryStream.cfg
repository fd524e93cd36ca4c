SPECIFICATION Spec
CONSTANTS
    MaxSets = 2
    MaxPages = 2
    MaxMessages = 1
    Window = 2
    OrphanCap = 10
    Controls = {}
    Faults = {"sink", "gap", "duplicate"}
INVARIANTS
    PagesInOrder
    AckedIsDurable
    SucceededIsWhole
