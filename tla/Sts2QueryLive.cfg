SPECIFICATION FairSpec
CONSTANTS
    MaxSets = 2
    MaxPages = 2
    MaxMessages = 0
    Window = 1
    OrphanCap = 8
    Controls = {"cancel", "dispose"}
    Faults = {"lost"}
PROPERTIES
    QuerySettles
