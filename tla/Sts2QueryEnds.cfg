SPECIFICATION FairSpec
CONSTANTS
    MaxSets = 1
    MaxPages = 1
    MaxMessages = 0
    Window = 2
    OrphanCap = 8
    Controls = {"cancel", "dispose", "close"}
    Faults = {"lost", "sink"}
INVARIANTS
    TypeOK
    OneTerminal
    CompletionAfterSink
PROPERTIES
    ImplementsHandle
    ControlSettles
