SPECIFICATION Spec
CONSTANTS
    c1 = c1
    Calls = {c1}
    MaxDdl = 1
    MaxRefreshes = 1
    BackoffSteps = 1
    Events = {"hang", "rename", "definition", "offline"}
    MaxFaults = 1
INVARIANTS
    TypeOK
    OneQueryPerSession
    WaitersAreServed
    DefinitionIsOfGeneration
PROPERTIES
    SnapshotNeverRegresses
CHECK_DEADLOCK FALSE
