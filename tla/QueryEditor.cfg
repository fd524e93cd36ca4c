SPECIFICATION FairSpec
CONSTANTS
    r1 = r1
    r2 = r2
    c1 = c1
    k1 = k1
    u1 = u1
    u2 = u2
    Runs = {r1, r2}
    Cancels = {c1}
    Changes = {k1}
    Uris = {u1, u2}
    MaxRunners = 2
    Faults = {"slow", "unreadable"}
INVARIANTS
    TypeOK
    SlotIsOwned
    ExecutingIsKnown
PROPERTIES
    RunSettles
    CancelFrees
CHECK_DEADLOCK FALSE
