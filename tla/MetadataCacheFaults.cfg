SPECIFICATION FairSpec
CONSTANTS
    s1 = s1
    s2 = s2
    k1 = k1
    Savers = {s1, s2}
    Readers = {}
    Cleaners = {k1}
    Contents = {1}
    Instants = {1}
    Ahead = {}
    Faults = {"crash", "io", "damage"}
INVARIANTS
    LockIsReleased
PROPERTIES
    CacheSettles
CHECK_DEADLOCK FALSE
