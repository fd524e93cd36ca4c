SPECIFICATION Spec
CONSTANTS
    s1 = s1
    s2 = s2
    r1 = r1
    r2 = r2
    Savers = {s1, s2}
    Readers = {r1, r2}
    Cleaners = {}
    Contents = {1, 2}
    Instants = {1, 2, 3}
    Ahead = {3}
    Faults = {"crash", "io", "unlink"}
INVARIANTS
    TypeOK
    MutualExclusion
    NoDangling
PROPERTIES
    ImplementsNewest
CHECK_DEADLOCK FALSE
