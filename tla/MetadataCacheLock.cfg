SPECIFICATION Spec
CONSTANTS
    s1 = s1
    s2 = s2
    s3 = s3
    Savers = {s1, s2, s3}
    Readers = {}
    Cleaners = {}
    Contents = {1}
    Instants = {1}
    Ahead = {}
    Faults = {"crash"}
INVARIANTS
    MutualExclusion
CHECK_DEADLOCK FALSE
