SPECIFICATION FairSpec
CONSTANTS
    c1 = c1
    c2 = c2
    a = a
    b = b
    Clients = {c1, c2}
    MaxStartups = 3
    Configs = {a, b}
INVARIANTS
    TypeOK
    OneLiveBackend
    CountIsExact
PROPERTIES
    StaleSwapsAtZero
    ServiceIsCurrent
    ServiceSettles
CHECK_DEADLOCK FALSE
