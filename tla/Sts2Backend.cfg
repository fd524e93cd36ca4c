SPECIFICATION FairSpec
CONSTANTS
    o1 = o1
    o2 = o2
    Opens = {o1, o2}
    MaxCloses = 2
INVARIANTS
    TypeOK
    NoQueryOutlivesSession
PROPERTIES
    ReachesEverySession
    SessionEndsOnce
    OpenAndCloseSettle
CHECK_DEADLOCK FALSE
