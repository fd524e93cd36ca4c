SPECIFICATION FairSpec
CONSTANTS
    c1 = c1
    Calls = {c1}
    MaxDdl = 1
    MaxRefreshes = 1
    BackoffSteps = 0
    Events = {"fail", "offline", "release", "dispose"}
    MaxFaults = 2
PROPERTIES
    LiveIsForThisCall
    CallSettles
    FailedRecovers
    DriftIsRefreshed
CHECK_DEADLOCK FALSE
