SPECIFICATION FairSpec
CONSTANTS
    Procs = {p1, p2, p3}
    Coordinated = FALSE
    MayFail = FALSE
    MaxCalls = 2
    MaxCrashes = 0
PROPERTY OpenReturns
CHECK_DEADLOCK FALSE
