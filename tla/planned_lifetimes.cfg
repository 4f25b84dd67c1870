SPECIFICATION FairSpec
CONSTANTS
    Procs = {p1, p2, p3}
    Coordinated = TRUE
    MayFail = FALSE
    MaxCalls = 3
    MaxCrashes = 1
INVARIANTS HandlesWhole StillLinked
PROPERTY OpenReturns
CHECK_DEADLOCK FALSE
