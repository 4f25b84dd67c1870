SPECIFICATION Spec
CONSTANTS
    Procs = {p1, p2, p3}
    Coordinated = FALSE
    MayFail = TRUE
    MaxCalls = 3
    MaxCrashes = 1
SYMMETRY Symmetry
INVARIANTS TypeOK AccessIdsUnique RefcountExact NothingLeft ListBeforeUse
CHECK_DEADLOCK FALSE
