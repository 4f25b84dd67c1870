SPECIFICATION Spec
CONSTANTS
    NoOwner = NoOwner
    NoProc = NoProc
    Handles = {h1, h2}
    ReadOnly = {}
    Regions <- OneRegion
    Modes = {"RW"}
    Nested = FALSE
    Ops = {"release_all"}
    Spurious = FALSE
    Asserts = TRUE
    MaxClaims = 2
    MaxCrashes = 0
    Capacity = 2
    SIZE_MAX = 7
    BlockSize = 4
INVARIANT NoLostWakeup
CHECK_DEADLOCK FALSE
