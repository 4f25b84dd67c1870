SPECIFICATION Spec
CONSTANTS
    NoOwner = NoOwner
    NoProc = NoProc
    Handles = {h1, h2}
    ReadOnly = {}
    Regions <- OneRegion
    Modes = {"RO", "RW"}
    Nested = FALSE
    Ops = {}
    Spurious = FALSE
    Asserts = TRUE
    MaxClaims = 3
    MaxCrashes = 0
    Capacity = 3
    SIZE_MAX = 7
    BlockSize = 4
INVARIANT MutualExclusion
CHECK_DEADLOCK FALSE
