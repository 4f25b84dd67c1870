SPECIFICATION Spec
CONSTANTS
    NoOwner = NoOwner
    NoProc = NoProc
    Handles = {h1, h2}
    ReadOnly = {}
    Regions <- OneRegion
    Modes = {"RW"}
    Nested = FALSE
    Ops = {}
    Spurious = FALSE
    Asserts = TRUE
    MaxClaims = 3
    MaxCrashes = 1
    Capacity = 2
    SIZE_MAX = 7
    BlockSize = 4
INVARIANT SuccessMeansListed
CHECK_DEADLOCK FALSE
