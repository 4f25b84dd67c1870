SPECIFICATION Spec
CONSTANTS
    NoOwner = NoOwner
    NoProc = NoProc
    Handles = {h1, h2}
    ReadOnly = {}
    Regions <- TwoRegions
    Modes = {"RO"}
    Nested = TRUE
    Ops = {"release_all", "remove_all"}
    Spurious = FALSE
    Asserts = FALSE
    MaxClaims = 3
    MaxCrashes = 0
    Capacity = 3
    SIZE_MAX = 7
    BlockSize = 4
SYMMETRY Symmetry
INVARIANTS TypeOK ReleaseAllComplete
CHECK_DEADLOCK FALSE
