SPECIFICATION FairSpec
CONSTANTS
    NoOwner = NoOwner
    NoProc = NoProc
    Handles = {h1, h2, h3}
    ReadOnly = {}
    Regions <- TwoRegions
    Modes = {"RW"}
    Nested = FALSE
    Ops = {}
    Spurious = FALSE
    Asserts = TRUE
    MaxClaims = 3
    MaxCrashes = 1
    Capacity = 2
    SIZE_MAX = 7
    BlockSize = 4
INVARIANTS MutualExclusion HeldIsListed NoFault NoLostWakeup
PROPERTIES ImplementsRegionLock AllServed
CHECK_DEADLOCK FALSE
