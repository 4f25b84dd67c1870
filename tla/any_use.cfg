SPECIFICATION Spec
CONSTANTS
    NoOwner = NoOwner
    NoProc = NoProc
    Handles = {h1, h2}
    ReadOnly = {h2}
    Regions <- TwoRegions
    Modes = {"RO", "RW"}
    Nested = TRUE
    Ops = {}
    Spurious = TRUE
    Asserts = TRUE
    MaxClaims = 4
    MaxCrashes = 1
    Capacity = 3
    SIZE_MAX = 7
    BlockSize = 4
INVARIANTS OneInside AddHasRoom IdsUnique CountCoversHolders
PROPERTIES PoisonedListFrozen FaultCauses
CHECK_DEADLOCK FALSE
