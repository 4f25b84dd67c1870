SPECIFICATION Spec
CONSTANTS
    Handles = {h1, h2}
    NoOwner = NoOwner
    PageSize = 2
    Created = 1
    Requests = {1, 3, 5}
    Asserts = TRUE
    MayFail = FALSE
    MaxCalls = 2
    MaxCrashes = 0
INVARIANT PointerToMapping
CHECK_DEADLOCK FALSE
