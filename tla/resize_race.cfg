SPECIFICATION Spec
CONSTANTS
    Handles = {h1, h2}
    NoOwner = NoOwner
    PageSize = 2
    Created = 1
    Requests = {1, 3, 5}
    Asserts = TRUE
    MayFail = FALSE
    MaxCalls = 3
    MaxCrashes = 0
PROPERTY NeverShrinks
CHECK_DEADLOCK FALSE
