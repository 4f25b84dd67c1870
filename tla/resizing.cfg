SPECIFICATION FairSpec
CONSTANTS
    Handles = {h1, h2}
    NoOwner = NoOwner
    PageSize = 2
    Created = 1
    Requests = {0, 3, 5}
    Asserts = TRUE
    MayFail = TRUE
    MaxCalls = 4
    MaxCrashes = 1
INVARIANTS TypeOK OrderlyBacked SizesAgree ClaimsAreMapped NoEscalation
PROPERTIES OrderlyNeverShrinks OnlyStaleResizeFaults OnlyStaleCloseStrays CallsReturn
CHECK_DEADLOCK FALSE
