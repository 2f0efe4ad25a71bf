SPECIFICATION FairSpec
CONSTANTS
    Accounts = {acc}
    Names = {1, 2}
    Bodies <- MCBodies
    Quota = 3
    Handlers = {h1, h2}
    Kinds = {"put", "get", "delete", "list"}
    PageSize = 1
    NoHandler = NoHandler
    MaxRequests = 4
    MaxCrashes = 1
INVARIANTS QuotaKept CacheExact ListingComplete
PROPERTIES ImplementsStore EveryRequestAnswered
CHECK_DEADLOCK FALSE
