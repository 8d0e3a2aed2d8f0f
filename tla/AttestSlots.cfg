CONSTANTS
    Feeds = {f1, f2}
    Attempts = 2
    Timeout = 2
    RetryDelay = 1
    Limit = 1
SPECIFICATION FairSpec
CHECK_DEADLOCK FALSE
INVARIANTS
    TypeOK
    PermitsConserved
    FetchInTime
PROPERTIES
    ImplementsJobSlots
    FetchSettles
