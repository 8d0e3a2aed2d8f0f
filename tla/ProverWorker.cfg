CONSTANTS
    MaxRequests = 3
    PostMayFail = TRUE
    StartMayFail = TRUE
    CleanExits = TRUE
SPECIFICATION FairSpec
INVARIANTS
    TypeOK
    OwnProofOnly
    NoRequestLost
    NoStall
    OneLiveWorker
    ServedInOrder
PROPERTY EveryRequestSettles
