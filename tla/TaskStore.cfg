CONSTANTS
    Ids = {t1, t2}
    TTL = 2
    MaxTime = 7
SPECIFICATION Spec
INVARIANTS
    WorkingIsLive
    StoppedIffAborted
    NoControllerLeak
PROPERTY FinishedIsFinal
