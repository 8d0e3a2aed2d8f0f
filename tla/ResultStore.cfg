CONSTANTS
    Ids = {r1, r2}
    Contents = {c1, c2}
    TTL = 2
    Period = 2
    MaxTime = 9
SPECIFICATION Spec
INVARIANTS
    WitnessDeletedInTime
    OneEntryPerResult
PROPERTY ImplementsRetention
