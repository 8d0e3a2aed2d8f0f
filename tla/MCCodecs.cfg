CONSTANTS
    Failed = Failed
    Immediate = 4
    MAX_DEPTH = 3
    MAX_SAFE = 84935000
    MaxBytes = 4
    Refused = Refused
    Undefined = Undefined
    BN254_SCALAR_FIELD = 53
    LimbBase = 4
    LimbCount = 3
    U32_MAX = 7
    EZKL_MAX_INPUT = 3
SPECIFICATION CodecSpec
CHECK_DEADLOCK FALSE
INVARIANTS
    CodecIsExact
    FormatsAreExact
