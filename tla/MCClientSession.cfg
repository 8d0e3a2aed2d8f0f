CONSTANTS
    None = None
    Ops = {o1, o2}
    Works <- MCWorks
    FirstConfigs <- MCFirstConfigs
    Configs <- MCConfigs
    Capabilities <- MCCapabilities
    MaxServers = 2
    MaxChanges = 1
SPECIFICATION Spec
SYMMETRY Symmetry
CHECK_DEADLOCK FALSE
INVARIANTS
    ProvenanceFailsClosed
    ActNeedsFreedom
    BlindResultIsOwn
    OwnBlindResultIsAccepted
PROPERTY SessionIsWhole
