CONSTANTS
    Undefined = Undefined
    Enclaves <- MCEnclaves
    s1 = s1
    unpinned = unpinned
    n1 = n1
    n2 = n2
    Statements <- MCStatements
    Nonces <- MCNonces
    Certificates <- MCCertificates
    Root = "root"
    Leaf <- MCLeaf
    Bundles <- MCBundles
    Pcrs <- MCPcrs
    PinnedPcrs <- MCPinnedPcrs
    UserData <- MCUserData
    ExpectedUserData = "service"
    Skew <- MCSkew
    MaxAgeMs = 1
    ClockSkewMs = 1
    MaxTime = 4
    MaxRestarts = 1
    MaxProofs = 2
SPECIFICATION TeeSpec
SYMMETRY Symmetry
CHECK_DEADLOCK FALSE
INVARIANTS
    AcceptedIsAttested
    HonestIsAccepted
