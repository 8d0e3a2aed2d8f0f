CONSTANTS
    a = a
    b = b
    None = None
    Calls <- MCCalls
    Requests <- MCRequests
    ServerFormats <- MCServerFormats
    ZkFormats <- MCZkFormats
    DomainOf <- MCDomainOf
    Undescribed = {"riskScore"}
    Prices <- MCPrices
SPECIFICATION Spec
SYMMETRY Symmetry
CHECK_DEADLOCK FALSE
INVARIANTS
    RequiredIsProven
    VerifiedIsGenuine
    ActIsGenuine
    HonestVerifies
