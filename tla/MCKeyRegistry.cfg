CONSTANTS
    c1 = c1
    c2 = c2
    h1 = h1
    h2 = h2
    key = key
    otherKey = otherKey
    garbage = garbage
    otherDigest = otherDigest
    None = None
    Calls <- MCCalls
    Hashes <- MCHashes
    Texts <- MCTexts
    Malformed <- MCMalformed
    DigestOf <- MCDigestOf
SPECIFICATION Spec
SYMMETRY CallSymmetry
INVARIANTS
    HandedKeysAgree
PROPERTY
    PinIsFinal
