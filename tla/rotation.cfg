SPECIFICATION FairSpec
CONSTANTS
    k1 = k1
    k2 = k2
    k3 = k3
    k4 = k4
    None = None
    Keys <- MCKeys
    MaxFaults = 3
    MaxLost = 0
INVARIANTS
    RotationInv
    StoredKeyOpens
    CacheIsCurrent
PROPERTIES
    Implements
    DueIsRotated
