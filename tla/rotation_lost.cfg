SPECIFICATION Spec
CONSTANTS
    k1 = k1
    k2 = k2
    k3 = k3
    k4 = k4
    None = None
    Keys <- MCKeys
    MaxFaults = 0
    MaxLost = 1
INVARIANT StoredKeyOpens
