SPECIFICATION Spec
CONSTANTS
    l1 = l1
    l2 = l2
    l3 = l3
    k1 = k1
    k2 = k2
    p1 = p1
    p2 = p2
    None = None
    Locators <- MCLocators
    Foreign = {}
    Keys <- MCKeys
    Permits = {p1}
    StaleCache = FALSE
    MaxIncarnations = 2
    MaxFaults = 1
CHECK_DEADLOCK FALSE
INVARIANT StraySecretCleared
