SPECIFICATION Spec
CONSTANTS
    l1 = l1
    l2 = l2
    l3 = l3
    k1 = k1
    k2 = k2
    p1 = p1
    p2 = p2
    None = None
    Locators <- MCLocators
    Foreign = {}
    Keys <- MCKeys
    Permits <- MCPermits
    StaleCache = FALSE
    MaxIncarnations = 2
    MaxFaults = 3
SYMMETRY LifecycleSymmetry
CHECK_DEADLOCK FALSE
INVARIANTS
    LiveAccountOpens
    RecordedAccountOpens
    NoCreateOnceRecorded
    OneAccountPerIncarnation
    LifecycleInv
PROPERTIES
    Implements
    ConsumedAfterTeardown
    DestroyedByRight
