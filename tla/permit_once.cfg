SPECIFICATION Spec
CONSTANTS
    p1 = p1
    t1 = t1
    t2 = t2
    Permits <- MCPermits
    Targets <- MCOneTarget
    Existing <- MCOneTarget
    Windows = {1, 2}
    MaxTime = 2
    MaxEdits = 1
    MaxLives = 2
    MaxFaults = 0
CHECK_DEADLOCK FALSE
INVARIANT UsedOnce
