SPECIFICATION FairSpec
CONSTANTS
    p1 = p1
    t1 = t1
    t2 = t2
    Permits <- MCPermits
    Targets <- MCTargets
    Existing <- MCOneTarget
    Windows = {1, 2}
    MaxTime = 3
    MaxEdits = 1
    MaxLives = 2
    MaxFaults = 1
CHECK_DEADLOCK FALSE
INVARIANT
    DeletionInv
PROPERTIES
    ConsumedForItsTarget
    Implements
    ExpiresOnlyWhenClosed
    AuthorizedWithinPoll
    TerminalIsFrozen
    PermitEnds
