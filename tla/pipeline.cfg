SPECIFICATION FairSpec
CONSTANTS
    N = 3
    Account = 2
    Aborting = {1, 2}
    Detects = {3}
    MaxGeneration = 2
    MaxFaults = 3
CHECK_DEADLOCK FALSE
INVARIANTS
    PipelineInv
    ObservedIsApplied
    AccountDroppedLast
PROPERTIES
    ReadyIsEarned
    DriftIsUndone
    SpecIsApplied
