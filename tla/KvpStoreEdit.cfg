CONSTANTS
    Proc = {p1}
    Daemon = {}
    CloudInit = {}
    Key = {k1, k2}
    Value = {v1, v2}
    Mixed = Mixed
    MaxUniqueKeys = 1
    MaxInitial = 4
    InitialPools <- MCInitialPools
    Batches <- MCBatches
    MaxCalls = 2
    MaxTime = 0
SPECIFICATION Spec
SYMMETRY MCSymmetry
INVARIANTS TypeOK Completed NothingElseLost
PROPERTIES TornPoolFrozen
CHECK_DEADLOCK FALSE
