CONSTANTS
    Proc = {p1, p2}
    Daemon = {d}
    CloudInit = {}
    Key = {k1}
    Value = {v1}
    Mixed = Mixed
    MaxUniqueKeys = 1
    MaxInitial = 1
    InitialPools <- MCInitialPools
    Batches <- MCBatches
    MaxCalls = 3
    MaxTime = 3
SPECIFICATION FairSpec
INVARIANTS StaleCleared
PROPERTIES ImplementsAtomicStore CallsReturn
CHECK_DEADLOCK FALSE
