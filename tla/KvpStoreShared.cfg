CONSTANTS
    Proc = {p1, p2}
    Daemon = {d}
    CloudInit = {c}
    Key = {k1, k2}
    Value = {v1, v2}
    Mixed = Mixed
    MaxUniqueKeys = 1
    MaxInitial = 1
    InitialPools <- MCInitialPools
    Batches <- MCBatches
    MaxCalls = 3
    MaxTime = 0
SPECIFICATION Spec
SYMMETRY MCSymmetry
INVARIANTS Exclusion CursorCurrent SnapshotRead NoCircularWait
PROPERTIES ImplementsAtomicStore
CHECK_DEADLOCK FALSE
