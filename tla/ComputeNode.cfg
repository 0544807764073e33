SPECIFICATION NodeSpec
CONSTANTS
    c1 = c1
    c2 = c2
    c3 = c3
    d1 = d1
    n1 = n1
    n2 = n2
    A = A
    B = B
    a1 = a1
    a2 = a2
    b1 = b1
    t1 = t1
    t2 = t2
    k1 = k1
    k2 = k2
    k3 = k3
    None = None
    Coros = {a1, a2, b1}
    thread <- TwoThreads
    Keys = {k1, k2, k3}
    Requests <- Mixed
    candidates <- Shared
    Preload <- FirstFull
    capacity = 3
    bucket_elements_limit = 2
    MIGRATION_THRESHOLD = 2
    OpMax = 3
SYMMETRY Interchangeable
INVARIANTS
    HandoverKeepsTheLock LocksAreReleased
    HitsAreForTheKey PoolIsPartitioned LiveEntriesAreEvictable CacheStaysInBudget
    HitsOutliveFewAccesses CapacityIsNearlyKept LocksAreHeldBriefly
PROPERTIES RadixIsAMap
