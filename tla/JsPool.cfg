SPECIFICATION FairSpec
CONSTANTS
    Threads = {t1, t2, t3}
    PoolSize = 2
    GcEveryN = 2
    MaxRuns = 4
INVARIANTS
    PoolAccounted
PROPERTIES
    ShutdownSettles
CHECK_DEADLOCK FALSE
