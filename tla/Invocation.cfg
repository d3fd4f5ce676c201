SPECIFICATION InvocationSpec
CONSTANTS
    TimeoutRetryable = TRUE
    Names = {"db", "kv", "out"}
    Listed = {"db", "kv"}
    Registered = {"db", "kv"}
    OwnBackend = {"kv"}
    Guarded = {"db"}
    Fallback = FALSE
    Kinds = {"a", "b"}
    MaxOps = 2
    MaxEntries = 2
    MaxEntryBytes = 5
    MaxTotalBytes = 8
    MarkerBytes = 2
    Sizes = {1, 4}
    CapOutput = TRUE
INVARIANTS
    BudgetsHold
    CauseReachesCaller
CHECK_DEADLOCK FALSE
