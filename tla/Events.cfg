SPECIFICATION FairSpec
CONSTANTS
    Precious = {u1, u2, u3}
    Logs = {l1, l2}
    Bound = 1
    LogBound = 0
    Window = 1
    FlushBudget = 1
    None = None
INVARIANTS
    DropsOnlyWhenSaturated
    AcceptedReachesSink
PROPERTIES
    OnlyStdoutHoldsUp
CHECK_DEADLOCK FALSE
