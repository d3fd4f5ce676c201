SPECIFICATION SessionSpec
CONSTANTS
    MaxCalls = 3
    Deadline = 1
    MaxClock = 2
INVARIANTS
    RepliesMatch
CHECK_DEADLOCK FALSE
