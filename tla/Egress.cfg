SPECIFICATION SessionFairSpec
CONSTANTS
    MaxCalls = 3
    Deadline = 1
    MaxClock = 2
INVARIANTS
    SessionInStep
    CallsMeetDeadline
PROPERTIES
    BrokerCallsReturn
CHECK_DEADLOCK FALSE
