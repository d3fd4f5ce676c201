SPECIFICATION QuicFairSpec
CONSTANTS
    Sessions = {s1, s2}
    Conns = {c1, c2, c3}
    NoConn = NoConn
INVARIANTS
    ConnectionShared
PROPERTIES
    SessionsOpen
CHECK_DEADLOCK FALSE
