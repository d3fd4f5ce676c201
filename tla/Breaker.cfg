SPECIFICATION FairSpec
CONSTANTS
    Callers = {c1, c2, c3}
    Threshold = 2
    Cooldown = 2
    MaxCall = 4
    MaxFailures = 3
    TripsModulus = 3
INVARIANTS
    ProbesSpaced
PROPERTIES
    BreakerCloses
