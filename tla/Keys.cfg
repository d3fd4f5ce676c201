SPECIFICATION KeysFairSpec
CONSTANTS
    Verifications = {r1, r2}
    Impatient = {r2}
    Kids = {k1, k2}
    Foreign = kx
    MinRefresh = 2
    Unset = Unset
    Failed = Failed
INVARIANTS
    LastGoodKept
PROPERTIES
    CacheCatchesUp
