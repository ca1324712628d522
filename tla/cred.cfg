SPECIFICATION CacheSpec
CONSTANTS
    t1 = t1
    t2 = t2
    Tasks = {t1, t2}
    Nobody = Nobody
    Lifetime = 4
    Skew = 2
    MaxClock = 8
INVARIANTS
    CacheIsSound
PROPERTIES
    NeverOpensWithExpired
    RefreshReturns
CHECK_DEADLOCK FALSE
