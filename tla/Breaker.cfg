SPECIFICATION BreakerFairSpec
CONSTANTS
    Request = {r1, r2, r3, r4}
    PoolSize = 3
    FailThreshold = 2
    OpenFor = 1
    HalfOpenMax = 2
    MaxLag = 1
    MaxOutages = 2
INVARIANT NoLostProbe
PROPERTY Recovers
