SPECIFICATION FairSpec
CONSTANTS
    Writer = {w1, w2}
    Stream = {s1, s2}
    Copy = {p1}
    Shadow = Shadow
    Full = 1
    Limit = 2
    MaxXid = 3
    MaxFaults = 1
INVARIANTS ReadModelIsFold NoVersionGap StreamIsHistory
PROPERTY EventsAreProjected
CHECK_DEADLOCK FALSE
