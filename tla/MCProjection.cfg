SPECIFICATION FairSpec
CONSTANTS
    o1 = o1
    o2 = o2
    p1 = p1
    p2 = p2
    Writer = {w1, w2}
    Order <- MCOrder
    Projector <- MCProjector
    Rebuilder = Rebuilder
    Nobody = Nobody
    MaxSeq = 3
    MaxRebuilds = 2
    MaxFaults = 1
INVARIANTS PunctualOrdersAreShown
PROPERTIES OnlySwitchGoesBack EventsAreProjected
CHECK_DEADLOCK FALSE
