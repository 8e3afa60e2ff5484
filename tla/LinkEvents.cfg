SPECIFICATION FairSpec
CONSTANTS
    None = None
    Request = {q1, q2}
    Code = {a, b}
    Click = {k1}
    Relay = {r1}
    Consumer = {c1, c2}
    Attempts = 2
    Limit = 2
    MaxFaults = 1
INVARIANTS CountedOnce NothingVanishes
PROPERTY PromiseSpec
CHECK_DEADLOCK FALSE
