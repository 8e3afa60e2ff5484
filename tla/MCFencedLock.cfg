SPECIFICATION FairSpec
CONSTANTS
    c1 = c1
    c2 = c2
    c3 = c3
    Client <- MCClient
    Counters <- MCCounters
    Garbage = Garbage
    TTL = 1
    MaxGrants = 4
INVARIANTS TypeOK TokensFollowGrants
PROPERTIES NoStaleOverwrite HolderKeepsLock LockIsFreed
CHECK_DEADLOCK FALSE
