SPECIFICATION FairSpec
CONSTANTS
    Client = {c1}
    QueueLen = 2
    MaxEvent = 5
    MaxFaults = 2
INVARIANTS InOrderOnce NoSilentGap
PROPERTY EventArrives
CHECK_DEADLOCK FALSE
