SPECIFICATION PublisherFairSpec
CONSTANTS
    h1 = h1
    h2 = h2
    Handler <- MCHandler
    Buffer = 2
    MaxClicks = 5
INVARIANTS EveryClickCounted NoSendOnClosed
PROPERTY ShutdownEnds
CHECK_DEADLOCK FALSE
