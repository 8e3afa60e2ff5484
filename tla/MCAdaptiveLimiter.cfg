SPECIFICATION FairSpec
CONSTANTS
    c1 = c1
    c2 = c2
    c3 = c3
    c4 = c4
    Caller <- MCCaller
    Lower = 1
    Upper = 3
    Initial = 2
    Unit = 2
    Increase = 3
    DecNum = 1
    DecDen = 2
INVARIANTS SlotsAccounted NoIdleSlot
PROPERTIES NoOvertaking EveryWaitEnds
