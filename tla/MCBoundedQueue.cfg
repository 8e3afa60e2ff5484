SPECIFICATION QueueFairSpec
CONSTANTS
    p1 = p1
    p2 = p2
    p3 = p3
    Producer <- MCProducer
    Capacity = 2
    MaxOffers = 4
INVARIANT CountersBalance
PROPERTY OfferReturns
CHECK_DEADLOCK FALSE
