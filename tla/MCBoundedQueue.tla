--------------------------- MODULE MCBoundedQueue ---------------------------
EXTENDS BoundedQueue
CONSTANTS p1, p2, p3
MCProducer == {p1, p2, p3}
=============================================================================
