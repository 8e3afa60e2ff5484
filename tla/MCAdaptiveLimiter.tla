------------------------- MODULE MCAdaptiveLimiter -------------------------
EXTENDS AdaptiveLimiter
CONSTANTS c1, c2, c3, c4
MCCaller == {c1, c2, c3, c4}
=============================================================================
