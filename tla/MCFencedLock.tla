---------------------------- MODULE MCFencedLock ----------------------------
EXTENDS FencedLock
CONSTANTS c1, c2, c3
MCClient == {c1, c2, c3}
MCCounters == {0, -1, -2, 5, Garbage}
=============================================================================
