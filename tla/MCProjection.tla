---------------------------- MODULE MCProjection ----------------------------
EXTENDS Projection
CONSTANTS o1, o2, p1, p2
MCOrder == {o1, o2}
MCProjector == {p1, p2}
=============================================================================
