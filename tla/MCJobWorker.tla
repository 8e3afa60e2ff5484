---------------------------- MODULE MCJobWorker ----------------------------
EXTENDS JobWorker
CONSTANTS w1, w2
MCWorker == {w1, w2}
MCJob == {1, 2}
MCListening == {w2}
MCFailing == {2}
=============================================================================
