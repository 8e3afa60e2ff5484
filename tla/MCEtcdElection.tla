--------------------------- MODULE MCEtcdElection ---------------------------
EXTENDS EtcdElection
CONSTANTS c1, c2
MCCandidate == {c1, c2}
=============================================================================
