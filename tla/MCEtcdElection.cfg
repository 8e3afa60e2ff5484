SPECIFICATION Spec
CONSTANTS
    c1 = c1
    c2 = c2
    Candidate <- MCCandidate
    MaxRevision = 5
PROPERTY NoStaleOverwrite
CHECK_DEADLOCK FALSE
