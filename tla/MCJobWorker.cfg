SPECIFICATION FairSpec
CONSTANTS
    w1 = w1
    w2 = w2
    NoWorker = NoWorker
    NoJob = 0
    Worker <- MCWorker
    Job <- MCJob
    Listening <- MCListening
    Failing <- MCFailing
    Lease = 3
    Work = 4
    MaxAttempts = 2
    MaxFaults = 2
INVARIANTS TypeOK OneWorkerPerAttempt PunctualKeepsLease DoneByLatestAttempt
PROPERTIES PromiseSpec WokenByNotify EventuallySettled
