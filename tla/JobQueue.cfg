SPECIFICATION FairJobSpec
CONSTANTS
    j1 = j1
    j2 = j2
    j3 = j3
    j4 = j4
    w1 = w1
    w2 = w2
    Jobs = {j1, j2, j3, j4}
    Undecodable = {j3}
    Workers = {w1, w2}
    MaxAttempts = 2
    BatchLimit = 2
    MaxFaults = 2
INVARIANTS
    JobTypeOK
    OneWorkerEach
    ProcessedOnce
    FailedWhenExhausted
    OnlyFaultsStrand
PROPERTY
    EveryJobEnds
CHECK_DEADLOCK FALSE
