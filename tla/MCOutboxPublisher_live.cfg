SPECIFICATION FairSpec
CONSTANTS
    Rows = {1, 2}
    Workers = {w1, w2}
    BatchSize = 1
    MaxAttempts = 2
    BackoffBase = 1
    BackoffCap = 1
    MaxLosses = 1
CHECK_DEADLOCK FALSE
PROPERTIES
    EveryRowSettled
