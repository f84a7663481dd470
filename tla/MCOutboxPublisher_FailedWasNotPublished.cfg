SPECIFICATION Spec
CONSTANTS
    Rows = {1, 2}
    Workers = {w1, w2}
    BatchSize = 2
    MaxAttempts = 2
    BackoffBase = 1
    BackoffCap = 2
    MaxLosses = 1
CHECK_DEADLOCK FALSE
INVARIANTS
    FailedWasNotPublished
