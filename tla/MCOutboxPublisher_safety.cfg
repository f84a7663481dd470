SPECIFICATION Spec
CONSTANTS
    Rows = {1, 2}
    Workers = {w1, w2}
    BatchSize = 2
    MaxAttempts = 3
    BackoffBase = 2
    BackoffCap = 3
    MaxLosses = 1
SYMMETRY WorkerSymmetry
CHECK_DEADLOCK FALSE
INVARIANTS
    TypeOK
    PublishedIsOnTopic
    FailedIsExhausted
    ClaimsAreExclusive
    DuplicatesAccounted
    PublisherInv
PROPERTIES
    FateIsFinal
