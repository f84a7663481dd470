SPECIFICATION Spec
CONSTANTS
    Consumers = {c1, c2}
    Events = {e1, e2}
    LogSize = 3
    MaxAttempts = 2
    MaxWaits = 1
    MaxFaults = 2
    Nobody = Nobody
SYMMETRY Symmetric
CHECK_DEADLOCK FALSE
INVARIANTS
    TypeOK
    NothingSkipped
    NotifiedOnce
    ConsumerInv
