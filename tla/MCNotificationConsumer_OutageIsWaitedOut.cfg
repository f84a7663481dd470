SPECIFICATION Spec
CONSTANTS
    Consumers = {c1}
    Events = {e1}
    LogSize = 1
    MaxAttempts = 2
    MaxWaits = 3
    MaxFaults = 2
    Nobody = Nobody
CHECK_DEADLOCK FALSE
INVARIANTS
    OutageIsWaitedOut
