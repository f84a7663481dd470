SPECIFICATION FairSpec
CONSTANTS
    Consumers = {c1, c2}
    Events = {e1}
    LogSize = 2
    MaxAttempts = 2
    MaxWaits = 1
    MaxFaults = 2
    Nobody = Nobody
CHECK_DEADLOCK FALSE
PROPERTIES
    EveryRecordSettled
