SPECIFICATION FairSpec
CONSTANTS
    Requests = {1, 2}
    ProductIds <- MCProductIds
    Supply <- MCSupply
    IdemKeys = {1}
    MaxId = 1
    Baskets <- MCBaskets
    Price <- MCPrice
    MaxAmount = 10
    PoolSize = 2
    Workers = {w1}
    BatchSize = 1
    MaxAttempts = 1
    BackoffBase = 1
    BackoffCap = 1
    MaxLosses = 1
    Consumers = {c1}
    ConsumerMaxAttempts = 1
    MaxWaits = 1
    MaxFaults = 2
    LogSize = 3
    Nobody = Nobody
CHECK_DEADLOCK FALSE
INVARIANTS
    PublishedIsNotLost
    NotifiedOncePerKey
    PipelineInv
PROPERTIES
    ImplementsDelivery
