SPECIFICATION FairSpec
CONSTANTS
    Requests = {r1, r2, r3}
    IdemKeys = {k1, k2}
    ProductIds <- MCTwoProductIds
    MaxId = 2
    Baskets <- MCTwoBaskets
    Supply <- MCTwoSupply
    Price <- MCTwoPrice
    MaxAmount = 10
    PoolSize = 2
CHECK_DEADLOCK FALSE
PROPERTIES
    EveryRequestAnswered
