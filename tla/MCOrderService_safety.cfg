SPECIFICATION Spec
CONSTANTS
    Requests = {r1, r2, r3}
    IdemKeys = {k1, k2}
    ProductIds <- MCProductIds
    MaxId = 3
    Baskets <- MCBaskets
    Supply <- MCSupply
    Price <- MCPrice
    MaxAmount = 10
    PoolSize = 3
SYMMETRY CallSymmetry
CHECK_DEADLOCK FALSE
INVARIANTS
    TypeOK
    NoOversell
    IdempotentReplies
    RecoveryFindsOrder
    NoDeadlock
    TransactionInv
PROPERTIES
    StockFollowsOrders
    ImplementsLedger
