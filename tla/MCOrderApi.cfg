SPECIFICATION Spec
CONSTANTS
    Requests = {r1, r2, r3}
    Payloads <- MCPayloads
    ProductIds = {1, 2, 3, 4, 5, 6}
    Draft <- MCDraft
    MaxLength = 2
    MaxItemQuantity = 3
    MaxAmount = 100
    MaxInteger = 5
SYMMETRY Symmetry
CHECK_DEADLOCK FALSE
INVARIANTS
    ViewsAgree
    ListedAsAnswered
    OnlyUnstorableFails
    ApiInv
PROPERTIES
    RepeatsAreReplays
    ImplementsLedger
