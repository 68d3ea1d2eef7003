SPECIFICATION ServingSpec
CHECK_DEADLOCK FALSE
CONSTANTS
    Parts = {"events", "log", "prices"}
    c1 = c1
    c2 = c2
    NoPrice = NoPrice
    Numbers = {"2", "3", "4", "9"}
    Dates = {"d1"}
    Originals = {"maker"}
    Makers <- MCMakers
    AliasOf <- MCAliases
    Multipliers <- MCMultipliers
    Snapshot <- MCSnapshot
    Ttl = 2
    Requests <- MCRequests
    Models <- Names
    PriceBounds <- PriceScopes
INVARIANTS
PROPERTIES
    StreamCorrect
    PricesCorrect
    LogCorrect
