SPECIFICATION PairingSpec
CONSTANTS
    None = None
    w1 = w1
    w2 = w2
    n1 = n1
    k1 = k1
    k2 = k2
    local = local
    Workers = {w1, w2}
    Tokens = {k1, k2}
    Local = local
    Remotes = {n1}
    LocalWorkers = {w1}
    LeaseLife = 1
    TokenLife = 1
    MaxQueue = 1
    Bounds <- MCBounds
CHECK_DEADLOCK FALSE
INVARIANTS
    TablesSound
    GrantsSound
    RetiredStaysRetired
PROPERTIES
    WritesAreCurrent
    LeaseIsKept
    LeaseObtained
