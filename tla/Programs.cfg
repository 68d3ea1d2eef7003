SPECIFICATION ProgramsSpec
CHECK_DEADLOCK FALSE
CONSTANTS
    a1 = a1
    a2 = a2
    s1 = s1
    s2 = s2
    s3 = s3
    None = None
    Agents = {a1, a2}
    Sessions = {s1, s2, s3}
    AgentOf <- Shared
    PageSize = 1
    Concurrency = 1
    QueueLimit = 2
    RetainHistory = TRUE
    Scopes <- ProgramScopes
    NoProcess = NoProcess
    p1 = p1
    p2 = p2
    p3 = p3
INVARIANTS
    PermitsAccounted
PROPERTIES
    StopsInTheEnd
    ServicesCorrect
