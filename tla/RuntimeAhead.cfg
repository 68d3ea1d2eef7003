SPECIFICATION Spec
CHECK_DEADLOCK FALSE
CONSTANTS
    a1 = a1
    a2 = a2
    s1 = s1
    s2 = s2
    s3 = s3
    None = None
    Agents = {a1}
    Sessions = {s1, s2, s3}
    AgentOf <- Three
    PageSize = 1
    Concurrency = 2
    QueueLimit = 2
    RetainHistory = FALSE
    Scopes <- AheadScopes
INVARIANTS
    CheckpointHonest
