SPECIFICATION Spec
CHECK_DEADLOCK FALSE
CONSTANTS
    a1 = a1
    a2 = a2
    s1 = s1
    s2 = s2
    s3 = s3
    None = None
    Agents = {a1}
    Sessions = {s1, s2}
    AgentOf <- Two
    PageSize = 1
    Concurrency = 1
    QueueLimit = 2
    RetainHistory = FALSE
    Scopes <- RefreshScopes
INVARIANTS
    QuietMeansDone
