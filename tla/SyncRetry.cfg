SPECIFICATION FairSpec
CONSTANTS
    a1 = a1
    s1 = s1
    x = x
    y = y
    t1 = t1
    t2 = t2
    None = None
    Cleared = Cleared
    Agents = {a1}
    Enabled = {a1}
    Outdated = {}
    Sessions = {s1}
    AgentOf <- OneSession
    Messages = {x, y}
    Titles = {t1, t2}
    Captures <- Grow
    LargeTitles = {}
    Fingerprints <- Grow
    ChunkCounts = {1}
    Epochs = {0, 1, 2}
    AdoptedStates = {}
    SourceList <- OneAgent
    TaskIds <- MCTaskIds
    Watching = TRUE
    Limits <- Retries
INVARIANTS
    TaskIdsUnique
PROPERTIES
    Converges
