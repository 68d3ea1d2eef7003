SPECIFICATION Spec
CONSTANTS
    a1 = a1
    a2 = a2
    s1 = s1
    s2 = s2
    s3 = s3
    x = x
    y = y
    t1 = t1
    task1 = task1
    task2 = task2
    None = None
    Cleared = Cleared
    Agents = {a1, a2}
    Enabled = {a1, a2}
    Outdated = {}
    Sessions = {s1, s2, s3}
    AgentOf <- MCAgentOf
    Messages = {x, y}
    Titles = {t1}
    Captures <- MCCaptures
    LargeTitles = {}
    Fingerprints <- MCCaptures
    ChunkCounts = {1}
    Epochs = {0, 1}
    AdoptedStates = {}
    SourceList <- MCSources
    TaskIds = {task1, task2}
    Watching = TRUE
    MaxEdits = 3
    MaxEvents = 0
PROPERTIES
    EverythingCollected
CHECK_DEADLOCK FALSE
