\* Two agents, the first with a session; the second's parser is not the Hub's.
SPECIFICATION CollectSpec
CONSTANTS
    Parts = {"store", "scan"}
    s2 = s2
    s3 = s3
    task2 = task2
    a1 = a1
    a2 = a2
    s1 = s1
    x = x
    y = y
    t1 = t1
    t2 = t2
    f = f
    task1 = task1
    None = None
    Cleared = Cleared
    Agents = {a1, a2}
    Enabled = {a1, a2}
    Outdated = {a2}
    Sessions = {s1}
    AgentOf <- OneSession
    Messages = {x, y}
    Titles = {t1, t2}
    Captures <- MCCaptures
    LargeTitles = {t2}
    Fingerprints = {f}
    ChunkCounts = {1, 2}
    TaskIds = {task1}
    Epochs = {0, 1}
    AdoptedStates <- MCAdopted
    MaxRows = 4
    MaxStreams = 1
INVARIANTS
    CollectTypeOK
    WatermarkInQueue
    WholeTransfers
    TargetInStream
    QueueCurrent
    RoundsAreHonest
PROPERTIES
    NothingDropped
    CollectionCompletes
