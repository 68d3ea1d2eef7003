SPECIFICATION DataSpec
CHECK_DEADLOCK FALSE
CONSTANTS
    InView = {"migration", "claude", "codex", "database", "cursor", "cache",
              "watch", "schema", "list"}
    None = None
    Torn = Torn
    Absent = Absent
    NoEvent = NoEvent
    c1 = c1
    c2 = c2
INVARIANTS
    DatabaseExact
    TranscriptsExact
    CacheExact
    WatchesSound
    CachesOpen
    ListCorrect
PROPERTIES
    MoveCorrect
