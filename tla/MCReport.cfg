SPECIFICATION FairSpec
CONSTANTS
    Gos = {"g1", "g2"}
    Notify <- Names
    Hook <- Hooks
    Window = 2
    ReadDefault = 3
    Limit = {0, 1, 2}
    MaxRuns = 3
INVARIANTS
    NotifiedIsRecorded
    AlertsMatchHistory
    FailedFills
PROPERTIES
    ShownIsNotOlder
    TailEnds
CHECK_DEADLOCK FALSE
