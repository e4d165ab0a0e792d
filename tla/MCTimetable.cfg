SPECIFICATION TTSpec
CONSTANTS
    Schedules <- AllSchedules
    GoodSchedules <- Parsing
    NoSchedule = NoSchedule
    Policies = {"UTC", "Casablanca", "Nowhere"}
    GoodPolicies = {"UTC", "Casablanca"}
    DefaultPolicy = "UTC"
    Log = "log"
    Lines <- SomeLines
    MaxLines = 3
    Numbered <- JobN
    Phrases <- SomePhrases
    Starts <- SomeStarts
    Horizon = 400
    MaxFires = 64
    Ahead <- AheadOfLocal
INVARIANTS
    ImportStarts
    NeverInternalError
    RejectedIsUndocumented
PROPERTIES
    FiresAsMeant
    IntervalGap
CHECK_DEADLOCK FALSE
