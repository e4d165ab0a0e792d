SPECIFICATION TTSpec
CONSTANTS
    Schedules <- AllSchedules
    GoodSchedules <- Parsing
    NoSchedule = NoSchedule
    Policies = {"UTC", "Casablanca", "Nowhere"}
    GoodPolicies = {"UTC", "Casablanca"}
    DefaultPolicy = "UTC"
    Log = "log"
    Lines <- ZoneLines
    MaxLines = 2
    Numbered <- JobN
    Phrases = {}
    Starts <- SomeStarts
    Horizon = 400
    MaxFires = 2
    Ahead <- AheadOfLocal
PROPERTIES
    ZoneHonoured
CHECK_DEADLOCK FALSE
