SPECIFICATION SyncSpec
CONSTANTS
    Schedules = {"s1", "s2", "bad"}
    GoodSchedules = {"s1", "s2"}
    NoSchedule = NoSchedule
    Policies = {"skip", "queue", "catch_up", "bogus"}
    GoodPolicies = {"skip", "queue", "catch_up"}
    DefaultPolicy = "skip"
    Log <- LogName
    Editor = {"p1", "p2", "p3"}
    Scenes <- DaemonOnly
    Bodies <- FromCrontab
    MaxJobs = 4
    MaxTorn = 1
    LongJobs = 3
    Mortal = {"p1", "p2"}
    MayDie = FALSE
INVARIANTS
    RemovedNotLoaded
