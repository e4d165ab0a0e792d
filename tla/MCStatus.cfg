SPECIFICATION StatusSpec
CONSTANTS
    a = a
    b = b
    Job = {a}
    NoJob = NoJob
    Run = {r1}
    CatchUp = {a}
    NeverFires = {}
    NextSlot <- Every
    Grace = 0
    LocalOffset = 0
    MaxTime = 3
    SetBack = {}
    FaultProfiles = {{"crash"}, {"record"}, {"mark"}, {"read"}}
    Quits = {"stop"}
    Limit <- Limits
INVARIANTS
    IdleShowsLastRun
PROPERTIES
    SlotServedOnce
    CaughtUp
