SPECIFICATION AuditSpec
CONSTANTS
    a = a
    b = b
    Job = {b}
    NoJob = NoJob
    Run = {r1}
    CatchUp = {b}
    NeverFires = {}
    NextSlot <- Every
    Grace = 1
    LocalOffset = 1
    MaxTime = 6
    SetBack = {}
    FaultProfiles = {{}}
    Quits = {"stop"}
PROPERTIES
    CaughtUp
