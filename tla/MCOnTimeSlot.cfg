SPECIFICATION AuditSpec
CONSTANTS
    a = a
    b = b
    Job = {a}
    NoJob = NoJob
    Run = {r1}
    CatchUp = {}
    NeverFires = {}
    NextSlot <- Every
    Grace = 1
    LocalOffset = 0
    MaxTime = 5
    SetBack = {}
    FaultProfiles = {{}}
    Quits = {}
PROPERTIES
    OnTimeSlotKept
