SPECIFICATION AuditSpec
CONSTANTS
    a = a
    b = b
    Job = {a}
    NoJob = NoJob
    Run = {r1}
    CatchUp = {}
    NeverFires = {}
    NextSlot <- Every
    Grace = 0
    LocalOffset = 0
    MaxTime = 5
    SetBack = {}
    FaultProfiles = {{"crash"}}
    Quits = {}
PROPERTIES
    NoLaunchBesideOrphan
