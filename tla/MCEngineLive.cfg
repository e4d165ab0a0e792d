SPECIFICATION FairSpec
CONSTANTS
    a = a
    b = b
    c = c
    Job = {a, b, c}
    NoJob = NoJob
    Run = {r1, r2}
    CatchUp = {a}
    NeverFires = {c}
    NextSlot <- Sparse
    Grace = 0
    LocalOffset = 0
    MaxTime = 3
    SetBack = {}
    FaultProfiles = {{"crash"}}
    Quits = {"stop"}
PROPERTIES
    StopCompletes
    DueSlotDecided
    MarkerCleared
    ImplementsFairDaemon
