SPECIFICATION Spec
CONSTANTS
    a = a
    b = b
    c = c
    Job = {a, b}
    NoJob = NoJob
    Run = {r1, r2}
    CatchUp = {a}
    NeverFires = {}
    NextSlot <- Dense
    Grace = 0
    LocalOffset = 1
    MaxTime = 3
    SetBack = {1}
    FaultProfiles = {{"read", "record"}, {"clear", "crash"}, {"clock"}, {"mark"}}
    Quits = {"stop"}
SYMMETRY Symmetry
INVARIANTS
    TypeOK
    AtMostOneRun
    MarkerCoversRun
    MarkerExplained
    CleanClose
PROPERTIES
    SlotsAdvance
    ImplementsDaemon
