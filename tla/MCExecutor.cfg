SPECIFICATION FairSpec
CONSTANTS
    Shell = sh
    Proc = {c1, c2, c3}
    ExitCodes = {0, 1}
    HasTimeout = TRUE
    MayEscape = TRUE
INVARIANTS
    OutputComplete
    CutLeavesNone
    SuccessIsReal
PROPERTIES
    CtxEndsRunOrEscapee
CHECK_DEADLOCK FALSE
