SPECIFICATION FairSpec
CONSTANTS
    N = 3
    OpenMax = 6
    PipeBuf = 1
    StartFds = {{0, 1, 2}, {0, 2}, {2}, {0, 1, 2, 3}}
    Kinds = {"producer", "filter", "head", "null"}
    WriteSizes = {3}
    StartMayFail = TRUE
INVARIANTS
    Connected
    SleepsJustly
PROPERTY
    Terminates
CHECK_DEADLOCK FALSE
