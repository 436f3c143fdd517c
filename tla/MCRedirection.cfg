SPECIFICATION Spec
CONSTANTS
    OpenMax = 5
    MinInternalFd = 2
    Named = {0, 1, 2, 5}
    Ofds = {0, 1, 2, 3, 4, 5, 6}
    MaxFrames = 2
    MaxRedirs = 3
    OpenAccess = {"ReadOnly"}
INVARIANTS
    InternalIntact
    NoClobber
    LeakBounded
PROPERTY
    UndoRestores
CHECK_DEADLOCK FALSE
