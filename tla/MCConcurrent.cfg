SPECIFICATION FairSpec
CONSTANTS
    t1 = t1
    t2 = t2
    a = a
    b = b
    f = f
    None = None
    Task = {t1, t2}
    Fd = {a}
    File = {f}
    FileOf <- MCFileOf
    Signal = {1, 2}
    Slots = 2
    MaxTime = 1
    MaxArrivals = 2
INVARIANTS
    NoneLost
    BlocksOnlyIfShared
PROPERTY IOCompletes
CHECK_DEADLOCK FALSE
