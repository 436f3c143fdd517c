SPECIFICATION MCSpec
CONSTANTS
    Signal = {2, 20}
    SIGCHLD = 17
    SIGINT = 2
    SIGQUIT = 3
    SIGTERM = 15
    Stoppers = {20}
    StartDispositions = {"Default", "Ignore"}
    StartMask = {}
    MaxArrivals = 2
    MaxFrames = 2
    Exit = Exit
    None = None
INVARIANTS
    NoLostTrap
    HandlerInSelect
    Settled
PROPERTIES
    OwedIsRun
    DiesJustly
CHECK_DEADLOCK FALSE
