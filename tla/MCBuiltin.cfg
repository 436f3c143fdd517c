SPECIFICATION MCSpec
CONSTANTS
    t1 = t1
    t2 = t2
    t3 = t3
    Null = Null
    Task = {t1, t2, t3}
    Forwarded = {t1}
    Signal = {2, 10, 12}
    SIGINT = 2
    MayNest = TRUE
    Names = {"x"}
    Values = {"a"}
    ParamLists <- MCParamLists
    MaxContexts = 4
    MaxAssigns = 1
INVARIANT NoLostWakeup
PROPERTIES
    WokenIsPolled
    ImplementsScheduler
    LossWindow
    TemporaryUndone
    ImplementsScopes
CHECK_DEADLOCK FALSE
