SPECIFICATION SemSpec
CONSTANTS
    Thread = {t1, t2, t3, t4}
    MaxCount = 2
    InitialCount = 1
    CondMayFail = TRUE
    NoThread = NoThread
INVARIANT MutualExclusion
INVARIANT NoLostWakeup
PROPERTY ImplementsCounting
