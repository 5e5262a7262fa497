SPECIFICATION FairSpec
CONSTANTS
    Thread = {t1, t2}
    MaxCount = 1
    InitialCount = 1
    CondMayFail = FALSE
    NoThread = NoThread
    NoJob = NoJob
    Files = {f, g}
    MaxVersion = 1
    MaxCalls = 3
INVARIANT SyncedFiles
INVARIANT ThreadsAccounted
PROPERTY SyncReturns
CHECK_DEADLOCK FALSE
