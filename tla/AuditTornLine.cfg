SPECIFICATION LiveSpec
CONSTANTS
    a = a
    b = b
    c = c
    d = d
    NoId = NoId
    Writers = {1}
    RunBatches <- TwoRuns
    Batches <- OneBatch
    CrashAllowed = TRUE
    MaxAppends = 0
    Threads = {t1}
    Nobody = Nobody
INVARIANT
    ReturnedIsReadable
