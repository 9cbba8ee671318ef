SPECIFICATION LiveSpec
CONSTANTS
    a = a
    b = b
    c = c
    d = d
    NoId = NoId
    Writers = {1}
    RunBatches <- TwoRuns
    Batches <- MCBatches
    CrashAllowed = TRUE
    MaxAppends = 1
    Threads = {t1, t2}
    Nobody = Nobody
INVARIANTS
    LiveTypeOK
    OneModelPerLife
    FilesInOrder
    NoDuplicates
    DamageIsBounded
    DashboardIsBacked
PROPERTIES
    ImplementsTrail
    LockIsReleased
