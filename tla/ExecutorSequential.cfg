SPECIFICATION FairSpec
CONSTANTS
    t1 = t1
    t2 = t2
    r1 = r1
    r2 = r2
    r3 = r3
    NoRecord = NoRecord
    NoCaller = NoCaller
    Threads = {t1}
    Callers <- MCCallers
    Permissions <- MCPermissions
    InitialRegistry <- MCRegistry
    Submissions <- AllSubmissions
    Batches <- MixedBatches
    WebhookOutcomes = {"ok", "raise_before"}
    AppendFaults = {"torn"}
    LibraryCalls = TRUE
    CrashAllowed = FALSE
    MaxRequests = 2
    MaxTime = 2
    MaxTokens = 2
    TTL = 1
INVARIANT
    EveryActionLogged
PROPERTIES
    ExecutesOnce
    RequestsEnd
