SPECIFICATION Spec
CONSTANTS
    t1 = t1
    t2 = t2
    r1 = r1
    r2 = r2
    r3 = r3
    NoRecord = NoRecord
    NoCaller = NoCaller
    Threads = {t1, t2}
    Callers <- MCCallers
    Permissions <- MCPermissions
    InitialRegistry <- MCRegistry
    Submissions <- FewSubmissions
    Batches <- FewBatches
    WebhookOutcomes = {"ok"}
    AppendFaults = {}
    LibraryCalls = FALSE
    CrashAllowed = FALSE
    MaxRequests = 2
    MaxTime = 1
    MaxTokens = 1
    TTL = 1
INVARIANT
    AtMostOnce
