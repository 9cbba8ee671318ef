SPECIFICATION Spec
CONSTANTS
    t1 = t1
    t2 = t2
    r1 = r1
    r2 = r2
    r3 = r3
    NoRecord = NoRecord
    NoCaller = NoCaller
    Threads = {t1, t2}
    Callers <- MCCallers
    Permissions <- MCPermissions
    InitialRegistry <- MCRegistry
    Submissions <- AllSubmissions
    Batches <- MixedBatches
    WebhookOutcomes = {"ok", "raise_before", "raise_after"}
    AppendFaults = {"lost", "torn"}
    LibraryCalls = TRUE
    CrashAllowed = TRUE
    MaxRequests = 2
    MaxTime = 2
    MaxTokens = 2
    TTL = 1
SYMMETRY Symmetry
INVARIANTS
    TypeOK
    AuthorizedExecution
    OneActionPerRecord
    SettledRecordsStaySettled
    EveryExecutedEntryIsBacked
