SPECIFICATION Spec
CONSTANTS
    Granted <- MCGranted
    Demand <- MCDemand
    BatchSize = 2
    Rounds = 2
    Failures = TRUE
    MaxRuns = 3
    MaxSimulations = 2
INVARIANTS
    TypeOK
    AgentsStayWithinTokens
    LogsTellTheTruth
    FinishedRunIsTraceable
    CallLogIsComplete
    ReportMatchesLogs
PROPERTY
    RunsEnd
CHECK_DEADLOCK FALSE
