SPECIFICATION Spec
CONSTANTS
    Blank = Blank
    Unhashable = {}
    Nesting <- Flat
    NoCallerId = NoCallerId
    GoodTransactions <- MCGood
    FraudTransactions <- MCFraud
    Scores = {49, 50, 80}
    Decide <- ShippedDecide
    RegisteredCallers = {"fraud-analyst"}
    CallerArguments = {"fraud-analyst", "nobody"}
    DEFAULT_MONTHLY_LIMIT_USD = 5
    DEFAULT_ALLOWED_HOURS <- Hours
    DEFAULT_MAX_TX_PER_DAY = 2
INVARIANTS
    TypeOK
    WithinMandate
    OwnHistoryFits
    LiveDecisionAgrees
    BlockWins
    BlocksAreAttributed
CHECK_DEADLOCK FALSE
