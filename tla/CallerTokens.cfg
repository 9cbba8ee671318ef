SPECIFICATION AuthSpec
CONSTANTS
    Callers = {"payment-processor", "audit-system"}
    Permissions = {"ALLOW", "READ"}
    InitialRegistry <- MCRegistry
    TTL = 2
    MaxTime = 4
    MaxTokens = 2
INVARIANTS
    WithdrawalTakesEffect
