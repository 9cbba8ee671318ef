SPECIFICATION StartSpec
CONSTANTS
    NoFile = NoFile
    Torn = Torn
    Processes = {1, 2, 3}
    Deployments = {"empty", "established"}
    TwoCreators = FALSE
    CrashAllowed = TRUE
    MaxKeys = 4
INVARIANTS
    StartTypeOK
    OnlyACutKeyFails
    SignersAgreeWithFiles
    TokensVerifyEverywhere
PROPERTY
    VerifiesForEver
