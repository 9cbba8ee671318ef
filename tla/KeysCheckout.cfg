SPECIFICATION Spec
CONSTANTS
    NoFile = NoFile
    Torn = Torn
    Processes = {1}
    Deployments = {"checkout"}
    TwoCreators = FALSE
    CrashAllowed = FALSE
    MaxKeys = 1
INVARIANT
    EverySignedRecordVerifies
