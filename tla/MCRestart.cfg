SPECIFICATION Spec
CONSTANTS
    TopSupported = FALSE
    MaxErrors = 7
    MaxOpens = 3
INVARIANTS
    TypeOK
    PendingHasWorker
    FailureIsClaimed
CHECK_DEADLOCK FALSE
