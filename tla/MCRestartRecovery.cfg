SPECIFICATION FairSpec
CONSTANTS
    TopSupported = TRUE
    MaxErrors = 5
    MaxOpens = 1

    
PROPERTIES
    NoSwResetLoop
    RecoveryHappens
CHECK_DEADLOCK FALSE
