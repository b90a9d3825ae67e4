SPECIFICATION FairSpec
CONSTANTS
    TopSupported = FALSE
    MaxErrors = 6
    MaxOpens = 1
PROPERTIES
    RecoveryHappens
CHECK_DEADLOCK FALSE
