SPECIFICATION FairSpec
CONSTANTS
    MaxTfd = 8
    NWindow = 4
    SendInRfkill = FALSE
    MaxCmds = 5
INVARIANTS
    TypeOK
    
PROPERTIES
    SyncMeansAnswered
    NoStaleCompletion
    CommandsReturn
CHECK_DEADLOCK FALSE
