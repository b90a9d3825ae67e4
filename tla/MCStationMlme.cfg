SPECIFICATION FairSpec
CONSTANTS
    a1 = a1
    a2 = a2
    APs = {a1, a2}
    MaxTries = 2
    MaxNull = 2
    Short = 1
    Long = 2
    Wait = 2
    MaxRequests = 2
    ContFails = FALSE
INVARIANTS
    TypeOK
    NothingStuck
    PhaseAgrees
PROPERTIES
    AttemptsEnd
CHECK_DEADLOCK FALSE
