SPECIFICATION FairSpec
CONSTANTS
    t1 = t1
    t2 = t2
    Threads = {t1, t2}
    MaxSessions = 2
    MaxBacklog = 1
    MaxHw = 2
PROPERTIES
    TxqResumes
CHECK_DEADLOCK FALSE
