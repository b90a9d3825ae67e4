SPECIFICATION FairSpec
CONSTANTS
    t1 = t1
    t2 = t2
    Threads = {t1, t2}
    MaxSessions = 2
    MaxBacklog = 2
    MaxHw = 2
INVARIANTS
    TypeOK
    NoStartRace
    TxPathsFinished
    NoTxHangs
    TimersBelongToSession
PROPERTIES
    SessionsSettle
CHECK_DEADLOCK FALSE
