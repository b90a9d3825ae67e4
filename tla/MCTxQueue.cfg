SPECIFICATION FairSpec
CONSTANTS
    t1 = t1
    t2 = t2
    rx = rx
    Threads = {t1, t2}
    Reclaimer = rx
    MaxTfd = 16
    NWindow = 8
    FirstTfd = 7
    BurstSizes = {3}
    MaxFrames = 12
    MaxNotifs = 1
    MaxDmaFails = 1
INVARIANTS
    TypeOK
    RingHoldsFrames
    NoEarlyFree
    StopIsWakeable
    WaitMeansEmpty
PROPERTIES
    EventuallyDrained
CHECK_DEADLOCK FALSE
