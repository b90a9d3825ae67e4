SPECIFICATION Spec
CONSTANTS
    q0 = q0
    q1 = q1
    Queues = {q0, q1}
    SnMod = 16
    BufSize = 4
    FirstSn = 14
    MaxMpdus = 3
    Amsdu = {15}
    MaxFifo = 2
    MaxSyncs = 2
    MaxCopies = 2
INVARIANTS
    TypeOK
    NothingStranded
PROPERTIES
    SyncFlushes
    DeliversInOrder
CHECK_DEADLOCK FALSE
