SPECIFICATION FairSpec
CONSTANTS
    q0 = q0
    Queues = {q0}
    DefQueue = q0
    QueueSize = 16
    RX_POST_REQ_ALLOC = 2
    RX_CLAIM_REQ_ALLOC = 4
    WrAlign = 2
    EmergencyBatch = 2
    MaxClosed = 3
    AtomicMayFail = FALSE
    InitMayFail = FALSE
INVARIANTS
    TypeOK
    LocalEmptyCoversRequest
    ClaimsAreCovered
    RingsNeverFull
PROPERTIES
    StarvedDeviceRestocked
