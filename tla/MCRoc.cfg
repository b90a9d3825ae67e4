SPECIFICATION FairSpec
CONSTANTS
    P2pVifs = {p}
    StaVifs = {s}
    Channels = {c}
    Durations = {1}
    MaxRocs = 3
    MaxScans = 1
    MaxRestarts = 1
    MaxCloses = 1
INVARIANTS
    TypeOK
    NoStaleReady
    SessionOwned
PROPERTIES
    RequestsEnd
CHECK_DEADLOCK FALSE
