SPECIFICATION FairSpec
CONSTANTS
    P2pVifs = {p}
    StaVifs = {s}
    Channels = {c}
    Durations = {1}
    MaxRocs = 2
    MaxScans = 1
    MaxRestarts = 0
    MaxCloses = 1
PROPERTIES
    DeferredScanRuns
CHECK_DEADLOCK FALSE
