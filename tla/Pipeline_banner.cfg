SPECIFICATION FairSpec
CONSTANTS
    l1 = l1
    l2 = l2
    v1 = v1
    LaserFrame = {l1}
    VibrationFrame = {v1}
    Cracks <- OneCrack
    Unwired <- AsBuilt
    MayThrow <- NoThrow
    NotUtf8 <- NoFrame
    PoolSize = 1
PROPERTIES
    LaserReachesAlertWs
\* The server may have been stopped.
CHECK_DEADLOCK FALSE
