SPECIFICATION FairSpec
CONSTANTS
    l1 = l1
    l2 = l2
    v1 = v1
    LaserFrame = {l1}
    VibrationFrame = {v1}
    Cracks <- OneCrack
    Unwired <- AsDrawn
    MayThrow <- PredictorThrows
    NotUtf8 <- BothBroken
    PoolSize = 2
PROPERTIES
    DueIsHandled
    StopCompletes
\* The server may have been stopped.
CHECK_DEADLOCK FALSE
