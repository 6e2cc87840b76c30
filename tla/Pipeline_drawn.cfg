SPECIFICATION Spec
CONSTANTS
    l1 = l1
    l2 = l2
    v1 = v1
    LaserFrame = {l1, l2}
    VibrationFrame = {}
    Cracks <- OneEach
    Unwired <- AsDrawn
    MayThrow <- FanOutThrows
    NotUtf8 <- NoFrame
    PoolSize = 1
INVARIANTS
    ExactlyOnePlace
    StoppedInOrder
PROPERTIES
    ImplementsService
\* The server may have been stopped.
CHECK_DEADLOCK FALSE
