SPECIFICATION Spec
CONSTANTS
    Base = 2
    HeaderSize = 4
    CutLengthAt = 2
    LengthAt = 4
    PayloadAt = 6
    ReadSize = 5
    MaxFrameBuf = 7
    LASER_DATA = 1
    VIBRATION_DATA = 2
    LaserParses <- NotEmpty
    VibrationParses <- NotEmpty
    Streams <- AllStreams
    Room = 1
INVARIANTS
    FramesTile
    NoFrameWaits
    NeverOverflows
\* The session may be over and all acknowledges read.
CHECK_DEADLOCK FALSE
