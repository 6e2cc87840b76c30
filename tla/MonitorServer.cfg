SPECIFICATION FairSpec
CONSTANTS
    Setting <- SomeSettings
    Contents <- SomeContents
    Environment <- SomeEnvironments
    WrongType = WrongType
    Connection = {c1, c2}
    Datagram = {"d1", "d2"}
    From <- FewSenders
    Parses = {"d1", "d2"}
    Room = 1
    Garbage = "garbage"
    Crack = {0, 400, 600}
    time_steps = 100
    Half = 2
    MaxDist = 4
    MinDist = 2
    Fixed <- FewFixed
    ContactForce <- PullOrPush
    MAX_CONTACTS = 2
    CheckEvery = 2
    Laser <- FewCracks
    Vibration = {0, 2}
    JsonSize = 3
INVARIANTS
    Layered
    AnswersGoBack
    ForecastAt720
    HeldByCrack
    NoPartialMeasurement
PROPERTY
    ServedWhileUp
\* The parts return, or wait for the plant.
CHECK_DEADLOCK FALSE
