SPECIFICATION FairSpec
CONSTANTS
    Message <- SomeMessages
    PoolSize = 2
    MayRefuse = TRUE
    MaxId = 1
    MaxMessages = 2
    MaxTime = 1
INVARIANTS
    PointsUnderTheirCrack
    WholeOrNothing
PROPERTIES
    EveryMessageEnds
    ImplementsJournal
\* No message may come any more.
CHECK_DEADLOCK FALSE
