SPECIFICATION FairSpec
CONSTANTS
    Report <- MCReport
    DepthThreshold = 2
    WidthThreshold = 2
    SmsEnabled = TRUE
    WebsocketEnabled = TRUE
    MaxReports = 3
INVARIANTS
    Accounting
    SentInOrder
    NoMissedAlert
PROPERTIES
    StoredIsSent
    StopReturns
\* The program may have stopped.
CHECK_DEADLOCK FALSE
