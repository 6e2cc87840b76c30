SPECIFICATION HttpFairSpec
CONSTANTS
    Thread = {io1, io2}
    Client = {c1, c2}
    Request <- SomeRequests
    PoolSize = 2
    Others = {alertws}
    Cracks = 1
    NoClient = none
    NoThread = nobody
INVARIANTS
    OneConnectionForHttp
PROPERTIES
    RequestsEnd
\* The server may have been stopped.
CHECK_DEADLOCK FALSE
