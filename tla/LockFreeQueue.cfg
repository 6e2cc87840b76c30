SPECIFICATION FairSpec
CONSTANTS
    p1 = p1
    p2 = p2
    a1 = a1
    a2 = a2
    a3 = a3
    a4 = a4
    Null = Null
    Producers <- MCProducers
    Addr <- MCAddr
    MaxPush = 2
INVARIANTS
    NoUseAfterFree
    NoLeak
PROPERTIES
    EmptyAnswer
    ImplementsFifo
    EveryPushArrives
\* Every thread may be done and the queue destroyed.
CHECK_DEADLOCK FALSE
