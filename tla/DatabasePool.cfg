SPECIFICATION FairSpec
CONSTANTS
    t1 = t1
    t2 = t2
    t3 = t3
    Thread = {t1, t2, t3}
    PoolSize = 2
    Rows = 2
    Offers <- EveryKind
    DumpThrows = TRUE
    MaxOps = 1
INVARIANTS
    ExclusiveConnection
    PoolIsClean
PROPERTIES
    ImplementsStore
    OperationsReturn
\* Every thread may have used up its MaxOps operations.
CHECK_DEADLOCK FALSE
