SPECIFICATION SensorFairSpec
CONSTANTS
    Worker = {w1, w2}
    MaxReconnect = 2
    MaxWrites = 1
INVARIANTS
    NeverStuck
PROPERTIES
    Reconnects
\* A sensor that has given up may have nothing left to do.
CHECK_DEADLOCK FALSE
