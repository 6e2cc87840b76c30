SPECIFICATION Spec
CONSTANTS
    s1 = s1
    s2 = s2
    t1 = t1
    t2 = t2
    t3 = t3
    Session <- TwoSessions
    IoThread <- ThreeThreads
    Handshake <- FirstSession
    MaxBroadcast = 3
INVARIANTS
    OneWrite
    NothingLost
\* All messages may have been sent, or all io threads may be blocked.
CHECK_DEADLOCK FALSE
