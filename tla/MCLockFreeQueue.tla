-------------------------- MODULE MCLockFreeQueue --------------------------
(* Small instances of LockFreeQueue for TLC.                               *)
EXTENDS LockFreeQueue

CONSTANTS p1, p2, a1, a2, a3, a4

MCProducers == {p1, p2}
MCAddr == {a1, a2, a3, a4}
=============================================================================
