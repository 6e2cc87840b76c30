--------------------------- MODULE MCDatabasePool ---------------------------
(* A small instance of DatabasePool for TLC.                                *)
EXTENDS DatabasePool

CONSTANTS t1, t2, t3

\* Between them the threads perform every kind of operation.
EveryKind == [t \in {t1, t2, t3} |->
    CASE t = t1 -> {"dump", "query"}
      [] t = t2 -> {"points", "batch"}
      [] t = t3 -> {"detections", "statement"}]
=============================================================================
