------------------------- MODULE DatabasePool_proofs -------------------------
(***************************************************************************)
(* Proofs about DatabasePool, for any threads, size of the pool, length of *)
(* transactions and number of operations.                                  *)
(***************************************************************************)
EXTENDS DatabasePool, SequenceTheorems, TLAPS

\* Exclusiveness is about the stack and the hands only.
LEMMA ExclusiveKept ==
    ASSUME ExclusiveConnection, UNCHANGED <<available, pool, conn, dumped>>
    PROVE  ExclusiveConnection'
  BY DEF ExclusiveConnection, InPool

\* A thread alone holds its connection, which is not in the stack.
LEMMA HeldFacts ==
    ASSUME IInv, NEW t \in Thread, pc[t] \in Holding
    PROVE  /\ conn[t] \in pool /\ conn[t] \in Conn /\ conn[t] # NoConn
           /\ ~InPool(conn[t])
           /\ \A u \in Thread : conn[u] = conn[t] => u = t
  BY DEF IInv, TypeOK, HandInv, ExclusiveConnection

\* A step that touches no transaction but its own thread's keeps the others'.
LEMMA OthersTransactions ==
    ASSUME IInv, TypeOK', NEW t \in Thread, pc[t] \in Holding,
           \A c \in Conn \ {conn[t]} : txn'[c] = txn[c] /\ pending'[c] = pending[c],
           txn'[conn[t]] # "open" => pending'[conn[t]] = {},
           \A u \in Thread \ {t} :
               /\ conn'[u] = conn[u] /\ row'[u] = row[u] /\ ops'[u] = ops[u] /\ kind'[u] = kind[u]
               /\ pc'[u] = pc[u] \/ pc'[u] \notin Holding,
           TransactionOf(t)'
    PROVE  TransactionInv'
<1>1. ASSUME NEW c \in Conn, txn'[c] # "open" PROVE pending'[c] = {}
  BY <1>1 DEF IInv, TransactionInv
<1>2. ASSUME NEW u \in Thread PROVE TransactionOf(u)'
  <2>1. CASE u = t
    BY <2>1
  <2>2. CASE u # t /\ pc'[u] \notin Holding
    BY <2>2 DEF TransactionOf, Holding
  <2>3. CASE u # t /\ pc'[u] = pc[u] /\ pc[u] \in Holding
    <3>1. conn[u] \in Conn \ {conn[t]}
      BY <2>3, HeldFacts
    <3> QED BY <2>3, <3>1 DEF IInv, TransactionInv, TransactionOf, Clean
  <2> QED BY <2>1, <2>2, <2>3
<1> QED BY <1>1, <1>2 DEF TransactionInv

\* ... and as long as the stack stays, what is in it stays clean.
LEMMA StackStaysClean ==
    ASSUME IInv, NEW t \in Thread, pc[t] \in Holding, available' = available,
           \A c \in Conn \ {conn[t]} : txn'[c] = txn[c] /\ pending'[c] = pending[c]
    PROVE  PoolIsClean'
<1>1. ASSUME NEW c \in Conn, InPool(c)' PROVE c \in Conn \ {conn[t]} /\ InPool(c)
  BY <1>1, HeldFacts DEF InPool
<1> QED BY <1>1 DEF PoolIsClean, IInv

-----------------------------------------------------------------------------
(* Steps that leave every connection where it is *)

LEMMA WaitIInv ==
    ASSUME IInv, NEW t \in Thread, Wait(t)
    PROVE  IInv'
<1>1. TypeOK'
  BY PoolAssumption, OffersAssumption DEF Wait, IInv, TypeOK, HandInv, Kind, Conn, Row, Holding
<1>2. ExclusiveConnection'
  BY ExclusiveKept DEF Wait, IInv
<1>3. HandInv'
  BY PoolAssumption, OffersAssumption DEF Wait, IInv, TypeOK, HandInv, NoConn, Holding, Kind, Conn
<1>4. TransactionInv'
  BY DEF Wait, IInv, TypeOK, TransactionInv, TransactionOf, Clean, Holding
<1>5. StoredInv'
  BY PoolAssumption, OffersAssumption DEF Wait, IInv, TypeOK, HandInv, StoredInv, TransactionInv,
      TransactionOf, Holding
<1>6. PoolIsClean'
  BY DEF Wait, IInv, PoolIsClean, InPool
<1> QED BY <1>1, <1>2, <1>3, <1>4, <1>5, <1>6 DEF IInv

LEMMA FormatIInv ==
    ASSUME IInv, NEW t \in Thread, Format(t)
    PROVE  IInv'
<1>1. TypeOK'
  BY PoolAssumption, OffersAssumption DEF Format, IInv, TypeOK, HandInv, Kind, Conn, Row, Holding
<1>2. ExclusiveConnection'
  BY ExclusiveKept DEF Format, IInv
<1>3. HandInv'
  BY PoolAssumption, OffersAssumption DEF Format, IInv, TypeOK, HandInv, NoConn, Holding, Kind, Conn
<1>4. TransactionInv'
  BY DEF Format, IInv, TypeOK, TransactionInv, TransactionOf, Clean, Holding
<1>5. StoredInv'
  BY PoolAssumption, OffersAssumption DEF Format, IInv, TypeOK, HandInv, StoredInv, TransactionInv,
      TransactionOf, Holding
<1>6. PoolIsClean'
  BY DEF Format, IInv, PoolIsClean, InPool
<1> QED BY <1>1, <1>2, <1>3, <1>4, <1>5, <1>6 DEF IInv

LEMMA ExecuteIInv ==
    ASSUME IInv, NEW t \in Thread, Execute(t)
    PROVE  IInv'
<1>1. TypeOK'
  BY PoolAssumption, OffersAssumption DEF Execute, IInv, TypeOK, HandInv, Kind, Conn, Row, Holding
<1>2. ExclusiveConnection'
  BY ExclusiveKept DEF Execute, IInv
<1>3. HandInv'
  BY PoolAssumption, OffersAssumption DEF Execute, IInv, TypeOK, HandInv, NoConn, Holding, Kind,
      Conn
<1>4. TransactionInv'
  BY DEF Execute, IInv, TypeOK, TransactionInv, TransactionOf, Clean, Holding
<1>5. StoredInv'
  BY PoolAssumption, OffersAssumption DEF Execute, IInv, TypeOK, HandInv, StoredInv, TransactionInv,
      TransactionOf, Holding
<1>6. PoolIsClean'
  BY DEF Execute, IInv, PoolIsClean, InPool
<1> QED BY <1>1, <1>2, <1>3, <1>4, <1>5, <1>6 DEF IInv

LEMMA QueryIInv ==
    ASSUME IInv, NEW t \in Thread, Query(t)
    PROVE  IInv'
<1>1. TypeOK'
  BY PoolAssumption, OffersAssumption DEF Query, IInv, TypeOK, HandInv, Kind, Conn, Row, Holding
<1>2. ExclusiveConnection'
  BY ExclusiveKept DEF Query, IInv
<1>3. HandInv'
  BY PoolAssumption, OffersAssumption DEF Query, IInv, TypeOK, HandInv, NoConn, Holding, Kind, Conn
<1>4. TransactionInv'
  BY DEF Query, IInv, TypeOK, TransactionInv, TransactionOf, Clean, Holding
<1>5. StoredInv'
  BY PoolAssumption, OffersAssumption DEF Query, IInv, TypeOK, HandInv, StoredInv, TransactionInv,
      TransactionOf, Holding
<1>6. PoolIsClean'
  BY DEF Query, IInv, PoolIsClean, InPool
<1> QED BY <1>1, <1>2, <1>3, <1>4, <1>5, <1>6 DEF IInv

LEMMA BeginIInv ==
    ASSUME IInv, NEW t \in Thread, NEW k \in Offers[t], Begin(t, k)
    PROVE  IInv'
<1>0. k \in Kind /\ ops[t] + 1 \in 1..MaxOps /\ phase = "ready"
  <2>1. k \in Kind
    BY OffersAssumption
  <2>2. ops[t] + 1 \in 1..MaxOps /\ phase = "ready"
    BY PoolAssumption DEF Begin, IInv, TypeOK
  <2> QED BY <2>1, <2>2
<1>1. TypeOK'
  BY PoolAssumption, OffersAssumption, <1>0 DEF Begin, IInv, TypeOK, HandInv, Kind, Conn, Row,
      Holding
<1>2. ExclusiveConnection'
  BY ExclusiveKept DEF Begin, IInv
<1>3. HandInv'
  BY PoolAssumption, OffersAssumption, <1>0 DEF Begin, IInv, TypeOK, HandInv, NoConn, Holding, Kind,
      Conn
<1>4. TransactionInv'
  BY DEF Begin, IInv, TypeOK, TransactionInv, TransactionOf, Clean, Holding
<1>5. StoredInv'
  BY PoolAssumption, OffersAssumption DEF Begin, IInv, TypeOK, HandInv, StoredInv, TransactionInv,
      TransactionOf, Holding
<1>6. PoolIsClean'
  BY DEF Begin, IInv, PoolIsClean, InPool
<1> QED BY <1>1, <1>2, <1>3, <1>4, <1>5, <1>6 DEF IInv

LEMMA BeginTransactionIInv ==
    ASSUME IInv, NEW t \in Thread, BeginTransaction(t)
    PROVE  IInv'
<1>0. pc[t] \in Holding /\ conn[t] \in Conn
  BY HeldFacts DEF BeginTransaction, Holding
<1>1. TypeOK'
  <2>1. CASE txn[conn[t]] = "closed"
    BY <2>1 DEF BeginTransaction, IInv, TypeOK
  <2>2. CASE txn[conn[t]] # "closed"
    BY <2>2 DEF BeginTransaction, IInv, TypeOK
  <2> QED BY <2>1, <2>2
<1>2. ExclusiveConnection'
  BY ExclusiveKept DEF BeginTransaction, IInv
<1>3. HandInv'
  BY PoolAssumption, OffersAssumption, <1>0 DEF BeginTransaction, IInv, TypeOK, HandInv, NoConn,
      Holding, Kind, Conn
<1>4. TransactionInv'
  <2>1. \A c \in Conn \ {conn[t]} : txn'[c] = txn[c] /\ pending'[c] = pending[c]
    BY <1>0 DEF BeginTransaction, IInv, TypeOK
  <2>2. \A u \in Thread \ {t} :
            /\ conn'[u] = conn[u] /\ row'[u] = row[u] /\ ops'[u] = ops[u] /\ kind'[u] = kind[u]
            /\ pc'[u] = pc[u]
    BY DEF BeginTransaction, IInv, TypeOK
  <2>3. txn'[conn[t]] # "open" => pending'[conn[t]] = {}
    BY <1>0 DEF BeginTransaction, IInv, TypeOK, TransactionInv, TransactionOf, Clean, Holding
  <2>4. TransactionOf(t)'
    BY <1>0 DEF BeginTransaction, IInv, TypeOK, TransactionInv, TransactionOf, Clean, Holding
  <2> QED BY <1>0, <1>1, <2>1, <2>2, <2>3, <2>4, OthersTransactions
<1>5. StoredInv'
  BY PoolAssumption, OffersAssumption DEF BeginTransaction, IInv, TypeOK, HandInv, StoredInv,
      TransactionInv, TransactionOf, Holding
<1>6. PoolIsClean'
  BY <1>0, StackStaysClean DEF BeginTransaction, IInv, TypeOK
<1> QED BY <1>1, <1>2, <1>3, <1>4, <1>5, <1>6 DEF IInv

LEMMA InsertRowIInv ==
    ASSUME IInv, NEW t \in Thread, InsertRow(t)
    PROVE  IInv'
<1>0. pc[t] \in Holding /\ conn[t] \in Conn
  BY HeldFacts DEF InsertRow, Holding
<1>1. TypeOK'
  <2>1. row[t] + 1 \in 0..Rows /\ row[t] + 1 \in 1..Rows /\ ops[t] \in 1..MaxOps
    BY PoolAssumption DEF InsertRow, IInv, TypeOK, HandInv
  <2>2. row' \in [Thread -> 0..Rows] /\ result' \in [Thread -> {"ok", "failed"}]
    BY <2>1 DEF InsertRow, IInv, TypeOK
  <2>3. pending' \in [Conn -> SUBSET Row]
    <3>1. <<t, ops[t], row[t] + 1>> \in Row
      BY <2>1 DEF Row
    <3> QED BY <3>1 DEF InsertRow, IInv, TypeOK
  <2> QED BY <2>2, <2>3 DEF InsertRow, IInv, TypeOK
<1>2. ExclusiveConnection'
  BY ExclusiveKept DEF InsertRow, IInv
<1>3. HandInv'
  BY PoolAssumption, OffersAssumption, <1>0 DEF InsertRow, IInv, TypeOK, HandInv, NoConn, Holding,
      Kind, Conn
<1>4. TransactionInv'
  <2>1. \A c \in Conn \ {conn[t]} : txn'[c] = txn[c] /\ pending'[c] = pending[c]
    BY <1>0 DEF InsertRow, IInv, TypeOK
  <2>2. \A u \in Thread \ {t} :
            /\ conn'[u] = conn[u] /\ row'[u] = row[u] /\ ops'[u] = ops[u] /\ kind'[u] = kind[u]
            /\ pc'[u] = pc[u]
    BY DEF InsertRow, IInv, TypeOK
  <2>3. txn'[conn[t]] # "open" => pending'[conn[t]] = {}
    BY <1>0 DEF InsertRow, IInv, TypeOK, TransactionInv, TransactionOf, Clean, Holding
  <2>4. TransactionOf(t)'
    BY <1>0 DEF InsertRow, IInv, TypeOK, TransactionInv, TransactionOf, Clean, Holding
  <2> QED BY <1>0, <1>1, <2>1, <2>2, <2>3, <2>4, OthersTransactions
<1>5. StoredInv'
  BY PoolAssumption, OffersAssumption DEF InsertRow, IInv, TypeOK, HandInv, StoredInv,
      TransactionInv, TransactionOf, Holding
<1>6. PoolIsClean'
  BY <1>0, StackStaysClean DEF InsertRow, IInv, TypeOK
<1> QED BY <1>1, <1>2, <1>3, <1>4, <1>5, <1>6 DEF IInv

LEMMA InsertPointFailsIInv ==
    ASSUME IInv, NEW t \in Thread, InsertPointFails(t)
    PROVE  IInv'
<1>0. pc[t] \in Holding /\ conn[t] \in Conn
  BY HeldFacts DEF InsertPointFails, Holding, FailedRow
<1>1. TypeOK'
  <2>1. row[t] + 1 \in 0..Rows
    BY PoolAssumption DEF InsertPointFails, FailedRow, IInv, TypeOK
  <2>2. txn' \in [Conn -> {"closed", "idle", "open", "aborted"}]
    BY DEF InsertPointFails, FailedRow, IInv, TypeOK
  <2>3. pending' \in [Conn -> SUBSET Row]
    BY DEF InsertPointFails, FailedRow, IInv, TypeOK
  <2> QED BY <2>1, <2>2, <2>3 DEF InsertPointFails, IInv, TypeOK
<1>2. ExclusiveConnection'
  BY ExclusiveKept DEF InsertPointFails, IInv
<1>3. HandInv'
  BY PoolAssumption, OffersAssumption, <1>0 DEF InsertPointFails, IInv, TypeOK, HandInv, NoConn,
      Holding, Kind, FailedRow, Conn
<1>4. TransactionInv'
  <2>1. \A c \in Conn \ {conn[t]} : txn'[c] = txn[c] /\ pending'[c] = pending[c]
    BY <1>0 DEF InsertPointFails, IInv, TypeOK, FailedRow
  <2>2. \A u \in Thread \ {t} :
            /\ conn'[u] = conn[u] /\ row'[u] = row[u] /\ ops'[u] = ops[u] /\ kind'[u] = kind[u]
            /\ pc'[u] = pc[u]
    BY DEF InsertPointFails, IInv, TypeOK, FailedRow
  <2>3. txn'[conn[t]] # "open" => pending'[conn[t]] = {}
    BY <1>0 DEF InsertPointFails, IInv, TypeOK, TransactionInv, TransactionOf, Clean, Holding,
        FailedRow
  <2>4. TransactionOf(t)'
    BY <1>0 DEF InsertPointFails, IInv, TypeOK, TransactionInv, TransactionOf, Clean, Holding,
        FailedRow
  <2> QED BY <1>0, <1>1, <2>1, <2>2, <2>3, <2>4, OthersTransactions
<1>5. StoredInv'
  BY PoolAssumption, OffersAssumption DEF InsertPointFails, IInv, TypeOK, HandInv, StoredInv,
      TransactionInv, TransactionOf, Holding, FailedRow
<1>6. PoolIsClean'
  BY <1>0, StackStaysClean DEF InsertPointFails, IInv, TypeOK, FailedRow
<1> QED BY <1>1, <1>2, <1>3, <1>4, <1>5, <1>6 DEF IInv

LEMMA BatchRowFailsIInv ==
    ASSUME IInv, NEW t \in Thread, BatchRowFails(t)
    PROVE  IInv'
<1>0. pc[t] \in Holding /\ conn[t] \in Conn
  BY HeldFacts DEF BatchRowFails, Holding, FailedRow
<1>1. TypeOK'
  BY PoolAssumption, OffersAssumption, <1>0 DEF BatchRowFails, IInv, TypeOK, HandInv, Kind,
      FailedRow, Conn, Row, Holding
<1>2. ExclusiveConnection'
  BY ExclusiveKept DEF BatchRowFails, IInv
<1>3. HandInv'
  BY PoolAssumption, OffersAssumption, <1>0 DEF BatchRowFails, IInv, TypeOK, HandInv, NoConn,
      Holding, Kind, FailedRow, Conn
<1>4. TransactionInv'
  <2>1. \A c \in Conn \ {conn[t]} : txn'[c] = txn[c] /\ pending'[c] = pending[c]
    BY <1>0 DEF BatchRowFails, IInv, TypeOK, FailedRow
  <2>2. \A u \in Thread \ {t} :
            /\ conn'[u] = conn[u] /\ row'[u] = row[u] /\ ops'[u] = ops[u] /\ kind'[u] = kind[u]
            /\ pc'[u] = pc[u]
    BY DEF BatchRowFails, IInv, TypeOK, FailedRow
  <2>3. txn'[conn[t]] # "open" => pending'[conn[t]] = {}
    BY <1>0 DEF BatchRowFails, IInv, TypeOK, TransactionInv, TransactionOf, Clean, Holding,
        FailedRow
  <2>4. TransactionOf(t)'
    BY <1>0 DEF BatchRowFails, IInv, TypeOK, TransactionInv, TransactionOf, Clean, Holding,
        FailedRow
  <2> QED BY <1>0, <1>1, <2>1, <2>2, <2>3, <2>4, OthersTransactions
<1>5. StoredInv'
  BY PoolAssumption, OffersAssumption DEF BatchRowFails, IInv, TypeOK, HandInv, StoredInv,
      TransactionInv, TransactionOf, Holding, FailedRow
<1>6. PoolIsClean'
  BY <1>0, StackStaysClean DEF BatchRowFails, IInv, TypeOK, FailedRow
<1> QED BY <1>1, <1>2, <1>3, <1>4, <1>5, <1>6 DEF IInv

\* what a COMMIT leaves behind, heard of or not
LEMMA CommitTypes ==
    ASSUME IInv, NEW t \in Thread, conn[t] \in Conn, Committed(t) \/ CommittedUnheard(t)
    PROVE  /\ txn' \in [Conn -> {"closed", "idle", "open", "aborted"}]
           /\ pending' \in [Conn -> SUBSET Row]
           /\ stored' \subseteq Row
<1>1. pending[conn[t]] \subseteq Row /\ stored \subseteq Row
  BY DEF IInv, TypeOK
<1>2. CASE Committed(t)
  <2>1. stored' \subseteq Row
    BY <1>1, <1>2 DEF Committed
  <2>2. pending' \in [Conn -> SUBSET Row]
    BY <1>2 DEF Committed, IInv, TypeOK
  <2>3. txn' \in [Conn -> {"closed", "idle", "open", "aborted"}]
    BY <1>2 DEF Committed, IInv, TypeOK
  <2> QED BY <2>1, <2>2, <2>3
<1>3. CASE CommittedUnheard(t)
  <2>1. stored' \subseteq Row
    BY <1>1, <1>3 DEF CommittedUnheard
  <2>2. pending' \in [Conn -> SUBSET Row]
    BY <1>3 DEF CommittedUnheard, IInv, TypeOK
  <2>3. txn' \in [Conn -> {"closed", "idle", "open", "aborted"}]
    BY <1>3 DEF CommittedUnheard, IInv, TypeOK
  <2> QED BY <2>1, <2>2, <2>3
<1> QED BY <1>2, <1>3

LEMMA CommitIInv ==
    ASSUME IInv, NEW t \in Thread, Commit(t)
    PROVE  IInv'
<1>0. pc[t] \in Holding /\ conn[t] \in Conn
  BY HeldFacts DEF Commit, Holding, Committed, CommittedUnheard
<1>1. TypeOK'
  <2>1. /\ txn' \in [Conn -> {"closed", "idle", "open", "aborted"}]
        /\ pending' \in [Conn -> SUBSET Row]
        /\ stored' \subseteq Row
    BY <1>0, CommitTypes DEF Commit
  <2> QED BY <2>1 DEF Commit, IInv, TypeOK
<1>2. ExclusiveConnection'
  BY ExclusiveKept DEF Commit, IInv
<1>3. HandInv'
  BY PoolAssumption, OffersAssumption, <1>0 DEF Commit, IInv, TypeOK, HandInv, NoConn, Holding,
      Kind, Committed, CommittedUnheard, Conn
<1>4. TransactionInv'
  <2>1. \A c \in Conn \ {conn[t]} : txn'[c] = txn[c] /\ pending'[c] = pending[c]
    BY <1>0 DEF Commit, IInv, TypeOK, Committed, CommittedUnheard
  <2>2. \A u \in Thread \ {t} :
            /\ conn'[u] = conn[u] /\ row'[u] = row[u] /\ ops'[u] = ops[u] /\ kind'[u] = kind[u]
            /\ pc'[u] = pc[u]
    BY DEF Commit, IInv, TypeOK, Committed, CommittedUnheard
  <2>3. txn'[conn[t]] # "open" => pending'[conn[t]] = {}
    BY <1>0 DEF Commit, IInv, TypeOK, TransactionInv, TransactionOf, Clean, Holding, Committed,
        CommittedUnheard
  <2>4. TransactionOf(t)'
    BY <1>0 DEF Commit, IInv, TypeOK, TransactionInv, TransactionOf, Clean, Holding, Committed,
        CommittedUnheard
  <2> QED BY <1>0, <1>1, <2>1, <2>2, <2>3, <2>4, OthersTransactions
<1>5. StoredInv'
  <2>1. /\ pc[t] = "insert" /\ row[t] = Rows /\ ops[t] \in 1..MaxOps
        /\ pc'[t] \in {"rollback", "release"}
        /\ \A u \in Thread \ {t} : pc'[u] = pc[u]
        /\ UNCHANGED <<ops, kind, result>>
    BY DEF Commit, Committed, CommittedUnheard, IInv, TypeOK, HandInv
  <2>2. PICK new : /\ stored' = stored \union new
                   /\ \A r \in new : r \in {<<t, ops[t], i>> : i \in 1..Rows}
                   /\ pc'[t] = "release" /\ kind[t] = "detections" =>
                          new = {<<t, ops[t], i>> : i \in 1..Rows}
    <3>1. txn[conn[t]] = "open" => pending[conn[t]] = {<<t, ops[t], i>> : i \in 1..Rows}
      BY <2>1 DEF IInv, TransactionInv, TransactionOf
    <3>2. txn[conn[t]] # "idle" /\ (txn[conn[t]] = "aborted" => kind[t] = "points")
      BY <2>1 DEF IInv, TransactionInv, TransactionOf
    <3>3. txn[conn[t]] \in {"closed", "idle", "open", "aborted"}
      BY <1>0 DEF IInv, TypeOK
    <3>4. CASE txn[conn[t]] = "open"
      BY <3>1, <3>4 DEF Commit, Committed, CommittedUnheard
    <3>5. CASE txn[conn[t]] # "open"
      <4>1. Committed(t)
        BY <3>5 DEF Commit, CommittedUnheard
      <4>2. stored' = stored \union {}
        BY <3>5, <4>1 DEF Committed
      <4>3. pc \in [Thread -> {"idle", "acquire", "blocked", "format", "execute", "query", "begin",
                              "insert", "rollback", "release"}]
        BY DEF IInv, TypeOK
      <4>4. pc' = [pc EXCEPT ![t] = IF txn[conn[t]] = "closed" THEN "rollback" ELSE "release"]
        BY <3>5 DEF Commit, CommittedUnheard
      <4>5. txn[conn[t]] = "closed" => pc'[t] = "rollback"
        BY <4>3, <4>4
      <4>6. pc'[t] = "release" => kind[t] # "detections"
        BY <3>2, <3>3, <3>5, <4>5
      <4> WITNESS {}
      <4> QED BY <4>2, <4>6
    <3> QED BY <3>4, <3>5
  <2>3. ASSUME NEW u \in Thread, NEW n \in 1..MaxOps, NEW i \in 1..Rows, <<u, n, i>> \notin stored,
               u # t \/ n # ops[t]
        PROVE  <<u, n, i>> \notin stored'
    BY <2>2, <2>3
  <2>4. ASSUME NEW u \in Thread, NEW n \in 1..MaxOps, NEW i \in 1..Rows,
               n > ops'[u] \/ (n = ops'[u] /\ pc'[u] \in {"acquire", "blocked", "begin", "insert"})
        PROVE  <<u, n, i>> \notin stored'
    <3>1. u = t => n # ops[t]
      BY <2>1, <2>4
    <3>2. <<u, n, i>> \notin stored
      BY <2>1, <2>4 DEF IInv, StoredInv
    <3> QED BY <2>3, <3>1, <3>2
  <2>5. ASSUME NEW u \in Thread, pc'[u] = "release", kind'[u] = "detections", result'[u] = "ok",
               NEW i \in 1..Rows
        PROVE  <<u, ops'[u], i>> \in stored'
    BY <2>1, <2>2, <2>5 DEF IInv, StoredInv
  <2>6. \A u \in Thread : pc'[u] = "begin" => result'[u] = "failed"
    BY <2>1 DEF IInv, StoredInv
  <2> QED BY <2>4, <2>5, <2>6 DEF StoredInv
<1>6. PoolIsClean'
  BY <1>0, StackStaysClean DEF Commit, IInv, TypeOK, Committed, CommittedUnheard
<1> QED BY <1>1, <1>2, <1>3, <1>4, <1>5, <1>6 DEF IInv

LEMMA BatchCommitIInv ==
    ASSUME IInv, NEW t \in Thread, BatchCommit(t)
    PROVE  IInv'
<1>0. pc[t] \in Holding /\ conn[t] \in Conn
  BY HeldFacts DEF BatchCommit, Holding, Committed, CommittedUnheard
<1>1. TypeOK'
  <2>1. /\ txn' \in [Conn -> {"closed", "idle", "open", "aborted"}]
        /\ pending' \in [Conn -> SUBSET Row]
        /\ stored' \subseteq Row
    BY <1>0, CommitTypes DEF BatchCommit
  <2> QED BY <2>1 DEF BatchCommit, IInv, TypeOK
<1>2. ExclusiveConnection'
  BY ExclusiveKept DEF BatchCommit, IInv
<1>3. HandInv'
  BY PoolAssumption, OffersAssumption, <1>0 DEF BatchCommit, IInv, TypeOK, HandInv, NoConn, Holding,
      Kind, Committed, CommittedUnheard, Conn
<1>4. TransactionInv'
  <2>1. \A c \in Conn \ {conn[t]} : txn'[c] = txn[c] /\ pending'[c] = pending[c]
    BY <1>0 DEF BatchCommit, IInv, TypeOK, Committed, CommittedUnheard
  <2>2. \A u \in Thread \ {t} :
            /\ conn'[u] = conn[u] /\ row'[u] = row[u] /\ ops'[u] = ops[u] /\ kind'[u] = kind[u]
            /\ pc'[u] = pc[u]
    BY DEF BatchCommit, IInv, TypeOK, Committed, CommittedUnheard
  <2>3. txn'[conn[t]] # "open" => pending'[conn[t]] = {}
    BY <1>0 DEF BatchCommit, IInv, TypeOK, TransactionInv, TransactionOf, Clean, Holding, Committed,
        CommittedUnheard
  <2>4. TransactionOf(t)'
    BY <1>0 DEF BatchCommit, IInv, TypeOK, TransactionInv, TransactionOf, Clean, Holding, Committed,
        CommittedUnheard
  <2> QED BY <1>0, <1>1, <2>1, <2>2, <2>3, <2>4, OthersTransactions
<1>5. StoredInv'
  BY PoolAssumption, OffersAssumption DEF BatchCommit, IInv, TypeOK, HandInv, StoredInv,
      TransactionInv, TransactionOf, Holding, Committed, CommittedUnheard
<1>6. PoolIsClean'
  BY <1>0, StackStaysClean DEF BatchCommit, IInv, TypeOK, Committed, CommittedUnheard
<1> QED BY <1>1, <1>2, <1>3, <1>4, <1>5, <1>6 DEF IInv

LEMMA RollbackIInv ==
    ASSUME IInv, NEW t \in Thread, Rollback(t)
    PROVE  IInv'
<1>0. pc[t] \in Holding /\ conn[t] \in Conn
  BY HeldFacts DEF Rollback, Holding
<1>1. TypeOK'
  BY PoolAssumption, OffersAssumption, <1>0 DEF Rollback, IInv, TypeOK, HandInv, Kind, Conn, Row,
      Holding
<1>2. ExclusiveConnection'
  BY ExclusiveKept DEF Rollback, IInv
<1>3. HandInv'
  BY PoolAssumption, OffersAssumption, <1>0 DEF Rollback, IInv, TypeOK, HandInv, NoConn, Holding,
      Kind, Conn
<1>4. TransactionInv'
  <2>1. \A c \in Conn \ {conn[t]} : txn'[c] = txn[c] /\ pending'[c] = pending[c]
    BY <1>0 DEF Rollback, IInv, TypeOK
  <2>2. \A u \in Thread \ {t} :
            /\ conn'[u] = conn[u] /\ row'[u] = row[u] /\ ops'[u] = ops[u] /\ kind'[u] = kind[u]
            /\ pc'[u] = pc[u]
    BY DEF Rollback, IInv, TypeOK
  <2>3. txn'[conn[t]] # "open" => pending'[conn[t]] = {}
    BY <1>0 DEF Rollback, IInv, TypeOK, TransactionInv, TransactionOf, Clean, Holding
  <2>4. TransactionOf(t)'
    BY <1>0 DEF Rollback, IInv, TypeOK, TransactionInv, TransactionOf, Clean, Holding
  <2> QED BY <1>0, <1>1, <2>1, <2>2, <2>3, <2>4, OthersTransactions
<1>5. StoredInv'
  BY PoolAssumption, OffersAssumption DEF Rollback, IInv, TypeOK, HandInv, StoredInv,
      TransactionInv, TransactionOf, Holding
<1>6. PoolIsClean'
  BY <1>0, StackStaysClean DEF Rollback, IInv, TypeOK
<1> QED BY <1>1, <1>2, <1>3, <1>4, <1>5, <1>6 DEF IInv

-----------------------------------------------------------------------------
(* Connections change hands *)

LEMMA FirstStepFacts ==
    ASSUME NEW k \in Kind
    PROVE  \/ /\ FirstStep(k) \in {"format", "execute", "query"}
              /\ k \in {"statement", "query", "dump"}
           \/ /\ FirstStep(k) = "begin"
              /\ k \in {"points", "batch", "detections"}
  BY DEF FirstStep, Kind

\* acquire() takes the connection on top of the stack: it leaves the pool.
LEMMA PopFacts ==
    ASSUME IInv, available # <<>>,
           available' = SubSeq(available, 1, Len(available) - 1)
    PROVE  /\ available[Len(available)] \in pool
           /\ InPool(available[Len(available)])
           /\ available' \in Seq(pool)
           /\ \A i, j \in 1..Len(available') : available'[i] = available'[j] => i = j
           /\ \A c : InPool(c)' <=> InPool(c) /\ c # available[Len(available)]
<1>1. available \in Seq(pool) /\ Len(available) \in Nat /\ Len(available) >= 1
  BY LenProperties, EmptySeq DEF IInv, TypeOK
<1>2. /\ available' \in Seq(pool)
      /\ Len(available') = Len(available) - 1
      /\ \A i \in 1..(Len(available) - 1) : available'[i] = available[i]
  <2>1. \A i \in 1..(Len(available) - 1) : available[i] \in pool
    BY <1>1, ElementOfSeq
  <2> DEFINE n == Len(available) - 1
  <2>2. n \in Int /\ 1 \in Int /\ 1 <= n + 1
    BY <1>1
  <2> HIDE DEF n
  <2>3. /\ SubSeq(available, 1, n) \in Seq(pool)
        /\ Len(SubSeq(available, 1, n)) = IF 1 <= n THEN n - 1 + 1 ELSE 0
        /\ \A i \in 1..(n - 1 + 1) : SubSeq(available, 1, n)[i] = available[1 + i - 1]
    <3>1. \A i \in 1..n : available[i] \in pool
      BY <2>1 DEF n
    <3> QED BY <2>2, <3>1, SubSeqProperties
  <2>4. available' = SubSeq(available, 1, n)
    BY DEF n
  <2>5. Len(available') = n /\ \A i \in 1..n : available'[i] = available[i]
    BY <2>2, <2>3, <2>4
  <2> QED BY <2>3, <2>4, <2>5 DEF n
<1>3. \A i, j \in 1..Len(available) : available[i] = available[j] => i = j
  BY DEF IInv, ExclusiveConnection
<1>4. \A i, j \in 1..Len(available') : available'[i] = available'[j] => i = j
  BY <1>1, <1>2, <1>3
<1>5. ASSUME NEW c PROVE InPool(c)' <=> InPool(c) /\ c # available[Len(available)]
  <2>1. ASSUME NEW i \in 1..Len(available'), available'[i] = c
        PROVE  InPool(c) /\ c # available[Len(available)]
    <3>1. i \in 1..Len(available) /\ available[i] = c /\ i # Len(available)
      BY <1>1, <1>2, <2>1
    <3> QED BY <1>1, <1>3, <3>1 DEF InPool
  <2>2. ASSUME NEW i \in 1..Len(available), available[i] = c, c # available[Len(available)]
        PROVE  i \in 1..Len(available') /\ available'[i] = c
    BY <1>1, <1>2, <2>2
  <2> QED BY <2>1, <2>2 DEF InPool
<1>6. Len(available) \in 1..Len(available) /\ available[Len(available)] \in pool
  BY <1>1
<1> QED BY <1>2, <1>4, <1>5, <1>6 DEF InPool

\* release() pushes the connection: it is in the pool again.
LEMMA PushFacts ==
    ASSUME IInv, NEW c \in pool, ~InPool(c), available' = Append(available, c)
    PROVE  /\ available' \in Seq(pool)
           /\ \A i, j \in 1..Len(available') : available'[i] = available'[j] => i = j
           /\ \A d : InPool(d)' <=> InPool(d) \/ d = c
<1>1. available \in Seq(pool) /\ Len(available) \in Nat
  BY LenProperties DEF IInv, TypeOK
<1>2. /\ available' \in Seq(pool)
      /\ Len(available') = Len(available) + 1
      /\ \A i \in 1..Len(available) : available'[i] = available[i]
      /\ available'[Len(available) + 1] = c
  BY <1>1
<1>3. \A i, j \in 1..Len(available) : available[i] = available[j] => i = j
  BY DEF IInv, ExclusiveConnection
<1>4. \A i, j \in 1..Len(available') : available'[i] = available'[j] => i = j
  BY <1>1, <1>2, <1>3 DEF InPool
<1>5. ASSUME NEW d PROVE InPool(d)' <=> InPool(d) \/ d = c
  BY <1>1, <1>2 DEF InPool
<1> QED BY <1>2, <1>4, <1>5

LEMMA AcquireIInv ==
    ASSUME IInv, NEW t \in Thread, Acquire(t)
    PROVE  IInv'
<1> DEFINE c == available[Len(available)]
<1>1. /\ c \in pool /\ InPool(c)
      /\ available' \in Seq(pool)
      /\ \A i, j \in 1..Len(available') : available'[i] = available'[j] => i = j
      /\ \A d : InPool(d)' <=> InPool(d) /\ d # c
  BY PopFacts DEF Acquire
<1>2. /\ c \in Conn /\ c # NoConn /\ conn[t] = NoConn
      /\ kind[t] \in Kind
      /\ \A u \in Thread : conn[u] # c
  <2>1. c \in Conn /\ c # NoConn
    <3>1. pool \subseteq Conn
      BY DEF IInv, TypeOK
    <3>2. \A d \in Conn : d # NoConn
      BY PoolAssumption DEF Conn, NoConn
    <3> QED BY <1>1, <3>1, <3>2
  <2>2. conn[t] = NoConn /\ kind[t] \in Kind
    BY DEF Acquire, IInv, HandInv, Holding
  <2>3. \A u \in Thread : conn[u] # c
    BY <1>1, <2>1 DEF IInv, ExclusiveConnection
  <2> QED BY <2>1, <2>2, <2>3
<1>3. /\ conn'[t] = c /\ pc'[t] = FirstStep(kind[t]) /\ row'[t] = 0 /\ result'[t] = "failed"
      /\ \A u \in Thread \ {t} :
            conn'[u] = conn[u] /\ pc'[u] = pc[u] /\ row'[u] = row[u] /\ result'[u] = result[u]
  BY DEF Acquire, IInv, TypeOK
<1>4. \/ /\ pc'[t] \in {"format", "execute", "query"}
         /\ kind[t] \in {"statement", "query", "dump"}
      \/ /\ pc'[t] = "begin"
         /\ kind[t] \in {"points", "batch", "detections"}
  BY <1>2, <1>3, FirstStepFacts
<1> HIDE DEF c
<1>5. TypeOK'
  <2>1. /\ pc' = [pc EXCEPT ![t] = pc'[t]]
        /\ conn' = [conn EXCEPT ![t] = c]
        /\ row' = [row EXCEPT ![t] = 0]
        /\ result' = [result EXCEPT ![t] = "failed"]
    BY <1>3 DEF Acquire, c
  <2>2. 0 \in 0..Rows
    BY PoolAssumption
  <2> QED BY <1>1, <1>2, <1>4, <2>1, <2>2 DEF Acquire, IInv, TypeOK
<1>6. ExclusiveConnection'
  <2>1. \A u \in Thread : conn'[u] # NoConn => ~InPool(conn[u])'
    <3>1. ASSUME NEW u \in Thread, NEW d, d = conn'[u], d # NoConn PROVE ~InPool(d)'
      BY <1>1, <1>3, <3>1 DEF IInv, ExclusiveConnection
    <3> QED BY <3>1 DEF InPool
  <2>2. \A u, v \in Thread : conn'[u] = conn'[v] /\ conn'[u] # NoConn => u = v
    BY <1>2, <1>3 DEF IInv, ExclusiveConnection
  <2>3. {d \in pool' : ~InPool(d)' /\ \A u \in Thread : conn'[u] # d} = dumped'
    <3>1. \A d \in pool : d # NoConn
      BY DEF IInv, TypeOK, Conn, NoConn
    <3>2. pool' = pool /\ dumped' = dumped
      BY DEF Acquire
    <3>3. \A d \in pool : (~InPool(d)' /\ \A u \in Thread : conn'[u] # d)
                            <=> (~InPool(d) /\ \A u \in Thread : conn[u] # d)
      BY <1>1, <1>2, <1>3, <3>1
    <3>4. {d \in pool : ~InPool(d) /\ \A u \in Thread : conn[u] # d} = dumped
      BY DEF IInv, ExclusiveConnection
    <3>5. ASSUME NEW d
          PROVE  (d \in pool' /\ ~InPool(d)' /\ \A u \in Thread : conn'[u] # d) <=> d \in dumped'
      BY <3>2, <3>3, <3>4
    <3> QED BY <3>5
  <2> QED BY <1>1, <2>1, <2>2, <2>3 DEF ExclusiveConnection
<1>7. HandInv'
  BY <1>1, <1>2, <1>3, <1>4 DEF Acquire, IInv, HandInv, Holding, NoConn
<1>8. TransactionInv'
  <2>1. Clean(c)
    BY <1>1, <1>2 DEF IInv, PoolIsClean, Clean
  <2>2. TransactionOf(t)'
    BY <1>3, <1>4, <2>1 DEF Acquire, TransactionOf, Clean
  <2>3. ASSUME NEW u \in Thread \ {t} PROVE TransactionOf(u)'
    <3>1. UNCHANGED <<txn, pending, kind, ops>>
      BY DEF Acquire
    <3> QED BY <1>3, <3>1 DEF IInv, TransactionInv, TransactionOf, Clean
  <2> QED BY <2>2, <2>3 DEF Acquire, IInv, TransactionInv
<1>9. StoredInv'
  BY <1>3, <1>4 DEF Acquire, IInv, StoredInv
<1>10. PoolIsClean'
  BY <1>1 DEF Acquire, IInv, PoolIsClean
<1> QED BY <1>5, <1>6, <1>7, <1>8, <1>9, <1>10 DEF IInv

\* What release() does besides giving the connection back: the thread is idle
\* again and at most one waiter is woken.
LEMMA WakeFacts ==
    ASSUME IInv, NEW t \in Thread, Release(t) \/ FormatThrows(t)
    PROVE  /\ pc[t] \in {"release", "format"}
           /\ pc'[t] = "idle" /\ conn'[t] = NoConn
           /\ \A u \in Thread \ {t} :
                /\ conn'[u] = conn[u] /\ kind'[u] = kind[u] /\ row'[u] = row[u]
                /\ result'[u] = result[u]
                /\ pc'[u] = pc[u] \/ (pc[u] = "blocked" /\ pc'[u] = "acquire")
           /\ TypeOK' <=> available' \in Seq(pool)
           /\ UNCHANGED <<phase, pool, txn, ops, pending, stored>>
<1>1. UNCHANGED <<phase, pool, txn, ops, pending, stored>>
  BY DEF Release, FormatThrows
<1>2. /\ conn' = [conn EXCEPT ![t] = NoConn]
      /\ kind' = [kind EXCEPT ![t] = "none"]
      /\ row' = [row EXCEPT ![t] = 0]
      /\ result' = [result EXCEPT ![t] = "failed"]
  BY DEF Release, FormatThrows, Return
<1>3. /\ pc' \in [Thread -> {"idle", "acquire", "blocked", "format", "execute", "query",
                            "begin", "insert", "rollback", "release"}]
      /\ pc[t] \in {"release", "format"} /\ pc'[t] = "idle"
      /\ \A u \in Thread \ {t} : pc'[u] = pc[u] \/ (pc[u] = "blocked" /\ pc'[u] = "acquire")
  <2>1. CASE FormatThrows(t)
    BY <2>1 DEF FormatThrows, IInv, TypeOK
  <2>2. CASE Release(t)
    <3>1. CASE pc' = [pc EXCEPT ![t] = "idle"]
      BY <2>2, <3>1 DEF Release, IInv, TypeOK
    <3>2. CASE \E u \in Thread : pc[u] = "blocked" /\ pc' = [pc EXCEPT ![t] = "idle", ![u] = "acquire"]
      <4>1. PICK u \in Thread : pc[u] = "blocked" /\ pc' = [pc EXCEPT ![t] = "idle", ![u] = "acquire"]
        BY <3>2
      <4>2. pc[t] = "release" /\ pc \in [Thread -> {"idle", "acquire", "blocked", "format", "execute",
                                            "query", "begin", "insert", "rollback", "release"}]
        BY <2>2 DEF Release, IInv, TypeOK
      <4> QED BY <4>1, <4>2
    <3> QED BY <2>2, <3>1, <3>2 DEF Release
  <2> QED BY <2>1, <2>2
<1>4. TypeOK' <=> available' \in Seq(pool)
  <2>1. conn' \in [Thread -> Conn \union {NoConn}] /\ kind' \in [Thread -> Kind \union {"none"}]
    BY <1>2 DEF IInv, TypeOK
  <2>2. row' \in [Thread -> 0..Rows] /\ result' \in [Thread -> {"ok", "failed"}]
    BY <1>2, PoolAssumption DEF IInv, TypeOK
  <2> QED BY <1>1, <1>3, <2>1, <2>2 DEF IInv, TypeOK
<1> QED BY <1>1, <1>2, <1>3, <1>4 DEF IInv, TypeOK

\* ... and nothing else of what the invariant says can be disturbed.
LEMMA WakeIInv ==
    ASSUME IInv, NEW t \in Thread, Release(t) \/ FormatThrows(t),
           TypeOK', ExclusiveConnection', PoolIsClean'
    PROVE  IInv'
<1>1. HandInv'
  BY WakeFacts DEF IInv, HandInv, Holding
<1>2. TransactionInv'
  <2>1. ASSUME NEW u \in Thread PROVE TransactionOf(u)'
    <3>1. CASE pc'[u] \in {"idle", "acquire"}
      BY <3>1 DEF TransactionOf, Holding
    <3>2. CASE pc'[u] \notin {"idle", "acquire"}
      <4>1. /\ pc'[u] = pc[u] /\ conn'[u] = conn[u] /\ kind'[u] = kind[u] /\ row'[u] = row[u]
            /\ UNCHANGED <<txn, ops, pending>>
        BY <3>2, WakeFacts
      <4> QED BY <4>1 DEF IInv, TransactionInv, TransactionOf, Clean, Holding
    <3> QED BY <3>1, <3>2
  <2> QED BY <2>1, WakeFacts DEF IInv, TransactionInv
<1>3. StoredInv'
  BY WakeFacts DEF IInv, StoredInv
<1> QED BY <1>1, <1>2, <1>3 DEF IInv

LEMMA ReleaseIInv ==
    ASSUME IInv, NEW t \in Thread, Release(t)
    PROVE  IInv'
<1>1. /\ conn[t] \in pool /\ conn[t] \in Conn /\ conn[t] # NoConn /\ ~InPool(conn[t])
      /\ \A u \in Thread : conn[u] = conn[t] => u = t
  BY HeldFacts DEF Release, Holding
<1>2. /\ available' \in Seq(pool)
      /\ \A i, j \in 1..Len(available') : available'[i] = available'[j] => i = j
      /\ \A d : InPool(d)' <=> InPool(d) \/ d = conn[t]
  BY <1>1, PushFacts DEF Release
<1>3. ExclusiveConnection'
  <2>1. \A u \in Thread : conn'[u] # NoConn => ~InPool(conn[u])'
    <3>1. ASSUME NEW u \in Thread, NEW d, d = conn'[u], d # NoConn PROVE ~InPool(d)'
      BY <1>1, <1>2, <3>1, WakeFacts DEF IInv, ExclusiveConnection
    <3> QED BY <3>1 DEF InPool
  <2>2. \A u, v \in Thread : conn'[u] = conn'[v] /\ conn'[u] # NoConn => u = v
    BY WakeFacts DEF IInv, ExclusiveConnection
  <2>3. {d \in pool' : ~InPool(d)' /\ \A u \in Thread : conn'[u] # d} = dumped'
    <3>1. \A d \in pool : d # NoConn
      BY PoolAssumption DEF IInv, TypeOK, Conn, NoConn
    <3>2. pool' = pool /\ dumped' = dumped
      BY DEF Release
    <3>3. \A d \in pool : (~InPool(d)' /\ \A u \in Thread : conn'[u] # d)
                            <=> (~InPool(d) /\ \A u \in Thread : conn[u] # d)
      BY <1>1, <1>2, <3>1, WakeFacts
    <3>4. {d \in pool : ~InPool(d) /\ \A u \in Thread : conn[u] # d} = dumped
      BY DEF IInv, ExclusiveConnection
    <3>5. ASSUME NEW d
          PROVE  (d \in pool' /\ ~InPool(d)' /\ \A u \in Thread : conn'[u] # d) <=> d \in dumped'
      BY <3>2, <3>3, <3>4
    <3> QED BY <3>5
  <2> QED BY <1>2, <2>1, <2>2, <2>3 DEF ExclusiveConnection
<1>4. PoolIsClean'
  <2>1. Clean(conn[t])
    BY DEF Release, IInv, TransactionInv, TransactionOf, Holding
  <2> QED BY <1>2, <2>1 DEF Release, IInv, PoolIsClean, Clean
<1> QED BY <1>2, <1>3, <1>4, WakeFacts, WakeIInv

LEMMA FormatThrowsIInv ==
    ASSUME IInv, NEW t \in Thread, FormatThrows(t)
    PROVE  IInv'
<1>1. /\ conn[t] \in pool /\ conn[t] \in Conn /\ conn[t] # NoConn /\ ~InPool(conn[t])
      /\ \A u \in Thread : conn[u] = conn[t] => u = t
  BY HeldFacts DEF FormatThrows, Holding
<1>2. available' = available /\ pool' = pool /\ dumped' = dumped \union {conn[t]}
  BY DEF FormatThrows
<1>3. \A d : InPool(d)' <=> InPool(d)
  BY <1>2 DEF InPool
<1>4. ExclusiveConnection'
  <2>1. \A u \in Thread : conn'[u] # NoConn => ~InPool(conn[u])'
    <3>1. ASSUME NEW u \in Thread, NEW d, d = conn'[u], d # NoConn PROVE ~InPool(d)'
      BY <1>3, <3>1, WakeFacts DEF IInv, ExclusiveConnection
    <3> QED BY <3>1 DEF InPool
  <2>2. \A u, v \in Thread : conn'[u] = conn'[v] /\ conn'[u] # NoConn => u = v
    BY WakeFacts DEF IInv, ExclusiveConnection
  <2>3. {d \in pool' : ~InPool(d)' /\ \A u \in Thread : conn'[u] # d} = dumped'
    <3>1. \A d \in pool : d # NoConn
      BY PoolAssumption DEF IInv, TypeOK, Conn, NoConn
    <3>3. \A d \in pool : (~InPool(d)' /\ \A u \in Thread : conn'[u] # d)
                            <=> (d = conn[t] \/ (~InPool(d) /\ \A u \in Thread : conn[u] # d))
      BY <1>1, <1>3, <3>1, WakeFacts
    <3>4. {d \in pool : ~InPool(d) /\ \A u \in Thread : conn[u] # d} = dumped
      BY DEF IInv, ExclusiveConnection
    <3>5. ASSUME NEW d
          PROVE  (d \in pool' /\ ~InPool(d)' /\ \A u \in Thread : conn'[u] # d) <=> d \in dumped'
      BY <1>1, <1>2, <3>3, <3>4
    <3> QED BY <3>5
  <2> QED BY <1>2, <2>1, <2>2, <2>3 DEF IInv, ExclusiveConnection
<1>5. PoolIsClean'
  BY <1>3 DEF FormatThrows, IInv, PoolIsClean
<1>6. TypeOK'
  BY <1>2, WakeFacts DEF IInv, TypeOK
<1> QED BY <1>4, <1>5, <1>6, WakeIInv

-----------------------------------------------------------------------------
(* The constructor, the server, and every step *)

LEMMA OpenPoolIInv ==
    ASSUME IInv, OpenPool
    PROVE  IInv'
<1>1. PICK n \in 0..PoolSize :
        /\ pool' = 1..n
        /\ available' = [i \in 1..n |-> i]
        /\ txn' = [c \in Conn |-> IF c <= n THEN "idle" ELSE "closed"]
  BY DEF OpenPool
<1>2. /\ phase = "new" /\ phase' = "ready" /\ pool = {}
      /\ \A c \in Conn : txn[c] = "closed" /\ pending[c] = {}
      /\ \A t \in Thread : pc[t] = "idle" /\ conn[t] = NoConn
      /\ dumped = {}
  BY DEF OpenPool, IInv, HandInv, Holding, TransactionInv, ExclusiveConnection
<1>3. UNCHANGED <<pc, kind, conn, row, result, ops, pending, stored, promised, dumped>>
  BY DEF OpenPool, threadVars
<1>4. /\ available' \in Seq(pool') /\ Len(available') = n
      /\ \A i \in 1..n : available'[i] = i
      /\ pool' \subseteq Conn /\ n \in Nat
  BY <1>1, PoolAssumption DEF Conn
<1>5. \A d : InPool(d)' <=> d \in 1..n
  BY <1>4 DEF InPool
<1>6. TypeOK'
  <2>1. txn' \in [Conn -> {"closed", "idle", "open", "aborted"}]
    BY <1>1
  <2> QED BY <1>2, <1>3, <1>4, <2>1 DEF IInv, TypeOK
<1>7. ExclusiveConnection'
  <2>1. \A t \in Thread : conn'[t] = NoConn
    BY <1>2, <1>3
  <2>2. \A i, j \in 1..Len(available') : available'[i] = available'[j] => i = j
    BY <1>4
  <2>3. {d \in pool' : ~InPool(d)' /\ \A t \in Thread : conn'[t] # d} = dumped'
    BY <1>1, <1>2, <1>3, <1>5
  <2> QED BY <2>1, <2>2, <2>3 DEF ExclusiveConnection
<1>8. HandInv'
  BY <1>2, <1>3 DEF IInv, HandInv
<1>9. TransactionInv'
  BY <1>2, <1>3 DEF TransactionInv, TransactionOf, Holding
<1>10. StoredInv'
  BY <1>3 DEF IInv, StoredInv
<1>11. PoolIsClean'
  BY <1>1, <1>2, <1>3 DEF PoolIsClean
<1> QED BY <1>6, <1>7, <1>8, <1>9, <1>10, <1>11 DEF IInv

LEMMA BreakIInv ==
    ASSUME IInv, NEW c \in Conn, Break(c)
    PROVE  IInv'
<1>1. /\ txn' = [txn EXCEPT ![c] = "closed"]
      /\ pending' = [pending EXCEPT ![c] = {}]
      /\ UNCHANGED <<phase, pool, available, pc, kind, conn, row, result, ops, stored, promised, dumped>>
      /\ phase = "ready"
  BY DEF Break, threadVars
<1>2. TypeOK'
  BY <1>1 DEF IInv, TypeOK
<1>3. ExclusiveConnection'
  BY <1>1, ExclusiveKept DEF IInv
<1>4. HandInv'
  BY <1>1 DEF IInv, HandInv
<1>5. /\ txn'[c] = "closed" /\ pending'[c] = {}
      /\ \A d \in Conn \ {c} : txn'[d] = txn[d] /\ pending'[d] = pending[d]
  BY <1>1 DEF IInv, TypeOK
<1>6. TransactionInv'
  <2>1. ASSUME NEW t \in Thread PROVE TransactionOf(t)'
    <3>1. CASE pc[t] \notin Holding
      BY <1>1, <3>1 DEF TransactionOf, Holding
    <3>2. CASE pc[t] \in Holding /\ conn[t] = c
      BY <1>1, <1>5, <3>2 DEF IInv, TransactionInv, TransactionOf, Clean
    <3>3. CASE pc[t] \in Holding /\ conn[t] # c
      <4>1. conn[t] \in Conn \ {c}
        BY <3>3, HeldFacts
      <4> QED BY <1>1, <1>5, <4>1 DEF IInv, TransactionInv, TransactionOf, Clean
    <3> QED BY <3>1, <3>2, <3>3
  <2> QED BY <1>5, <2>1 DEF IInv, TransactionInv
<1>7. StoredInv'
  BY <1>1 DEF IInv, StoredInv
<1>8. PoolIsClean'
  BY <1>1, <1>5 DEF IInv, PoolIsClean, InPool
<1> QED BY <1>2, <1>3, <1>4, <1>6, <1>7, <1>8 DEF IInv

LEMMA InitIInv == Init => IInv
<1> SUFFICES ASSUME Init PROVE IInv
  OBVIOUS
<1>1. TypeOK
  <2>1. available \in Seq(pool)
    BY EmptySeq DEF Init
  <2>2. 0 \in 0..Rows /\ 0 \in 0..MaxOps
    BY PoolAssumption
  <2> QED BY <2>1, <2>2 DEF Init, TypeOK
<1>2. available = <<>> /\ Len(available) = 0
  BY EmptySeq DEF Init
<1>3. ExclusiveConnection
  BY <1>2 DEF Init, ExclusiveConnection, InPool
<1>4. HandInv
  BY DEF Init, HandInv, Holding
<1>5. TransactionInv
  BY DEF Init, TransactionInv, TransactionOf, Holding
<1>6. StoredInv
  BY DEF Init, StoredInv
<1>7. PoolIsClean
  BY <1>2 DEF Init, PoolIsClean, InPool
<1> QED BY <1>1, <1>3, <1>4, <1>5, <1>6, <1>7 DEF IInv

LEMMA NextIInv == IInv /\ [Next]_vars => IInv'
<1> SUFFICES ASSUME IInv, [Next]_vars PROVE IInv'
  OBVIOUS
<1>1. CASE OpenPool
  BY <1>1, OpenPoolIInv
<1>2. ASSUME NEW t \in Thread, NEW k \in Offers[t], Begin(t, k) PROVE IInv'
  BY <1>2, BeginIInv
<1>3. ASSUME NEW t \in Thread, OpStep(t) PROVE IInv'
  BY <1>3, AcquireIInv, WaitIInv, ReleaseIInv, FormatIInv, FormatThrowsIInv, ExecuteIInv, QueryIInv,
     BeginTransactionIInv, InsertRowIInv, InsertPointFailsIInv, BatchRowFailsIInv, CommitIInv,
     BatchCommitIInv, RollbackIInv DEF OpStep
<1>4. ASSUME NEW c \in Conn, Break(c) PROVE IInv'
  BY <1>4, BreakIInv
<1>5. CASE UNCHANGED vars
  <2>1. UNCHANGED <<phase, pool, available, txn, pc, kind, conn, row, result, ops, pending, stored,
                    promised, dumped>>
    BY <1>5 DEF vars, threadVars
  <2>2. TypeOK'
    BY <2>1 DEF IInv, TypeOK
  <2>3. ExclusiveConnection' /\ PoolIsClean'
    BY <2>1, ExclusiveKept DEF IInv, PoolIsClean, InPool
  <2>4. HandInv'
    BY <2>1 DEF IInv, HandInv
  <2>5. TransactionInv'
    BY <2>1 DEF IInv, TransactionInv, TransactionOf, Clean
  <2>6. StoredInv'
    BY <2>1 DEF IInv, StoredInv
  <2> QED BY <2>2, <2>3, <2>4, <2>5, <2>6 DEF IInv
<1> QED BY <1>1, <1>2, <1>3, <1>4, <1>5 DEF Next

\* The inductive invariant holds of every reachable state.
THEOREM Invariance == Spec => []IInv
  BY InitIInv, NextIInv, PTL DEF Spec

\* Every variable of the pool has its type.
THEOREM TypeCorrect == Spec => []TypeOK
<1>1. IInv => TypeOK
  BY DEF IInv
<1> QED BY Invariance, <1>1, PTL

\* For any number of threads and connections, whatever fails, no connection is
\* ever in two hands, or in a hand and in the pool, and none is lost but to
\* dump().
THEOREM ConnectionsAreExclusive == Spec => []ExclusiveConnection
<1>1. IInv => ExclusiveConnection
  BY DEF IInv
<1> QED BY Invariance, <1>1, PTL

\* For any length of transactions, a connection is outside any transaction
\* whenever it is in the pool.
THEOREM PoolStaysClean == Spec => []PoolIsClean
<1>1. IInv => PoolIsClean
  BY DEF IInv
<1> QED BY Invariance, <1>1, PTL

-----------------------------------------------------------------------------
(* The pool implements TransactionStore *)

\* A commit stores the rows of the whole transaction, none of which was there,
\* or nothing.
LEMMA CommitRefines ==
    ASSUME IInv, NEW t \in Thread, Committed(t) \/ CommittedUnheard(t), promised' = promised
    PROVE  Store!Next \/ UNCHANGED Store!vars
<1>1. pc[t] = "insert" /\ row[t] = Rows
  BY DEF Committed, CommittedUnheard
<1>2. ops[t] \in 1..MaxOps
  BY <1>1 DEF IInv, HandInv
<1>3. CASE txn[conn[t]] = "open"
  <2>1. pending[conn[t]] = Store!RowsOf(t, ops[t])
    BY <1>1, <1>3 DEF IInv, TransactionInv, TransactionOf, Store!RowsOf
  <2>2. stored \intersect Store!RowsOf(t, ops[t]) = {}
    BY <1>1, <1>2 DEF IInv, StoredInv, Store!RowsOf
  <2>3. stored' = stored \union pending[conn[t]]
    BY <1>3 DEF Committed, CommittedUnheard
  <2>4. Store!Commit(t, ops[t])
    BY <2>1, <2>2, <2>3 DEF Store!Commit
  <2> QED BY <1>2, <2>4 DEF Store!Next
<1>4. CASE txn[conn[t]] # "open"
  BY <1>4 DEF Committed, CommittedUnheard, Store!vars
<1> QED BY <1>3, <1>4

\* An operation that returns true for detections has stored all of their rows.
LEMMA ReleaseRefines ==
    ASSUME IInv, NEW t \in Thread, Release(t)
    PROVE  Store!Next \/ UNCHANGED Store!vars
<1>1. stored' = stored /\ pc[t] = "release"
  BY DEF Release
<1>2. ops[t] \in 1..MaxOps
  BY <1>1 DEF IInv, HandInv
<1>3. CASE kind[t] = "detections" /\ result[t] = "ok"
  <2>1. Store!RowsOf(t, ops[t]) \subseteq stored
    BY <1>1, <1>3 DEF IInv, StoredInv, Store!RowsOf
  <2>2. promised' = promised \union {<<t, ops[t]>>}
    BY <1>3 DEF Release, Return
  <2>3. Store!Promise(t, ops[t])
    BY <1>1, <2>1, <2>2 DEF Store!Promise
  <2> QED BY <1>2, <2>3 DEF Store!Next
<1>4. CASE ~(kind[t] = "detections" /\ result[t] = "ok")
  BY <1>1, <1>4 DEF Release, Return, Store!vars
<1> QED BY <1>3, <1>4

LEMMA StepRefines == IInv /\ [Next]_vars => [Store!Next]_(Store!vars)
<1> SUFFICES ASSUME IInv, [Next]_vars PROVE Store!Next \/ UNCHANGED Store!vars
  OBVIOUS
<1>1. ASSUME NEW t \in Thread, OpStep(t) PROVE Store!Next \/ UNCHANGED Store!vars
  <2>1. CASE Release(t)
    BY <2>1, ReleaseRefines
  <2>2. CASE Commit(t) \/ BatchCommit(t)
    BY <2>2, CommitRefines DEF Commit, BatchCommit
  <2>3. CASE FormatThrows(t)
    <3>1. kind[t] # "detections"
      BY <2>3 DEF FormatThrows, IInv, HandInv
    <3> QED BY <2>3, <3>1 DEF FormatThrows, Return, Store!vars
  <2>4. CASE Acquire(t) \/ Wait(t) \/ Format(t) \/ Execute(t) \/ Query(t)
    BY <2>4 DEF Acquire, Wait, Format, Execute, Query, Store!vars
  <2>5. CASE \/ BeginTransaction(t) \/ InsertRow(t) \/ InsertPointFails(t) \/ BatchRowFails(t)
            \/ Rollback(t)
    BY <2>5 DEF BeginTransaction, InsertRow, InsertPointFails, BatchRowFails, Rollback, Store!vars
  <2> QED BY <1>1, <2>1, <2>2, <2>3, <2>4, <2>5 DEF OpStep
<1>2. ASSUME NEW t \in Thread, NEW k \in Offers[t], Begin(t, k) PROVE UNCHANGED Store!vars
  BY <1>2 DEF Begin, Store!vars
<1>3. ASSUME NEW c \in Conn, Break(c) PROVE UNCHANGED Store!vars
  BY <1>3 DEF Break, Store!vars
<1>4. CASE OpenPool \/ UNCHANGED vars
  BY <1>4 DEF OpenPool, vars, Store!vars
<1> QED BY <1>1, <1>2, <1>3, <1>4 DEF Next

\* Whatever the length of transactions and whatever breaks: the rows of a
\* transaction are stored in one step, once, or never, and detections that are
\* reported as stored are stored.
THEOREM StoresWholeTransactions == Spec => ImplementsStore
<1>1. Init => Store!Init
  BY DEF Init, Store!Init
<1> QED BY <1>1, Invariance, StepRefines, PTL DEF Spec, ImplementsStore, Store!Spec

=============================================================================
