---------------------------- MODULE DatabasePool ----------------------------
(***************************************************************************)
(* backend/src/database.cpp: a pool of PostgreSQL connections shared by    *)
(* the thread of AlertWsModule and the io threads that serve HTTP, and the *)
(* operations of DatabaseManager, each of which acquires a connection,     *)
(* runs its statements and releases the connection.  The operations are    *)
(* kept apart by what they do to the connection:                           *)
(*   "statement"  one statement (insert_laser_data, insert_crack,          *)
(*                insert_alert, update_alert_status);                      *)
(*   "query"      one SELECT whose rows are read (the get_ functions);     *)
(*   "dump"       one statement whose text calls json::dump() first, which *)
(*                throws on bytes that are not UTF-8 (log_profinet_packet, *)
(*                insert_prediction, insert_simulation);                   *)
(*   "points"     insert_crack_points, a transaction of one statement per  *)
(*                point, which goes on after a failed one;                 *)
(*   "batch"      batch_insert_laser_data and batch_insert_vibration_data, *)
(*                a transaction of one statement per measurement, which    *)
(*                ends with the first failed one;                          *)
(*   "detections" batch_insert_crack_detections, a transaction of the      *)
(*                statements for a scan, its cracks and their points.      *)
(***************************************************************************)
EXTENDS Integers, Sequences, FiniteSets

CONSTANTS
    Thread,         \* threads that use the pool
    PoolSize,       \* pool_size
    Rows,           \* statements of a transaction
    Offers,         \* kinds of operation each thread performs
    DumpThrows,     \* whether dump() may meet bytes that are not UTF-8
    MaxOps          \* bound: operations begun by each thread

Kind == {"statement", "query", "dump", "points", "batch", "detections"}

ASSUME PoolAssumption == PoolSize \in Nat /\ Rows \in Nat \ {0} /\ MaxOps \in Nat
ASSUME OffersAssumption == Offers \in [Thread -> SUBSET Kind]

Conn == 1..PoolSize
NoConn == 0

VARIABLES
    phase,          \* "new", "ready": init has run
    pool,           \* pool_, the connections the constructor could open
    available,      \* available_, a stack of connections
    txn,            \* the server's side of each connection
    pc,             \* where each thread is in its operation
    kind,           \* the operation of each thread
    conn,           \* the connection each thread holds
    row,            \* statements of the transaction that were tried
    result,         \* what the operation is going to return: "ok" or "failed"
    pending,        \* rows of the open transaction of each connection
    stored,         \* committed rows: <<thread, operation, row>>
    promised,       \* auxiliary: <<thread, operation>> of the detections reported as stored
    ops,            \* operations begun by each thread
    dumped          \* auxiliary: connections that dump() has carried away

threadVars == <<pc, kind, conn, row, result, ops>>
vars == <<phase, pool, available, txn, threadVars, pending, stored, promised, dumped>>

Init ==
    /\ phase = "new"
    /\ pool = {}
    /\ available = <<>>
    /\ txn = [c \in Conn |-> "closed"]
    /\ pc = [t \in Thread |-> "idle"]
    /\ kind = [t \in Thread |-> "none"]
    /\ conn = [t \in Thread |-> NoConn]
    /\ row = [t \in Thread |-> 0]
    /\ result = [t \in Thread |-> "failed"]
    /\ pending = [c \in Conn |-> {}]
    /\ stored = {}
    /\ promised = {}
    /\ ops = [t \in Thread |-> 0]
    /\ dumped = {}

\* DatabasePool's constructor keeps the connections that could be opened, in
\* order: they are 1..n.
OpenPool ==
    /\ phase = "new"
    /\ \E n \in 0..PoolSize :
        /\ pool' = 1..n
        /\ available' = [i \in 1..n |-> i]
        /\ txn' = [c \in Conn |-> IF c <= n THEN "idle" ELSE "closed"]
    /\ phase' = "ready"
    /\ UNCHANGED <<threadVars, pending, stored, promised, dumped>>

-----------------------------------------------------------------------------
(* acquire and release *)

Begin(t, k) ==
    /\ phase = "ready"
    /\ pc[t] = "idle"
    /\ ops[t] < MaxOps
    /\ ops' = [ops EXCEPT ![t] = @ + 1]
    /\ kind' = [kind EXCEPT ![t] = k]
    /\ pc' = [pc EXCEPT ![t] = "acquire"]
    /\ UNCHANGED <<phase, pool, available, txn, conn, row, result, pending, stored, promised, dumped>>

\* what the operation does once it has its connection
FirstStep(k) ==
    CASE k = "statement" -> "execute"
      [] k = "query" -> "query"
      [] k = "dump" -> "format"
      [] k \in {"points", "batch", "detections"} -> "begin"

\* acquire(): under the mutex, take the connection released last
Acquire(t) ==
    /\ pc[t] = "acquire"
    /\ available # <<>>
    /\ conn' = [conn EXCEPT ![t] = available[Len(available)]]
    /\ available' = SubSeq(available, 1, Len(available) - 1)
    /\ pc' = [pc EXCEPT ![t] = FirstStep(kind[t])]
    /\ row' = [row EXCEPT ![t] = 0]
    /\ result' = [result EXCEPT ![t] = "failed"]
    /\ UNCHANGED <<phase, pool, txn, kind, ops, pending, stored, promised, dumped>>

\* ... or wait on the condition variable for a release()
Wait(t) ==
    /\ pc[t] = "acquire"
    /\ available = <<>>
    /\ pc' = [pc EXCEPT ![t] = "blocked"]
    /\ UNCHANGED <<phase, pool, available, txn, kind, conn, row, result, ops, pending, stored, promised, dumped>>

\* the operation returns, and its local variables are gone
Return(t) ==
    /\ kind' = [kind EXCEPT ![t] = "none"]
    /\ row' = [row EXCEPT ![t] = 0]
    /\ result' = [result EXCEPT ![t] = "failed"]
    /\ promised' = IF kind[t] = "detections" /\ result[t] = "ok"
                   THEN promised \union {<<t, ops[t]>>} ELSE promised

\* Mutant: a connection that has broken is not put back.
ReleaseOnlyHealthy(t) ==
    /\ pc[t] = "release"
    /\ available' = IF txn[conn[t]] = "closed" THEN available ELSE Append(available, conn[t])
    /\ conn' = [conn EXCEPT ![t] = NoConn]
    /\ Return(t)
    /\ \/ /\ \A u \in Thread : pc[u] # "blocked"
          /\ pc' = [pc EXCEPT ![t] = "idle"]
       \/ \E u \in Thread :
            /\ pc[u] = "blocked"
            /\ pc' = [pc EXCEPT ![t] = "idle", ![u] = "acquire"]
    /\ UNCHANGED <<phase, pool, txn, ops, pending, stored, dumped>>

\* release(): push the connection and notify one waiter, under the mutex
Release(t) ==
    /\ pc[t] = "release"
    /\ available' = Append(available, conn[t])
    /\ conn' = [conn EXCEPT ![t] = NoConn]
    /\ Return(t)
    /\ \/ /\ \A u \in Thread : pc[u] # "blocked"
          /\ pc' = [pc EXCEPT ![t] = "idle"]
       \/ \E u \in Thread :
            /\ pc[u] = "blocked"
            /\ pc' = [pc EXCEPT ![t] = "idle", ![u] = "acquire"]
    /\ UNCHANGED <<phase, pool, txn, ops, pending, stored, dumped>>

-----------------------------------------------------------------------------
(* One statement *)

\* payload_json.dump() returns
Format(t) ==
    /\ pc[t] = "format"
    /\ pc' = [pc EXCEPT ![t] = "execute"]
    /\ UNCHANGED <<phase, pool, available, txn, kind, conn, row, result, ops, pending, stored, promised, dumped>>

\* ... or throws out of the function: nobody releases the connection
FormatThrows(t) ==
    /\ DumpThrows
    /\ pc[t] = "format"
    /\ pc' = [pc EXCEPT ![t] = "idle"]
    /\ conn' = [conn EXCEPT ![t] = NoConn]
    /\ dumped' = dumped \union {conn[t]}
    /\ Return(t)
    /\ UNCHANGED <<phase, pool, available, txn, ops, pending, stored>>

\* Mutant: a failed statement returns without a release.
ExecuteForgets(t) ==
    /\ pc[t] = "execute"
    /\ \/ pc' = [pc EXCEPT ![t] = "release"] /\ conn' = conn
       \/ pc' = [pc EXCEPT ![t] = "idle"] /\ conn' = [conn EXCEPT ![t] = NoConn]
    /\ UNCHANGED <<phase, pool, available, txn, kind, row, result, ops, pending, stored, promised, dumped>>

\* PQexec succeeds or fails: the function releases the connection all the same
Execute(t) ==
    /\ pc[t] = "execute"
    /\ pc' = [pc EXCEPT ![t] = "release"]
    /\ UNCHANGED <<phase, pool, available, txn, kind, conn, row, result, ops, pending, stored, promised, dumped>>

\* a SELECT: the rows are copied, or there are none, before the release
Query(t) ==
    /\ pc[t] = "query"
    /\ pc' = [pc EXCEPT ![t] = "release"]
    /\ UNCHANGED <<phase, pool, available, txn, kind, conn, row, result, ops, pending, stored, promised, dumped>>

\* The server closes a connection; nobody ever opens it again.
Break(c) ==
    /\ phase = "ready"
    /\ txn[c] # "closed"
    /\ txn' = [txn EXCEPT ![c] = "closed"]
    /\ pending' = [pending EXCEPT ![c] = {}]
    /\ UNCHANGED <<phase, pool, available, threadVars, stored, promised, dumped>>

-----------------------------------------------------------------------------
(* Transactions: insert_crack_points and the batch_insert functions *)

\* begin_transaction() fails on a closed connection
BeginTransaction(t) ==
    /\ pc[t] = "begin"
    /\ LET c == conn[t] IN
        IF txn[c] = "closed"
        THEN /\ pc' = [pc EXCEPT ![t] = "release"]
             /\ txn' = txn
        ELSE /\ pc' = [pc EXCEPT ![t] = "insert"]
             /\ txn' = [txn EXCEPT ![c] = "open"]
    /\ UNCHANGED <<phase, pool, available, kind, conn, row, result, ops, pending, stored, promised, dumped>>

\* the next INSERT succeeds; insert_crack_points keeps the id as last_id
InsertRow(t) ==
    /\ pc[t] = "insert"
    /\ row[t] < Rows
    /\ txn[conn[t]] = "open"
    /\ row' = [row EXCEPT ![t] = @ + 1]
    /\ result' = [result EXCEPT ![t] = "ok"]
    /\ pending' = [pending EXCEPT ![conn[t]] = @ \union {<<t, ops[t], row[t] + 1>>}]
    /\ UNCHANGED <<phase, pool, available, txn, pc, kind, conn, ops, stored, promised, dumped>>

\* The next INSERT fails, because it breaks a constraint or because the
\* connection is closed; on an open connection that aborts the transaction.
FailedRow(t) ==
    /\ pc[t] = "insert"
    /\ row[t] < Rows
    /\ txn' = [txn EXCEPT ![conn[t]] = IF @ = "open" THEN "aborted" ELSE @]
    /\ pending' = [pending EXCEPT ![conn[t]] = {}]

\* insert_crack_points does not notice: its loop goes on
InsertPointFails(t) ==
    /\ kind[t] = "points"
    /\ FailedRow(t)
    /\ row' = [row EXCEPT ![t] = @ + 1]
    /\ UNCHANGED <<phase, pool, available, pc, kind, conn, result, ops, stored, promised, dumped>>

\* Mutant: a failed batch returns without a rollback.
BatchRowFailsReturns(t) ==
    /\ kind[t] \in {"batch", "detections"}
    /\ FailedRow(t)
    /\ result' = [result EXCEPT ![t] = "failed"]
    /\ pc' = [pc EXCEPT ![t] = "release"]
    /\ UNCHANGED <<phase, pool, available, kind, conn, row, ops, stored, promised, dumped>>

\* Mutant: a failed batch goes on with its next statement.
BatchRowFailsGoesOn(t) ==
    /\ kind[t] \in {"batch", "detections"}
    /\ FailedRow(t)
    /\ row' = [row EXCEPT ![t] = @ + 1]
    /\ UNCHANGED <<phase, pool, available, pc, kind, conn, result, ops, stored, promised, dumped>>

\* the batch_insert functions give up and roll back
BatchRowFails(t) ==
    /\ kind[t] \in {"batch", "detections"}
    /\ FailedRow(t)
    /\ result' = [result EXCEPT ![t] = "failed"]
    /\ pc' = [pc EXCEPT ![t] = "rollback"]
    /\ UNCHANGED <<phase, pool, available, kind, conn, row, ops, stored, promised, dumped>>

\* COMMIT as the server carries it out: of an aborted transaction it is a
\* rollback that reports success.
Committed(t) ==
    /\ pc[t] = "insert"
    /\ row[t] = Rows
    /\ LET c == conn[t] IN
        /\ stored' = stored \union (IF txn[c] = "open" THEN pending[c] ELSE {})
        /\ txn' = [txn EXCEPT ![c] = IF @ = "closed" THEN @ ELSE "idle"]
        /\ pending' = [pending EXCEPT ![c] = {}]

\* ... or the connection breaks after the server has committed and before it
\* can say so
CommittedUnheard(t) ==
    /\ pc[t] = "insert"
    /\ row[t] = Rows
    /\ txn[conn[t]] = "open"
    /\ stored' = stored \union pending[conn[t]]
    /\ txn' = [txn EXCEPT ![conn[t]] = "closed"]
    /\ pending' = [pending EXCEPT ![conn[t]] = {}]

\* insert_crack_points and batch_insert_crack_detections look at the answer
Commit(t) ==
    /\ kind[t] \in {"points", "detections"}
    /\ \/ /\ Committed(t)
          /\ pc' = [pc EXCEPT ![t] = IF txn[conn[t]] = "closed" THEN "rollback" ELSE "release"]
       \/ /\ CommittedUnheard(t)
          /\ pc' = [pc EXCEPT ![t] = "rollback"]
    /\ UNCHANGED <<phase, pool, available, kind, conn, row, result, ops, promised, dumped>>

\* ... batch_insert_laser_data and batch_insert_vibration_data do not
BatchCommit(t) ==
    /\ kind[t] = "batch"
    /\ Committed(t) \/ CommittedUnheard(t)
    /\ pc' = [pc EXCEPT ![t] = "release"]
    /\ UNCHANGED <<phase, pool, available, kind, conn, row, result, ops, promised, dumped>>

\* ROLLBACK, and the function returns -1 or false
Rollback(t) ==
    /\ pc[t] = "rollback"
    /\ txn' = [txn EXCEPT ![conn[t]] = IF @ = "closed" THEN @ ELSE "idle"]
    /\ pending' = [pending EXCEPT ![conn[t]] = {}]
    /\ result' = [result EXCEPT ![t] = "failed"]
    /\ pc' = [pc EXCEPT ![t] = "release"]
    /\ UNCHANGED <<phase, pool, available, kind, conn, row, ops, stored, promised, dumped>>

OpStep(t) ==
    \/ Acquire(t) \/ Wait(t) \/ Release(t)
    \/ Format(t) \/ FormatThrows(t) \/ Execute(t) \/ Query(t)
    \/ BeginTransaction(t) \/ InsertRow(t) \/ InsertPointFails(t) \/ BatchRowFails(t)
    \/ Commit(t) \/ BatchCommit(t) \/ Rollback(t)

Next ==
    \/ OpenPool
    \/ \E t \in Thread : \E k \in Offers[t] : Begin(t, k)
    \/ \E t \in Thread : OpStep(t)
    \/ \E c \in Conn : Break(c)

Spec == Init /\ [][Next]_vars

(* Threads are scheduled, PostgreSQL answers each statement, and a thread  *)
(* that is woken again and again for a connection gets one in the end;     *)
(* nobody has to begin an operation, and connections need not break.       *)
FairSpec == Spec /\ \A t \in Thread : WF_vars(OpStep(t)) /\ SF_vars(Acquire(t))

-----------------------------------------------------------------------------
(* Properties *)

Row == Thread \X (1..MaxOps) \X (1..Rows)

TypeOK ==
    /\ phase \in {"new", "ready"}
    /\ pool \subseteq Conn
    /\ available \in Seq(pool)
    /\ txn \in [Conn -> {"closed", "idle", "open", "aborted"}]
    /\ pc \in [Thread -> {"idle", "acquire", "blocked", "format", "execute", "query",
                          "begin", "insert", "rollback", "release"}]
    /\ kind \in [Thread -> Kind \union {"none"}]
    /\ conn \in [Thread -> Conn \union {NoConn}]
    /\ row \in [Thread -> 0..Rows]
    /\ result \in [Thread -> {"ok", "failed"}]
    /\ ops \in [Thread -> 0..MaxOps]
    /\ pending \in [Conn -> SUBSET Row]
    /\ stored \subseteq Row

InPool(c) == \E i \in 1..Len(available) : available[i] = c

(* No two threads ever talk over one connection, and none gets lost: every *)
(* connection of the pool is in the stack once or in the hands of one      *)
(* thread, whatever goes wrong in an operation, except those that dump()   *)
(* carried away (l.407).                                                   *)
ExclusiveConnection ==
    /\ \A i, j \in 1..Len(available) : available[i] = available[j] => i = j
    /\ \A t \in Thread : conn[t] # NoConn => ~InPool(conn[t])
    /\ \A t, u \in Thread : conn[t] = conn[u] /\ conn[t] # NoConn => t = u
    /\ {c \in pool : ~InPool(c) /\ \A t \in Thread : conn[t] # c} = dumped

(* Whoever takes a connection from the pool gets it outside any            *)
(* transaction, whatever went wrong in the operation that used it before   *)
(* (l.244-248, 279-284).                                                   *)
PoolIsClean ==
    \A c \in Conn : InPool(c) => txn[c] \in {"idle", "closed"} /\ pending[c] = {}

(* The pool and its transactions implement the store of TransactionStore:  *)
(* the rows of one transaction are stored together, once, or not at all,   *)
(* although the loop of insert_crack_points goes on after a failed insert, *)
(* a batch gives up in the middle, and a connection that breaks in a       *)
(* commit may have carried it out (l.251-277, 695-717, 862-914).  When     *)
(* batch_insert_crack_detections returns true, the scan, its cracks and    *)
(* their points are all in the database, whatever the connection and the   *)
(* other threads did meanwhile (l.922-931).  The other transactions do not *)
(* promise that: insert_crack_points returns an id after a commit that was *)
(* a rollback, and the other batches do not look at the commit.            *)
Store == INSTANCE TransactionStore WITH Owner <- Thread
ImplementsStore == Store!Spec

(* Every operation returns, as long as the constructor could open at least *)
(* one connection and dump() has not carried all of them away: errors and  *)
(* broken connections cost an operation its rows but never the pool its    *)
(* connection.                                                             *)
OperationsReturn ==
    \A t \in Thread : pc[t] # "idle" ~> pc[t] = "idle" \/ dumped = pool

-----------------------------------------------------------------------------
(* The inductive invariant: exclusive connections, together with what the  *)
(* thread that holds one knows of the server's side of it.                 *)

Holding == {"format", "execute", "query", "begin", "insert", "rollback", "release"}

\* A thread holds a connection exactly while it is in an operation that has
\* acquired one, and is where the kind of its operation takes it; nothing
\* happens before the pool is there.
HandInv ==
    /\ \A t \in Thread :
        /\ conn[t] # NoConn <=> pc[t] \in Holding
        /\ conn[t] # NoConn => conn[t] \in pool
        /\ pc[t] \in {"format", "execute", "query"} => kind[t] \in {"statement", "query", "dump"}
        /\ pc[t] \in {"begin", "insert", "rollback"} => kind[t] \in {"points", "batch", "detections"}
        /\ pc[t] # "idle" => kind[t] \in Kind /\ ops[t] \in 1..MaxOps
    /\ phase = "new" =>
        /\ pool = {}
        /\ \A c \in Conn : txn[c] = "closed"
        /\ \A t \in Thread : pc[t] = "idle"

Clean(c) == txn[c] \in {"idle", "closed"} /\ pending[c] = {}

\* Only an open transaction has rows: those its thread has inserted so far.
TransactionOf(t) ==
    /\ pc[t] \in Holding \ {"insert", "rollback"} => Clean(conn[t])
    /\ pc[t] = "insert" => txn[conn[t]] # "idle"
    /\ pc[t] = "insert" /\ txn[conn[t]] = "open" =>
            pending[conn[t]] = {<<t, ops[t], i>> : i \in 1..row[t]}
    /\ pc[t] = "insert" /\ txn[conn[t]] = "aborted" => kind[t] = "points"
    /\ pc[t] = "begin" => row[t] = 0

TransactionInv ==
    /\ \A c \in Conn : txn[c] # "open" => pending[c] = {}
    /\ \A t \in Thread : TransactionOf(t)

\* Nothing of a transaction is stored before its commit, and whoever is going
\* to report detections as stored has stored them.
StoredInv ==
    \A t \in Thread :
        /\ \A n \in 1..MaxOps, i \in 1..Rows :
            n > ops[t] \/ (n = ops[t] /\ pc[t] \in {"acquire", "blocked", "begin", "insert"}) =>
                <<t, n, i>> \notin stored
        /\ pc[t] = "begin" => result[t] = "failed"
        /\ pc[t] = "release" /\ kind[t] = "detections" /\ result[t] = "ok" =>
                \A i \in 1..Rows : <<t, ops[t], i>> \in stored

IInv == TypeOK /\ ExclusiveConnection /\ HandInv /\ TransactionInv /\ StoredInv /\ PoolIsClean

=============================================================================
