-------------------------- MODULE TransactionStore --------------------------
(***************************************************************************)
(* What the transactions of DatabaseManager promise, whatever threads,     *)
(* connections and failures lie between: all rows of a transaction are     *)
(* stored in one step, once, or never; and what is reported as stored is   *)
(* in the store by then.                                                   *)
(***************************************************************************)
EXTENDS Naturals

CONSTANTS
    Owner,      \* who performs transactions
    Rows,       \* rows of a transaction
    MaxOps      \* bound: transactions of each owner

VARIABLES
    stored,     \* rows: <<owner, number of the transaction, row>>
    promised    \* transactions reported as stored: <<owner, number of the transaction>>

vars == <<stored, promised>>

Init ==
    /\ stored = {}
    /\ promised = {}

RowsOf(o, n) == {<<o, n, i>> : i \in 1..Rows}

Commit(o, n) ==
    /\ stored \intersect RowsOf(o, n) = {}
    /\ stored' = stored \union RowsOf(o, n)
    /\ promised' = promised

Promise(o, n) ==
    /\ RowsOf(o, n) \subseteq stored
    /\ promised' = promised \union {<<o, n>>}
    /\ stored' = stored

Next == \E o \in Owner, n \in 1..MaxOps : Commit(o, n) \/ Promise(o, n)

Spec == Init /\ [][Next]_vars
=============================================================================
