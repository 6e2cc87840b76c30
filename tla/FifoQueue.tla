----------------------------- MODULE FifoQueue -----------------------------
(***************************************************************************)
(* What LockFreeQueue promises its users: an unbounded first-in first-out  *)
(* queue whose push and successful try_pop take effect in one step each.   *)
(* `queue` holds the items pushed and not yet popped; `got` the items that *)
(* successful calls of try_pop have handed out, in the order they did.     *)
(* Destroying the queue drops what is still in it.                         *)
(***************************************************************************)
EXTENDS Sequences

CONSTANT Item

VARIABLES queue, got

vars == <<queue, got>>

Init ==
    /\ queue = <<>>
    /\ got = <<>>

Push(x) ==
    /\ queue' = Append(queue, x)
    /\ got' = got

Pop ==
    /\ queue # <<>>
    /\ got' = Append(got, Head(queue))
    /\ queue' = Tail(queue)

Destroy ==
    /\ queue' = <<>>
    /\ got' = got

Next ==
    \/ \E x \in Item : Push(x)
    \/ Pop
    \/ Destroy

Spec == Init /\ [][Next]_vars
=============================================================================
