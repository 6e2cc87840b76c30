-------------------------- MODULE MonitoringService --------------------------
(***************************************************************************)
(* What the pipeline of backend/src/main.cpp promises, whatever threads    *)
(* and queues lie between: a frame that was accepted makes some outputs    *)
(* due, every output that is handled was due and is handled once, and the  *)
(* outputs of one kind are handled in the order of their frames, crack by  *)
(* crack.  `done` lists the outputs handled, in that order.                *)
(***************************************************************************)
EXTENDS Naturals, Sequences

CONSTANTS
    Frame,       \* frames the plant may send
    Due(_)       \* the outputs a frame makes due: <<kind, <<frame>>>> or <<kind, <<frame, crack>>>>

VARIABLES accepted, done

vars == <<accepted, done>>

Init ==
    /\ accepted = <<>>
    /\ done = <<>>

Position(f) == CHOOSE i \in 1..Len(accepted) : accepted[i] = f

Before(x, y) ==
    \/ Position(x[1]) < Position(y[1])
    \/ x[1] = y[1] /\ Len(x) = 2 /\ x[2] < y[2]

Accept(f) ==
    /\ accepted' = Append(accepted, f)
    /\ done' = done
    /\ \A i \in 1..Len(accepted) : accepted[i] # f

Handle(o) ==
    /\ done' = Append(done, o)
    /\ accepted' = accepted
    /\ \E i \in 1..Len(accepted) : o \in Due(accepted[i])
    /\ \A i \in 1..Len(done) : done[i][1] = o[1] => Before(done[i][2], o[2])

Next ==
    \/ \E f \in Frame : Accept(f)
    \/ \E f \in Frame : \E o \in Due(f) : Handle(o)

Spec == Init /\ [][Next]_vars
=============================================================================
