--------------------------- MODULE MessageJournal ---------------------------
(***************************************************************************)
(* What AlertWsModule promises of its messages, whatever operations its    *)
(* handlers are made of: each message is handled in one step, before the   *)
(* next.  All that it calls for is asked of the database, once, and is     *)
(* stored or refused; then the browsers are told.  Only a packet that      *)
(* cannot be logged is given up, and leaves nothing.                       *)
(***************************************************************************)
EXTENDS Sequences, Naturals

CONSTANTS
    Message,     \* the messages that may come
    Owed(_)      \* what a message calls for: <<table or type of an alert, crack>>

VARIABLES
    done,        \* the messages that were handled, with what came of them
    announced    \* those the browsers were told of: their numbers, in order

vars == <<done, announced>>

Init ==
    /\ done = <<>>
    /\ announced = <<>>

\* What is asked of the database, if so much of it is stored: the points of a crack
\* follow its row.
Asked(m, stored) == {x \in Owed(m) : x[1] = "points" => <<"cracks", x[2]>> \in stored}

Outcome(m, stored, refused) == [message |-> m, stored |-> stored, refused |-> refused]

Handle(m) ==
    /\ announced' = Append(announced, Len(done) + 1)
    /\ \E stored \in SUBSET Owed(m) :
        /\ stored \subseteq Asked(m, stored)
        /\ done' = Append(done, Outcome(m, stored, Asked(m, stored) \ stored))

GiveUp(m) ==
    /\ ~m.utf8
    /\ done' = Append(done, Outcome(m, {}, {}))
    /\ announced' = announced

Next == \E m \in Message : Handle(m) \/ GiveUp(m)

Spec == Init /\ [][Next]_vars
=============================================================================
