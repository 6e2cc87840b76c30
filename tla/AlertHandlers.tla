---------------------------- MODULE AlertHandlers ----------------------------
(***************************************************************************)
(* include/modules/alert_ws_module.h l.97-207: what the thread of          *)
(* AlertWsModule does with one message.  A handler is a sequence of        *)
(* operations of DatabaseManager, a call of AlertManager's check function, *)
(* and a broadcast; each operation is one step here (DatabasePool has its  *)
(* parts), and time passes between them.  Of database/init.sql the model   *)
(* has two constraints: the codes of cracks are unique, and an alert names *)
(* an existing crack.  The types of the columns are left out: with that of *)
(* crack_points.point_3d, a geometry (init.sql l.115) where the code gives *)
(* a numeric[] (database.cpp l.253-266), every insert of points that are   *)
(* there fails, so of what InsertPoints allows the program sees the        *)
(* refusal until one of the two is changed.                                *)
(***************************************************************************)
EXTENDS Integers, Sequences, FiniteSets

CONSTANTS
    Message,        \* the messages that may come
    PoolSize,       \* connections of the pool
    MayRefuse,      \* whether a statement may fail for a reason of the server's own
    MaxId,          \* bound: ids of cracks that an uninitialized id may hit
    MaxMessages,    \* bound: messages that come
    MaxTime         \* bound: seconds that pass

\* Alerts a crack may raise, by what it exceeds (alert_manager.cpp l.52-94).
CrackAlert == {"CRACK_DEPTH_EXCEEDED", "CRACK_WIDTH_EXCEEDED"}

ASSUME MessageAssumption ==
    \A m \in Message :
        /\ m.kind \in {"laser", "vibration", "prediction", "dem"}
        /\ m.porcelain \in Nat
        /\ m.utf8 \in BOOLEAN       \* whether the payload is UTF-8
        /\ m.detected \in BOOLEAN   \* crack_detected
        /\ m.cracks \in Seq(SUBSET CrackAlert)  \* what each crack exceeds
        /\ m.alarm \in BOOLEAN      \* RMS or peak exceeded, or risk HIGH or CRITICAL
ASSUME BoundsAssumption ==
    /\ PoolSize \in Nat /\ MayRefuse \in BOOLEAN
    /\ MaxId \in Nat /\ MaxMessages \in Nat /\ MaxTime \in Nat

\* What an uninitialized id may hold: the id of some row, or of none (0).
Id == 0..MaxId

NoMessage == [kind |-> "none", cracks |-> <<>>]

VARIABLES
    pc,             \* what the handler does next; "wait" between messages
    msg,            \* msg, the message in hand
    came,           \* all messages taken, this one last
    second,         \* system_clock, in seconds
    ids,            \* CrackInfo::id of each crack, never set; at 0 those of other alerts
    place,          \* the crack of the loop over the cracks
    crackId,        \* crack_id, what insert_crack returned
    todo,           \* alerts of the crack, or the one alert, that the check has still to insert
    free,           \* connections that are not lost
    measured,       \* rows of laser_microscope_data and vibration_data: numbers of messages
    cracks,         \* rows of cracks
    points,         \* rows of crack_points
    alerts,         \* rows of alerts
    queued,         \* alerts handed to the worker of AlertManager
    refused,        \* auxiliary: what the database refused, as <<what, n, crack>>
    announced,      \* the messages broadcast, in order
    abandoned       \* auxiliary: messages given up by an exception

\* Rows and alerts refer to the message in hand by its number.
n == Len(came)

local == <<msg, came, ids, place, crackId, todo>>
rows == <<measured, cracks, points, alerts>>
vars == <<pc, local, second, free, rows, queued, refused, announced, abandoned>>

Init ==
    /\ pc = "wait"
    /\ msg = NoMessage
    /\ came = <<>>
    /\ second = 0
    /\ ids = [k \in {0} |-> 0]
    /\ place = 1
    /\ crackId = 0
    /\ todo = <<>>
    /\ free = PoolSize
    /\ measured = {}
    /\ cracks = {}
    /\ points = {}
    /\ alerts = {}
    /\ queued = <<>>
    /\ refused = {}
    /\ announced = <<>>
    /\ abandoned = {}

-----------------------------------------------------------------------------
(* Steps the handlers share *)

\* The handler returns, and its local variables are gone.
Return ==
    /\ pc' = "wait"
    /\ msg' = NoMessage
    /\ ids' = [k \in {0} |-> 0]
    /\ place' = 1
    /\ crackId' = 0

\* A message is taken from its queue; what was never initialized has some value.
Take ==
    /\ pc = "wait"
    /\ n < MaxMessages
    /\ msg' \in Message
    /\ came' = Append(came, msg')
    /\ ids' \in [0..Len(msg'.cracks) -> Id]
    /\ pc' = CASE msg'.kind \in {"laser", "vibration"} -> "log"
               [] msg'.kind = "prediction" -> "check"
               [] msg'.kind = "dem" -> "announce"
    /\ UNCHANGED <<second, place, crackId, todo, free, rows, queued, refused, announced, abandoned>>

Tick ==
    /\ second < MaxTime
    /\ second' = second + 1
    /\ UNCHANGED <<pc, local, free, rows, queued, refused, announced, abandoned>>

\* An operation of DatabaseManager acquires a connection: with none left it waits.
Connected == free > 0

\* The server refuses a statement that breaks a constraint, and may refuse any.
Refuses(legal) == ~legal \/ MayRefuse

\* log_profinet_packet: dump() of the payload, then one statement.
LogPacket ==
    /\ pc = "log"
    /\ Connected
    /\ msg.utf8
    /\ pc' = "measure"
    /\ UNCHANGED <<local, second, free, rows, queued, refused, announced, abandoned>>

\* dump() throws: the connection is lost, and catch ends the handler.
LogThrows ==
    /\ pc = "log"
    /\ Connected
    /\ ~msg.utf8
    /\ free' = free - 1
    /\ abandoned' = abandoned \union {n}
    /\ Return
    /\ UNCHANGED <<came, todo, second, rows, queued, refused, announced>>

\* insert_laser_data or insert_vibration_data; whether it failed is not looked at.
InsertMeasurement(after) ==
    /\ pc = "measure"
    /\ Connected
    /\ \/ measured' = measured \union {n} /\ UNCHANGED refused
       \/ Refuses(TRUE) /\ refused' = refused \union {<<"measured", n, 0>>} /\ UNCHANGED measured
    /\ pc' = after
    /\ UNCHANGED <<local, second, free, cracks, points, alerts, queued, announced, abandoned>>

\* The check functions insert alerts one by one.
InsertAlert(a) ==
    /\ alerts' = alerts \union {a}
    /\ queued' = Append(queued, a)
    /\ UNCHANGED refused

AlertRefused(a) ==
    /\ refused' = refused \union {<<a.type, n, a.about>>}
    /\ UNCHANGED <<alerts, queued>>

\* alerts.crack_id references cracks(id); the alert of a prediction names a
\* sensor and a porcelain that were never set either.
NamesACrack(a) == \E c \in cracks : c.id = a.crack

CheckNext ==
    /\ pc = "alert"
    /\ todo # <<>>
    /\ Connected
    /\ LET a == Head(todo)
       IN \/ NamesACrack(a) /\ InsertAlert(a)
          \/ Refuses(NamesACrack(a) /\ msg.kind # "prediction") /\ AlertRefused(a)
    /\ todo' = Tail(todo)
    /\ UNCHANGED <<pc, msg, came, second, ids, place, crackId, free, measured, cracks, points,
                   announced, abandoned>>

\* broadcast_json, and processed_ is counted.
Announce ==
    /\ pc = "announce"
    /\ announced' = Append(announced, n)
    /\ Return
    /\ UNCHANGED <<came, todo, second, free, rows, queued, refused, abandoned>>

-----------------------------------------------------------------------------
(* handle_laser *)

Detected == IF msg.detected THEN "crack" ELSE "check"

InsertLaser == msg.kind = "laser" /\ InsertMeasurement(Detected)

\* The code of a crack is made of the porcelain and the second it is stored in.
Code == <<msg.porcelain, second>>

CrackStored ==
    /\ crackId' = Cardinality(cracks) + 1
    /\ cracks' = cracks \union {[id |-> Cardinality(cracks) + 1, code |-> Code, n |-> n, k |-> place]}
    /\ pc' = "points"
    /\ UNCHANGED <<place, refused>>

\* Mutant: the loop tries the crack again.
CrackRefusedRetries ==
    /\ refused' = refused \union {<<"cracks", n, place>>}
    /\ UNCHANGED <<pc, place, crackId, cracks>>

\* insert_crack returned -1: the points are left out, and the loop goes on.
CrackRefused ==
    /\ refused' = refused \union {<<"cracks", n, place>>}
    /\ place' = place + 1
    /\ UNCHANGED <<pc, crackId, cracks>>

\* insert_crack; cracks.crack_code is unique.
InsertCrack ==
    /\ pc = "crack"
    /\ place <= Len(msg.cracks)
    /\ Connected
    /\ LET new == \A c \in cracks : c.code # Code
       IN \/ new /\ CrackStored
          \/ Refuses(new) /\ CrackRefused
    /\ UNCHANGED <<msg, came, second, ids, todo, free, measured, points, alerts, queued,
                   announced, abandoned>>

\* Mutant: the points are given the id in the message.
InsertPointsOfMessageId ==
    /\ pc = "points"
    /\ Connected
    /\ points' = points \union {[crack |-> ids[place], n |-> n, k |-> place]}
    /\ place' = place + 1
    /\ pc' = "crack"
    /\ UNCHANGED <<msg, came, second, ids, crackId, todo, free, measured, cracks, alerts, queued,
                   refused, announced, abandoned>>

\* insert_crack_points, all points of the crack or none; what it returns is not
\* looked at.  That they are stored takes a table whose column has the type of
\* the statement.
InsertPoints ==
    /\ pc = "points"
    /\ Connected
    /\ \/ points' = points \union {[crack |-> crackId, n |-> n, k |-> place]} /\ UNCHANGED refused
       \/ Refuses(TRUE) /\ refused' = refused \union {<<"points", n, place>>} /\ UNCHANGED points
    /\ place' = place + 1
    /\ pc' = "crack"
    /\ UNCHANGED <<msg, came, second, ids, crackId, todo, free, measured, cracks, alerts, queued,
                   announced, abandoned>>

CracksDone ==
    /\ pc = "crack"
    /\ place > Len(msg.cracks)
    /\ pc' = "check"
    /\ UNCHANGED <<local, second, free, rows, queued, refused, announced, abandoned>>

\* Mutant: only the cracks that were stored are checked.
AlertsOfStored(k) ==
    LET named(t) == [type |-> t, n |-> n, about |-> k, crack |-> ids[k]]
        exceeded(t) == IF t \in msg.cracks[k] /\ <<"cracks", n, k>> \notin refused
                       THEN <<named(t)>> ELSE <<>>
    IN exceeded("CRACK_DEPTH_EXCEEDED") \o exceeded("CRACK_WIDTH_EXCEEDED")

\* The alerts of crack k, the one for its depth first.
AlertsOf(k) ==
    LET named(t) == [type |-> t, n |-> n, about |-> k, crack |-> ids[k]]
        exceeded(t) == IF t \in msg.cracks[k] THEN <<named(t)>> ELSE <<>>
    IN exceeded("CRACK_DEPTH_EXCEEDED") \o exceeded("CRACK_WIDTH_EXCEEDED")

\* check_laser_data: without a crack that was detected it returns at once ...
CheckLaser ==
    /\ pc = "check"
    /\ msg.kind = "laser"
    /\ pc' = IF msg.detected THEN "thresholds" ELSE "announce"
    /\ place' = 1
    /\ UNCHANGED <<msg, came, second, ids, crackId, todo, free, rows, queued, refused, announced,
                   abandoned>>

\* ... and goes through all cracks of the message, stored or not
CheckCrack ==
    /\ pc = "thresholds"
    /\ place <= Len(msg.cracks)
    /\ todo' = AlertsOf(place)
    /\ pc' = "alert"
    /\ UNCHANGED <<msg, came, second, ids, place, crackId, free, rows, queued, refused, announced,
                   abandoned>>

CrackChecked ==
    /\ pc = "alert"
    /\ todo = <<>>
    /\ place' = place + 1
    /\ pc' = "thresholds"
    /\ UNCHANGED <<msg, came, second, ids, crackId, todo, free, rows, queued, refused, announced,
                   abandoned>>

AllChecked ==
    /\ pc = "thresholds"
    /\ place > Len(msg.cracks)
    /\ pc' = "announce"
    /\ UNCHANGED <<local, second, free, rows, queued, refused, announced, abandoned>>

HandleLaser ==
    \/ LogPacket \/ LogThrows \/ InsertLaser
    \/ InsertCrack \/ InsertPoints \/ CracksDone
    \/ CheckLaser \/ CheckCrack \/ CheckNext \/ CrackChecked \/ AllChecked \/ Announce

-----------------------------------------------------------------------------
(* handle_vibration, handle_prediction, handle_dem *)

InsertVibration == msg.kind = "vibration" /\ InsertMeasurement("check")

\* check_vibration_data and check_prediction raise at most one alert.
CheckOne(type) ==
    /\ pc = "check"
    /\ todo' = IF msg.alarm THEN <<[type |-> type, n |-> n, about |-> 0, crack |-> ids[0]]>>
                            ELSE <<>>
    /\ pc' = "alert"
    /\ UNCHANGED <<msg, came, second, ids, place, crackId, free, rows, queued, refused, announced,
                   abandoned>>

\* check_vibration_data or check_prediction returns.
CheckEnds ==
    /\ pc = "alert"
    /\ todo = <<>>
    /\ pc' = "announce"
    /\ UNCHANGED <<local, second, free, rows, queued, refused, announced, abandoned>>

CheckVibration == msg.kind = "vibration" /\ CheckOne("VIBRATION_ANOMALY")
CheckPrediction == msg.kind = "prediction" /\ CheckOne("CRACK_PROPAGATION_RISK")

HandleVibration ==
    LogPacket \/ LogThrows \/ InsertVibration \/ CheckVibration \/ CheckNext \/ CheckEnds \/ Announce

HandlePrediction == CheckPrediction \/ CheckNext \/ CheckEnds \/ Announce

HandleDem == Announce

Handle ==
    \/ msg.kind = "laser" /\ HandleLaser
    \/ msg.kind = "vibration" /\ HandleVibration
    \/ msg.kind = "prediction" /\ HandlePrediction
    \/ msg.kind = "dem" /\ HandleDem

Next == Take \/ Tick \/ Handle

Spec == Init /\ [][Next]_vars

\* The thread of AlertWsModule runs.
FairSpec == Spec /\ WF_vars(Handle)

-----------------------------------------------------------------------------
(* Properties *)

Table == {"measured", "cracks", "points"}
Alert == [type : CrackAlert \union {"VIBRATION_ANOMALY", "CRACK_PROPAGATION_RISK"},
          n : 1..MaxMessages, about : Nat, crack : Id]

\* Every variable has its type.
TypeOK ==
    /\ pc \in {"wait", "log", "measure", "crack", "points", "check", "thresholds", "alert",
               "announce"}
    /\ came \in Seq(Message) /\ n <= MaxMessages
    /\ msg \in {NoMessage} \union Message
    /\ second \in 0..MaxTime /\ free \in 0..PoolSize
    /\ ids \in [0..Len(msg.cracks) -> Id]
    /\ place \in Nat /\ crackId \in Nat
    /\ todo \in Seq(Alert) /\ queued \in Seq(Alert) /\ alerts \subseteq Alert
    /\ measured \subseteq 1..n /\ abandoned \subseteq 1..n /\ announced \in Seq(1..n)
    /\ IsFiniteSet(cracks)
    /\ \A c \in cracks : c.id \in Nat /\ c.n \in 1..n /\ c.k \in 1..Len(came[c.n].cracks)
    /\ \A p \in points : p.n \in 1..n /\ p.k \in 1..Len(came[p.n].cracks)

\* Points are stored under the row of the very crack they were measured on,
\* whatever the ids in the message hold and whichever cracks before it were
\* refused.
PointsUnderTheirCrack ==
    \A p \in points : \E c \in cracks : c.id = p.crack /\ c.n = p.n /\ c.k = p.k

Measurement(i) == i \in measured \/ <<"measured", i, 0>> \in refused

StoredOrRefused(i, k) ==
    \/ <<"cracks", i, k>> \in refused
    \/ /\ \E c \in cracks : c.n = i /\ c.k = k
       /\ (\E p \in points : p.n = i /\ p.k = k) \/ <<"points", i, k>> \in refused

Raised(type, i, k) ==
    \/ \E j \in DOMAIN queued :
           queued[j] \in alerts /\ queued[j].type = type /\ queued[j].n = i /\ queued[j].about = k
    \/ <<type, i, k>> \in refused

\* What was asked of the database for message i, and of the alert manager
Handled(i) ==
    LET m == came[i]
    IN /\ m.kind \in {"laser", "vibration"} => Measurement(i)
       /\ m.kind = "vibration" /\ m.alarm => Raised("VIBRATION_ANOMALY", i, 0)
       /\ m.kind = "prediction" /\ m.alarm => Raised("CRACK_PROPAGATION_RISK", i, 0)
       /\ m.kind = "laser" /\ m.detected =>
              \A k \in 1..Len(m.cracks) :
                  /\ StoredOrRefused(i, k)
                  /\ \A t \in m.cracks[k] : Raised(t, i, k)

LeftNothing(i) ==
    /\ i \notin measured
    /\ \A r \in cracks \union points \union alerts : r.n # i
    /\ \A j \in DOMAIN announced : announced[j] # i

\* When the browsers are told of a message, everything it calls for has been
\* done: its row and those of its cracks and points are stored and its alerts
\* are stored and queued, each unless the database refused it; a crack that is
\* refused takes its points with it, and no other refusal takes anything.  A
\* message whose handler ended by an exception has left no trace.
WholeOrNothing ==
    /\ \A j \in DOMAIN announced : Handled(announced[j])
    /\ \A i \in abandoned : LeftNothing(i)

\* What message i calls for: the rows of its measurement, its cracks and their points,
\* and its alerts, each with the crack it is about.
Owed(m) ==
    (IF m.kind \in {"laser", "vibration"} THEN {<<"measured", 0>>} ELSE {})
    \union (IF m.kind = "vibration" /\ m.alarm THEN {<<"VIBRATION_ANOMALY", 0>>} ELSE {})
    \union (IF m.kind = "prediction" /\ m.alarm THEN {<<"CRACK_PROPAGATION_RISK", 0>>} ELSE {})
    \union (IF m.kind = "laser" /\ m.detected
            THEN UNION {{<<"cracks", k>>, <<"points", k>>} \union {<<t, k>> : t \in m.cracks[k]}
                            : k \in 1..Len(m.cracks)}
            ELSE {})

\* What of it the database has stored, and what it has refused
Stored(i) ==
    {<<"measured", 0>> : j \in measured \intersect {i}}
    \union {<<"cracks", c.k>> : c \in {d \in cracks : d.n = i}}
    \union {<<"points", p.k>> : p \in {d \in points : d.n = i}}
    \union {<<a.type, a.about>> : a \in {d \in alerts : d.n = i}}
Refused(i) == {<<r[1], r[3]>> : r \in {d \in refused : d[2] = i}}

\* How many messages are no longer in hand
Ended == IF pc = "wait" THEN n ELSE n - 1

(* The handlers implement the journal of MessageJournal, in which a        *)
(* message is handled in one step: what one message leaves behind is done  *)
(* before the next is taken and does not change any more, everything it    *)
(* calls for is tried exactly once and nothing else is, the points of a    *)
(* crack only if insert_crack stored it, and the browsers hear of a        *)
(* message once, in order, after all of it (alert_ws_module.h l.97-207).   *)
Journal == INSTANCE MessageJournal WITH
    done <- [i \in 1..Ended |->
                [message |-> came[i], stored |-> Stored(i), refused |-> Refused(i)]]

ImplementsJournal == Journal!Spec

\* Every message is announced or given up, whatever the database refuses, unless
\* every connection of the pool has been lost to dump().
EveryMessageEnds ==
    \A i \in 1..MaxMessages :
        n >= i ~> (\E j \in DOMAIN announced : announced[j] = i) \/ i \in abandoned \/ free = 0

-----------------------------------------------------------------------------
(* The inductive invariant: what has been done for the message in hand by  *)
(* each place of its handler, and that rows are only of messages taken.    *)

InHand == pc # "wait"

\* Where the handlers of the four kinds come to, and whose the rows are.
PlaceInv ==
    /\ InHand => n > 0 /\ msg = came[n] /\ n \notin abandoned
    /\ pc \in {"log", "measure"} => msg.kind \in {"laser", "vibration"}
    /\ pc \in {"crack", "points", "thresholds"} => msg.kind = "laser" /\ msg.detected
    /\ pc \in {"check", "alert"} => msg.kind # "dem"
    /\ pc = "alert" /\ msg.kind = "laser" => msg.detected /\ place \in 1..Len(msg.cracks)
    /\ pc = "points" => place \in 1..Len(msg.cracks)
    /\ place >= 1 /\ (pc \in {"wait", "log", "measure"} => place = 1)
    /\ \A a \in alerts : a.n <= n
    /\ \A j \in DOMAIN todo : pc = "alert" => todo[j].n = n

\* A message that may still be given up has left nothing so far.
TraceInv ==
    /\ pc = "log" => LeftNothing(n)
    /\ \A i \in abandoned : LeftNothing(i)

StoredInv ==
    /\ InHand /\ msg.kind \in {"laser", "vibration"} /\ pc \notin {"log", "measure"} => Measurement(n)
    /\ pc \in {"crack", "points"} => \A k \in 1..(place - 1) : StoredOrRefused(n, k)
    /\ pc = "points" => \E c \in cracks : c.id = crackId /\ c.n = n /\ c.k = place
    /\ pc \in {"check", "thresholds", "alert", "announce"} /\ msg.kind = "laser" /\ msg.detected =>
        \A k \in 1..Len(msg.cracks) : StoredOrRefused(n, k)

\* An alert that is called for is raised, or about to be while its crack or
\* its message is checked.
RaisedOrPending(type, k) ==
    Raised(type, n, k) \/ \E j \in DOMAIN todo : todo[j].type = type /\ todo[j].about = k

AllRaised(k) == \A t \in msg.cracks[k] : Raised(t, n, k)

RaisedInv ==
    /\ msg.kind = "laser" /\ msg.detected =>
        /\ pc \in {"thresholds", "alert"} => \A k \in 1..(place - 1) : AllRaised(k)
        /\ pc = "alert" => \A t \in msg.cracks[place] : RaisedOrPending(t, place)
        /\ pc = "announce" => \A k \in 1..Len(msg.cracks) : AllRaised(k)
    /\ msg.kind = "vibration" /\ msg.alarm =>
        /\ pc = "alert" => RaisedOrPending("VIBRATION_ANOMALY", 0)
        /\ pc = "announce" => Raised("VIBRATION_ANOMALY", n, 0)
    /\ msg.kind = "prediction" /\ msg.alarm =>
        /\ pc = "alert" => RaisedOrPending("CRACK_PROPAGATION_RISK", 0)
        /\ pc = "announce" => Raised("CRACK_PROPAGATION_RISK", n, 0)

IInv ==
    TypeOK /\ PlaceInv /\ TraceInv /\ StoredInv /\ RaisedInv /\ PointsUnderTheirCrack /\ WholeOrNothing

\* Where the handler has come to, it has tried what the message calls for up to there.
Tried(x) ==
    /\ pc \notin {"log", "measure"}
    /\ x[1] = "cracks" =>
        /\ pc = "crack" => x[2] < place
        /\ pc = "points" => x[2] <= place
    /\ x[1] = "points" =>
        /\ <<"cracks", x[2]>> \in Stored(n)
        /\ pc \in {"crack", "points"} => x[2] < place
    /\ x[1] \notin Table =>
        /\ pc \in {"thresholds", "alert", "announce"}
        /\ pc = "thresholds" => x[2] < place
        /\ pc = "alert" =>
            /\ msg.kind = "laser" => x[2] <= place
            /\ \A j \in DOMAIN todo : x # <<todo[j].type, todo[j].about>>

\* The alerts that are still to insert are called for, each once, all by one crack.
TodoInv ==
    pc = "alert" => \A j \in DOMAIN todo :
        /\ <<todo[j].type, todo[j].about>> \in Owed(msg)
        /\ msg.kind = "laser" => todo[j].about = place
        /\ \A l \in DOMAIN todo : todo[l].type = todo[j].type => l = j

OnceInv ==
    /\ \A r \in refused : r[2] \in 1..n
    /\ InHand =>
        /\ Stored(n) \intersect Refused(n) = {}
        /\ Stored(n) \union Refused(n) = {x \in Owed(msg) : Tried(x)}

JournalInv == TodoInv /\ OnceInv

=============================================================================
