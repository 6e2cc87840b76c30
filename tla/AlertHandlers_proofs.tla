------------------------ MODULE AlertHandlers_proofs ------------------------
(***************************************************************************)
(* Proofs about AlertHandlers: what the handlers leave in the database,    *)
(* for all messages, pools, ids that were never set and refusals.          *)
(***************************************************************************)
EXTENDS AlertHandlers, TLAPS, FiniteSetTheorems

(* What a message is.                                                      *)

LEMMA MessageFacts ==
    ASSUME NEW m \in Message
    PROVE  /\ Len(m.cracks) \in Nat
           /\ \A k \in 1..Len(m.cracks) : m.cracks[k] \subseteq CrackAlert
BY MessageAssumption

LEMMA ElementOf == ASSUME NEW S, NEW s \in Seq(S), NEW j \in DOMAIN s PROVE s[j] \in S
OBVIOUS

LEMMA SeqOfMore ==
    ASSUME NEW S, NEW T, S \subseteq T, NEW s \in Seq(S) PROVE s \in Seq(T)
OBVIOUS

LEMMA HandFacts ==
    ASSUME TypeOK, PlaceInv, InHand
    PROVE  /\ msg \in Message
           /\ n \in 1..MaxMessages
           /\ msg = came[n]
           /\ n \notin abandoned
BY DEF TypeOK, PlaceInv, InHand, n

-----------------------------------------------------------------------------
(* A step adds rows of the message in hand, takes none away, and forgets   *)
(* no refusal.                                                             *)

Keeps ==
    /\ measured \subseteq measured' /\ cracks \subseteq cracks' /\ points \subseteq points'
    /\ alerts \subseteq alerts' /\ refused \subseteq refused'
    /\ \A j \in DOMAIN queued : j \in DOMAIN queued' /\ queued'[j] = queued[j]

AddsOnlyHere ==
    /\ came' = came
    /\ measured' \subseteq measured \union {n}
    /\ \A c \in cracks' : c \in cracks \/ c.n = n
    /\ \A p \in points' : p \in points \/ p.n = n
    /\ \A a \in alerts' : a \in alerts \/ a.n = n

LEMMA MeasurementKept ==
    ASSUME Keeps, NEW i, Measurement(i) PROVE Measurement(i)'
BY DEF Keeps, Measurement

LEMMA StoredKept ==
    ASSUME Keeps, NEW i, NEW k, StoredOrRefused(i, k) PROVE StoredOrRefused(i, k)'
BY DEF Keeps, StoredOrRefused

LEMMA RaisedKept ==
    ASSUME Keeps, NEW t, NEW i, NEW k, Raised(t, i, k) PROVE Raised(t, i, k)'
BY DEF Keeps, Raised

LEMMA HandledKept ==
    ASSUME Keeps, NEW i, came'[i] = came[i], Handled(i) PROVE Handled(i)'
BY MeasurementKept, StoredKept, RaisedKept DEF Handled

LEMMA LeftKept ==
    ASSUME AddsOnlyHere, NEW i, i # n, LeftNothing(i), announced' = announced
    PROVE  LeftNothing(i)'
BY DEF AddsOnlyHere, LeftNothing

\* A step that neither announces nor gives up a message keeps the verdict on
\* those before it.
LEMMA VerdictKept ==
    ASSUME Keeps, AddsOnlyHere, WholeOrNothing, n \notin abandoned,
           UNCHANGED <<announced, abandoned>>
    PROVE  WholeOrNothing' /\ \A i \in abandoned : LeftNothing(i)'
<1>1. \A j \in DOMAIN announced : Handled(announced[j])'
  BY HandledKept DEF WholeOrNothing, AddsOnlyHere
<1>2. \A i \in abandoned : LeftNothing(i)'
  BY LeftKept DEF WholeOrNothing
<1> QED BY <1>1, <1>2 DEF WholeOrNothing

LEMMA Untouched ==
    ASSUME UNCHANGED <<rows, queued, refused>> PROVE Keeps
BY DEF Keeps, rows

\* Where nothing of the database changes, what was stored stays judged alike.
LEMMA ControlKept ==
    ASSUME UNCHANGED <<came, rows, queued, refused, announced, abandoned>>
    PROVE  /\ Keeps
           /\ \A i : LeftNothing(i)' <=> LeftNothing(i)
           /\ \A i : Measurement(i)' <=> Measurement(i)
           /\ \A i, k : StoredOrRefused(i, k)' <=> StoredOrRefused(i, k)
           /\ \A t, i, k : Raised(t, i, k)' <=> Raised(t, i, k)
           /\ WholeOrNothing' <=> WholeOrNothing
           /\ PointsUnderTheirCrack' <=> PointsUnderTheirCrack
<1>1. UNCHANGED <<came, measured, cracks, points, alerts, queued, refused, announced, abandoned>>
  BY DEF rows
<1>2. Keeps
  BY <1>1 DEF Keeps
<1>3. \A i : LeftNothing(i)' <=> LeftNothing(i)
  BY <1>1 DEF LeftNothing
<1>4. \A i : Measurement(i)' <=> Measurement(i)
  BY <1>1 DEF Measurement
<1>5. \A i, k : StoredOrRefused(i, k)' <=> StoredOrRefused(i, k)
  BY <1>1 DEF StoredOrRefused
<1>6. \A t, i, k : Raised(t, i, k)' <=> Raised(t, i, k)
  BY <1>1 DEF Raised
<1>7. \A i : Handled(i)' <=> Handled(i)
  BY <1>1, <1>4, <1>5, <1>6 DEF Handled
<1>8. WholeOrNothing' <=> WholeOrNothing
  BY <1>1, <1>3, <1>7 DEF WholeOrNothing
<1>9. PointsUnderTheirCrack' <=> PointsUnderTheirCrack
  BY <1>1 DEF PointsUnderTheirCrack
<1> QED BY <1>2, <1>3, <1>4, <1>5, <1>6, <1>8, <1>9

-----------------------------------------------------------------------------
(* The initial state, and a message that is taken.                         *)

LEMMA InitInv == Init => IInv
<1> SUFFICES ASSUME Init PROVE IInv
  OBVIOUS
<1>1. /\ came = <<>> /\ n = 0 /\ pc = "wait" /\ msg = NoMessage /\ place = 1 /\ crackId = 0
      /\ todo = <<>> /\ queued = <<>> /\ announced = <<>> /\ second = 0 /\ free = PoolSize
      /\ measured = {} /\ cracks = {} /\ points = {} /\ alerts = {} /\ abandoned = {}
      /\ msg.cracks = <<>> /\ msg.kind = "none"
  BY DEF Init, n, NoMessage
<1>2. ids \in [0..Len(msg.cracks) -> Id]
  <2>1. 0..Len(msg.cracks) = {0} /\ 0 \in Id
    BY <1>1, BoundsAssumption DEF Id
  <2> QED BY <2>1 DEF Init
<1>3. IsFiniteSet(cracks)
  BY <1>1, FS_EmptySet
<1>4. TypeOK
  BY <1>1, <1>2, <1>3, BoundsAssumption DEF TypeOK
<1>5. PlaceInv /\ TraceInv /\ StoredInv /\ RaisedInv
  BY <1>1 DEF PlaceInv, TraceInv, StoredInv, RaisedInv, InHand
<1>6. PointsUnderTheirCrack /\ WholeOrNothing
  BY <1>1 DEF PointsUnderTheirCrack, WholeOrNothing
<1> QED BY <1>4, <1>5, <1>6 DEF IInv

LEMMA TakeInv == ASSUME IInv, Take PROVE IInv'
<1> USE DEF IInv
<1>1. /\ pc = "wait" /\ n < MaxMessages /\ msg' \in Message /\ came' = Append(came, msg')
      /\ ids' \in [0..Len(msg'.cracks) -> Id]
      /\ UNCHANGED <<second, place, crackId, todo, free, measured, cracks, points, alerts, queued,
                     refused, announced, abandoned>>
  BY DEF Take, rows
<1>2. /\ n \in Nat /\ n' = n + 1 /\ n' <= MaxMessages /\ came' \in Seq(Message)
      /\ came'[n'] = msg' /\ \A i \in 1..n : came'[i] = came[i]
  BY <1>1, BoundsAssumption DEF TypeOK, n
<1>3. \/ msg'.kind \in {"laser", "vibration"} /\ pc' = "log"
      \/ msg'.kind = "prediction" /\ pc' = "check"
      \/ msg'.kind = "dem" /\ pc' = "announce"
  BY <1>1, MessageAssumption DEF Take
<1>4. 1..n \subseteq 1..n'
  BY <1>2
<1>5. TypeOK'
  <2>1. /\ measured' \subseteq 1..n' /\ abandoned' \subseteq 1..n'
    BY <1>1, <1>4 DEF TypeOK
  <2>4. announced' \in Seq(1..n')
    <3>1. announced \in Seq(1..n)
      BY DEF TypeOK
    <3>2. announced \in Seq(1..n')
      BY <3>1, <1>4, SeqOfMore
    <3> QED BY <3>2, <1>1
  <2>2. /\ \A c \in cracks' : c.id \in Nat /\ c.n \in 1..n' /\ c.k \in 1..Len(came'[c.n].cracks)
        /\ \A p \in points' : p.n \in 1..n' /\ p.k \in 1..Len(came'[p.n].cracks)
    BY <1>1, <1>2, <1>4 DEF TypeOK
  <2>3. pc' \in {"log", "check", "announce"}
    BY <1>3
  <2> QED BY <1>1, <1>2, <2>1, <2>2, <2>3, <2>4 DEF TypeOK
<1>6. \A i : LeftNothing(i)' <=> LeftNothing(i)
  BY <1>1 DEF LeftNothing
<1>7. LeftNothing(n')
  BY <1>2 DEF LeftNothing, TypeOK, PlaceInv
<1>8. n' \notin abandoned
  BY <1>2 DEF TypeOK
<1>9. PlaceInv'
  <2>1. \A a \in alerts' : a.n <= n'
    <3>1. \A a \in alerts : a \in Alert /\ a.n <= n
      BY DEF PlaceInv, TypeOK
    <3>2. \A a \in Alert : a.n \in 1..MaxMessages
      BY DEF Alert
    <3>3. \A a \in alerts : a.n \in Int /\ a.n <= n
      BY <3>1, <3>2, BoundsAssumption
    <3> QED BY <3>3, <1>1, <1>2
  <2>2. place' = 1
    BY <1>1 DEF PlaceInv
  <2>3. n' > 0 /\ msg' = came'[n'] /\ n' \notin abandoned'
    BY <1>1, <1>2, <1>8
  <2> QED BY <1>3, <2>1, <2>2, <2>3 DEF PlaceInv, InHand
<1>10. TraceInv'
  BY <1>1, <1>6, <1>7 DEF TraceInv
<1>11. StoredInv' /\ RaisedInv'
  BY <1>3 DEF StoredInv, RaisedInv, InHand
<1>12. PointsUnderTheirCrack'
  BY <1>1 DEF PointsUnderTheirCrack
<1>13. Keeps
  BY <1>1 DEF Keeps
<1>14. \A j \in DOMAIN announced : announced[j] \in 1..n
  <2>1. announced \in Seq(1..n)
    BY DEF TypeOK
  <2> QED BY <2>1, ElementOf
<1>15. \A j \in DOMAIN announced : Handled(announced[j])'
  <2> SUFFICES ASSUME NEW j \in DOMAIN announced PROVE Handled(announced[j])'
    OBVIOUS
  <2>1. Handled(announced[j])
    BY DEF WholeOrNothing
  <2>2. came'[announced[j]] = came[announced[j]]
    BY <1>2, <1>14
  <2>3. announced'[j] = announced[j]
    BY <1>1
  <2> QED BY <1>13, <2>1, <2>2, <2>3, HandledKept
<1>16. WholeOrNothing'
  BY <1>1, <1>6, <1>15 DEF WholeOrNothing
<1> QED BY <1>5, <1>9, <1>10, <1>11, <1>12, <1>16

LEMMA TickInv == ASSUME IInv, Tick PROVE IInv'
<1> USE DEF IInv
<1>1. /\ second' \in 0..MaxTime
      /\ UNCHANGED <<pc, local, free, rows, queued, refused, announced, abandoned>>
  BY BoundsAssumption DEF Tick, TypeOK
<1>2. UNCHANGED <<pc, msg, came, ids, place, crackId, todo, free, measured, cracks, points, alerts,
                  queued, refused, announced, abandoned, n>>
  BY <1>1 DEF local, rows, n
<1>3. TypeOK'
  BY <1>1, <1>2 DEF TypeOK
<1>4. /\ \A i : LeftNothing(i)' <=> LeftNothing(i)
      /\ \A i : Measurement(i)' <=> Measurement(i)
      /\ \A i, k : StoredOrRefused(i, k)' <=> StoredOrRefused(i, k)
      /\ \A t, i, k : Raised(t, i, k)' <=> Raised(t, i, k)
      /\ WholeOrNothing' /\ PointsUnderTheirCrack'
  BY <1>2, ControlKept DEF rows
<1>5. PlaceInv'
  BY <1>2 DEF PlaceInv, InHand
<1>6. TraceInv'
  BY <1>2, <1>4 DEF TraceInv
<1>7. StoredInv'
  BY <1>2, <1>4 DEF StoredInv, InHand
<1>8. RaisedInv'
  BY <1>2, <1>4 DEF RaisedInv, RaisedOrPending, AllRaised
<1> QED BY <1>3, <1>4, <1>5, <1>6, <1>7, <1>8

-----------------------------------------------------------------------------
(* The steps that only decide where the handler goes.  What they keep is   *)
(* the same for all of them.                                               *)

Decides ==
    /\ InHand /\ pc' \notin {"wait", "log"}
    /\ UNCHANGED <<msg, came, second, ids, crackId, free, rows, queued, refused, announced,
                   abandoned>>

LEMMA DecidesKeeps ==
    ASSUME IInv, Decides
    PROVE  /\ UNCHANGED <<n, msg, came, measured, cracks, points, alerts, queued, abandoned>>
           /\ \A i : Measurement(i)' <=> Measurement(i)
           /\ \A i, k : StoredOrRefused(i, k)' <=> StoredOrRefused(i, k)
           /\ \A t, i, k : Raised(t, i, k)' <=> Raised(t, i, k)
           /\ TraceInv' /\ WholeOrNothing' /\ PointsUnderTheirCrack'
<1>1. /\ UNCHANGED <<n, msg, came, measured, cracks, points, alerts, queued, abandoned>>
      /\ UNCHANGED <<came, rows, queued, refused, announced, abandoned>>
  BY DEF Decides, rows, n
<1>2. /\ \A i : LeftNothing(i)' <=> LeftNothing(i)
      /\ \A i : Measurement(i)' <=> Measurement(i)
      /\ \A i, k : StoredOrRefused(i, k)' <=> StoredOrRefused(i, k)
      /\ \A t, i, k : Raised(t, i, k)' <=> Raised(t, i, k)
      /\ WholeOrNothing' /\ PointsUnderTheirCrack'
  BY <1>1, ControlKept DEF IInv
<1>3. TraceInv'
  BY <1>1, <1>2 DEF IInv, TraceInv, Decides
<1> QED BY <1>1, <1>2, <1>3

LEMMA DecidesTypeOK ==
    ASSUME TypeOK, Decides, place' \in Nat, todo' \in Seq(Alert),
           pc' \in {"measure", "crack", "points", "check", "thresholds", "alert", "announce"}
    PROVE  TypeOK'
<1>1. /\ UNCHANGED <<msg, came, second, ids, crackId, free, measured, cracks, points, alerts,
                     queued, announced, abandoned, n>>
  BY DEF Decides, rows, n
<1> QED BY <1>1 DEF TypeOK

LEMMA LogPacketInv ==
    ASSUME IInv, LogPacket, msg.kind \in {"laser", "vibration"} PROVE IInv'
<1> USE DEF IInv
<1>1. pc = "log" /\ pc' = "measure" /\ place' = place /\ todo' = todo /\ Decides
  BY DEF LogPacket, Decides, InHand, local
<1>2. TypeOK'
  BY <1>1, DecidesTypeOK DEF TypeOK
<1>3. PlaceInv'
  BY <1>1, DecidesKeeps DEF PlaceInv, InHand
<1>4. StoredInv' /\ RaisedInv'
  BY <1>1 DEF StoredInv, RaisedInv, InHand
<1> QED BY <1>1, <1>2, <1>3, <1>4, DecidesKeeps

LEMMA CracksDoneInv == ASSUME IInv, CracksDone PROVE IInv'
<1> USE DEF IInv
<1>1. /\ pc = "crack" /\ pc' = "check" /\ place > Len(msg.cracks)
      /\ place' = place /\ todo' = todo /\ Decides
  BY DEF CracksDone, Decides, InHand, local
<1>2. TypeOK'
  BY <1>1, DecidesTypeOK DEF TypeOK
<1>3. PlaceInv'
  BY <1>1, DecidesKeeps DEF PlaceInv, InHand
<1>4. 1..Len(msg.cracks) \subseteq 1..(place - 1)
  BY <1>1, HandFacts, MessageFacts DEF TypeOK, InHand
<1>5. StoredInv'
  BY <1>1, <1>4, DecidesKeeps DEF StoredInv, InHand
<1>6. RaisedInv'
  BY <1>1 DEF RaisedInv
<1> QED BY <1>1, <1>2, <1>3, <1>5, <1>6, DecidesKeeps

LEMMA CheckLaserInv == ASSUME IInv, CheckLaser PROVE IInv'
<1> USE DEF IInv
<1>1. /\ pc = "check" /\ msg.kind = "laser" /\ place' = 1 /\ todo' = todo
      /\ \/ msg.detected /\ pc' = "thresholds"
         \/ ~msg.detected /\ pc' = "announce"
      /\ Decides
  BY DEF CheckLaser, Decides, InHand
<1>2. TypeOK'
  BY <1>1, DecidesTypeOK DEF TypeOK
<1>3. PlaceInv'
  BY <1>1, DecidesKeeps DEF PlaceInv, InHand
<1>4. StoredInv'
  BY <1>1, DecidesKeeps DEF StoredInv, InHand
<1>5. 1..(place' - 1) = {}
  BY <1>1
<1>6. RaisedInv'
  BY <1>1, <1>5, DecidesKeeps DEF RaisedInv
<1> QED BY <1>1, <1>2, <1>3, <1>4, <1>6, DecidesKeeps

LEMMA IdFacts ==
    ASSUME TypeOK, PlaceInv, InHand, NEW k \in 0..Len(msg.cracks) PROVE ids[k] \in Id
<1>1. ids \in [0..Len(msg.cracks) -> Id]
  BY DEF TypeOK
<1> QED BY <1>1

\* check_crack_thresholds gives an alert for each threshold the crack exceeds.
LEMMA AlertsOfFacts ==
    ASSUME TypeOK, PlaceInv, InHand, NEW k \in 1..Len(msg.cracks)
    PROVE  /\ AlertsOf(k) \in Seq(Alert)
           /\ \A j \in DOMAIN AlertsOf(k) : AlertsOf(k)[j].n = n
           /\ \A t \in msg.cracks[k] :
                  \E j \in DOMAIN AlertsOf(k) : AlertsOf(k)[j].type = t /\ AlertsOf(k)[j].about = k
<1> DEFINE named(t) == [type |-> t, n |-> n, about |-> k, crack |-> ids[k]]
<1> DEFINE exceeded(t) == IF t \in msg.cracks[k] THEN <<named(t)>> ELSE <<>>
<1> DEFINE deep == exceeded("CRACK_DEPTH_EXCEEDED")
<1> DEFINE wide == exceeded("CRACK_WIDTH_EXCEEDED")
<1>1. AlertsOf(k) = deep \o wide
  BY DEF AlertsOf
<1>2. /\ n \in 1..MaxMessages /\ Len(msg.cracks) \in Nat /\ msg.cracks[k] \subseteq CrackAlert
  BY HandFacts, MessageFacts
<1>3. ids[k] \in Id /\ k \in Nat
  BY <1>2, IdFacts
<1>4. \A t \in CrackAlert : named(t) \in Alert
  BY <1>2, <1>3 DEF Alert
<1>5. /\ named("CRACK_DEPTH_EXCEEDED") \in Alert /\ named("CRACK_WIDTH_EXCEEDED") \in Alert
  BY <1>4 DEF CrackAlert
<1> HIDE DEF named
<1>6. /\ deep \in Seq(Alert) /\ wide \in Seq(Alert)
      /\ \A j \in DOMAIN deep : deep[j] = named("CRACK_DEPTH_EXCEEDED")
      /\ \A j \in DOMAIN wide : wide[j] = named("CRACK_WIDTH_EXCEEDED")
  BY <1>5
<1>7. /\ "CRACK_DEPTH_EXCEEDED" \in msg.cracks[k] => Len(deep) = 1
      /\ "CRACK_WIDTH_EXCEEDED" \in msg.cracks[k] => Len(wide) = 1
  OBVIOUS
<1> HIDE DEF deep, wide
<1>8. AlertsOf(k) \in Seq(Alert)
  BY <1>1, <1>6
<1>9. \A j \in DOMAIN AlertsOf(k) : \/ AlertsOf(k)[j] = named("CRACK_DEPTH_EXCEEDED")
                                   \/ AlertsOf(k)[j] = named("CRACK_WIDTH_EXCEEDED")
  BY <1>1, <1>6
<1>10. \A t : named(t).n = n /\ named(t).type = t /\ named(t).about = k
  BY DEF named
<1>11. "CRACK_DEPTH_EXCEEDED" \in msg.cracks[k] =>
         1 \in DOMAIN AlertsOf(k) /\ AlertsOf(k)[1] = named("CRACK_DEPTH_EXCEEDED")
  BY <1>1, <1>6, <1>7
<1>12. "CRACK_WIDTH_EXCEEDED" \in msg.cracks[k] =>
         /\ Len(deep) + 1 \in DOMAIN AlertsOf(k)
         /\ AlertsOf(k)[Len(deep) + 1] = named("CRACK_WIDTH_EXCEEDED")
  BY <1>1, <1>6, <1>7
<1>13. \A t \in msg.cracks[k] : t = "CRACK_DEPTH_EXCEEDED" \/ t = "CRACK_WIDTH_EXCEEDED"
  BY <1>2 DEF CrackAlert
<1> QED BY <1>8, <1>9, <1>10, <1>11, <1>12, <1>13

LEMMA CheckCrackInv == ASSUME IInv, CheckCrack PROVE IInv'
<1> USE DEF IInv
<1>1. /\ pc = "thresholds" /\ pc' = "alert" /\ place' = place /\ todo' = AlertsOf(place)
      /\ place <= Len(msg.cracks) /\ Decides
  BY DEF CheckCrack, Decides, InHand
<1>2. place \in 1..Len(msg.cracks) /\ msg.kind = "laser" /\ msg.detected
  BY <1>1, HandFacts, MessageFacts DEF TypeOK, PlaceInv, InHand
<1>3. /\ todo' \in Seq(Alert)
      /\ \A j \in DOMAIN todo' : todo'[j].n = n
      /\ \A t \in msg.cracks[place] :
             \E j \in DOMAIN todo' : todo'[j].type = t /\ todo'[j].about = place
  BY <1>1, <1>2, AlertsOfFacts DEF InHand
<1>4. TypeOK'
  BY <1>1, <1>3, DecidesTypeOK DEF TypeOK
<1>5. PlaceInv'
  BY <1>1, <1>2, <1>3, DecidesKeeps DEF PlaceInv, InHand
<1>6. StoredInv'
  BY <1>1, <1>2, DecidesKeeps DEF StoredInv, InHand
<1>7. RaisedInv'
  BY <1>1, <1>2, <1>3, DecidesKeeps DEF RaisedInv, RaisedOrPending, AllRaised
<1> QED BY <1>1, <1>4, <1>5, <1>6, <1>7, DecidesKeeps

LEMMA CrackCheckedInv == ASSUME IInv, CrackChecked, msg.kind = "laser" PROVE IInv'
<1> USE DEF IInv
<1>1. /\ pc = "alert" /\ pc' = "thresholds" /\ place' = place + 1 /\ todo' = todo /\ todo = <<>>
      /\ Decides
  BY DEF CrackChecked, Decides, InHand
<1>2. TypeOK'
  BY <1>1, DecidesTypeOK DEF TypeOK
<1>3. place \in Nat /\ place' >= 1 /\ msg.detected
  BY <1>1 DEF TypeOK, PlaceInv
<1>4. PlaceInv'
  BY <1>1, <1>3, DecidesKeeps DEF PlaceInv, InHand
<1>5. StoredInv'
  BY <1>1, <1>3, DecidesKeeps DEF StoredInv, InHand
<1>6. \A k \in 1..(place' - 1) : k \in 1..(place - 1) \/ k = place
  BY <1>1, <1>3
<1>7. AllRaised(place)
  BY <1>1, <1>3 DEF RaisedInv, RaisedOrPending, AllRaised
<1>8. \A k \in 1..(place' - 1) : AllRaised(k)
  BY <1>1, <1>3, <1>6, <1>7 DEF RaisedInv
<1>9. RaisedInv'
  BY <1>1, <1>8, DecidesKeeps DEF RaisedInv, AllRaised
<1> QED BY <1>1, <1>2, <1>4, <1>5, <1>9, DecidesKeeps

LEMMA AllCheckedInv == ASSUME IInv, AllChecked PROVE IInv'
<1> USE DEF IInv
<1>1. /\ pc = "thresholds" /\ pc' = "announce" /\ place' = place /\ todo' = todo
      /\ place > Len(msg.cracks) /\ Decides
  BY DEF AllChecked, Decides, InHand, local
<1>2. TypeOK'
  BY <1>1, DecidesTypeOK DEF TypeOK
<1>3. PlaceInv'
  BY <1>1, DecidesKeeps DEF PlaceInv, InHand
<1>4. StoredInv'
  BY <1>1, DecidesKeeps DEF StoredInv, InHand
<1>5. 1..Len(msg.cracks) \subseteq 1..(place - 1)
  BY <1>1, HandFacts, MessageFacts DEF TypeOK, InHand
<1>6. RaisedInv'
  BY <1>1, <1>5, DecidesKeeps DEF RaisedInv, AllRaised, PlaceInv
<1> QED BY <1>1, <1>2, <1>3, <1>4, <1>6, DecidesKeeps

LEMMA CheckOneInv ==
    ASSUME IInv,
           \/ msg.kind = "vibration" /\ CheckOne("VIBRATION_ANOMALY")
           \/ msg.kind = "prediction" /\ CheckOne("CRACK_PROPAGATION_RISK")
    PROVE  IInv'
<1> USE DEF IInv
<1>1. PICK type \in {"VIBRATION_ANOMALY", "CRACK_PROPAGATION_RISK"} :
        /\ CheckOne(type)
        /\ type = "VIBRATION_ANOMALY" => msg.kind = "vibration"
        /\ type = "CRACK_PROPAGATION_RISK" => msg.kind = "prediction"
  OBVIOUS
<1> DEFINE alert == [type |-> type, n |-> n, about |-> 0, crack |-> ids[0]]
<1>2. /\ pc = "check" /\ pc' = "alert" /\ place' = place /\ Decides
      /\ todo' = IF msg.alarm THEN <<alert>> ELSE <<>>
  BY <1>1 DEF CheckOne, Decides, InHand
<1>3. alert \in Alert
  <2>1. n \in 1..MaxMessages /\ Len(msg.cracks) \in Nat
    BY <1>2, HandFacts, MessageFacts DEF InHand
  <2>2. ids[0] \in Id
    BY <2>1, <1>2, IdFacts DEF InHand
  <2> QED BY <2>1, <2>2 DEF Alert
<1>4. /\ todo' \in Seq(Alert)
      /\ \A j \in DOMAIN todo' : todo'[j].n = n
      /\ msg.alarm => 1 \in DOMAIN todo' /\ todo'[1].type = type /\ todo'[1].about = 0
  BY <1>2, <1>3
<1>5. TypeOK'
  BY <1>2, <1>4, DecidesTypeOK DEF TypeOK
<1>6. msg.kind \in {"vibration", "prediction"}
  BY <1>1
<1>7. PlaceInv'
  BY <1>2, <1>4, <1>6, DecidesKeeps DEF PlaceInv, InHand
<1>8. StoredInv'
  BY <1>2, <1>6, DecidesKeeps DEF StoredInv, InHand
<1>9. RaisedInv'
  BY <1>1, <1>2, <1>4, <1>6, DecidesKeeps DEF RaisedInv, RaisedOrPending
<1> QED BY <1>2, <1>5, <1>7, <1>8, <1>9, DecidesKeeps

LEMMA CheckEndsInv == ASSUME IInv, CheckEnds, msg.kind # "laser" PROVE IInv'
<1> USE DEF IInv
<1>1. /\ pc = "alert" /\ pc' = "announce" /\ place' = place /\ todo' = todo /\ todo = <<>>
      /\ Decides
  BY DEF CheckEnds, Decides, InHand, local
<1>2. TypeOK'
  BY <1>1, DecidesTypeOK DEF TypeOK
<1>3. PlaceInv'
  BY <1>1, DecidesKeeps DEF PlaceInv, InHand
<1>4. StoredInv'
  BY <1>1, DecidesKeeps DEF StoredInv, InHand
<1>5. RaisedInv'
  BY <1>1, DecidesKeeps DEF RaisedInv, RaisedOrPending
<1> QED BY <1>1, <1>2, <1>3, <1>4, <1>5, DecidesKeeps

-----------------------------------------------------------------------------
(* The steps that store something, and the ends of a handler.              *)

\* What holds of any step that stores rows of the message in hand.
Stores ==
    /\ InHand /\ pc # "log" /\ pc' \notin {"wait", "log"}
    /\ Keeps /\ AddsOnlyHere
    /\ UNCHANGED <<msg, came, second, ids, free, announced, abandoned>>

LEMMA StoresKeeps ==
    ASSUME IInv, Stores
    PROVE  /\ n' = n /\ msg' = msg /\ msg = came[n] /\ came' = came /\ n \in 1..MaxMessages
           /\ WholeOrNothing' /\ TraceInv'
           /\ \A i : Measurement(i) => Measurement(i)'
           /\ \A i, k : StoredOrRefused(i, k) => StoredOrRefused(i, k)'
           /\ \A t, i, k : Raised(t, i, k) => Raised(t, i, k)'
<1>1. n' = n /\ msg \in Message /\ msg = came[n] /\ n \in 1..MaxMessages /\ n \notin abandoned
  BY HandFacts DEF Stores, IInv, n
<1>2. WholeOrNothing' /\ \A i \in abandoned : LeftNothing(i)'
  BY <1>1, VerdictKept DEF Stores, IInv
<1>3. TraceInv'
  BY <1>2 DEF TraceInv, Stores
<1>4. \A i : Measurement(i) => Measurement(i)'
  BY MeasurementKept DEF Stores
<1>5. \A i, k : StoredOrRefused(i, k) => StoredOrRefused(i, k)'
  BY StoredKept DEF Stores
<1>6. \A t, i, k : Raised(t, i, k) => Raised(t, i, k)'
  BY RaisedKept DEF Stores
<1> QED BY <1>1, <1>2, <1>3, <1>4, <1>5, <1>6 DEF Stores

LEMMA InsertMeasurementInv ==
    ASSUME IInv, InsertLaser \/ InsertVibration PROVE IInv'
<1> USE DEF IInv
<1>1. /\ pc = "measure" /\ msg.kind \in {"laser", "vibration"}
      /\ pc' \in {"crack", "check"}
      /\ pc' = "crack" => msg.kind = "laser" /\ msg.detected
      /\ msg.kind = "laser" /\ msg.detected => pc' = "crack"
      /\ UNCHANGED <<msg, came, second, ids, place, crackId, todo, free, cracks, points, alerts,
                     queued, announced, abandoned>>
  BY DEF InsertLaser, InsertVibration, InsertMeasurement, Detected, local
<1>2. \/ measured' = measured \union {n} /\ refused' = refused
      \/ refused' = refused \union {<<"measured", n, 0>>} /\ measured' = measured
  BY DEF InsertLaser, InsertVibration, InsertMeasurement
<1>3. Measurement(n)'
  BY <1>1, <1>2 DEF Measurement, n
<1>4. Stores
  BY <1>1, <1>2 DEF Stores, Keeps, AddsOnlyHere, InHand
<1>5. TypeOK'
  <2>1. n \in 1..MaxMessages /\ n' = n /\ n \in 1..n
    BY <1>4, StoresKeeps
  <2>2. measured' \subseteq 1..n
    BY <1>2, <2>1 DEF TypeOK
  <2> QED BY <1>1, <2>1, <2>2 DEF TypeOK
<1>6. PlaceInv'
  BY <1>1, <1>4, StoresKeeps DEF PlaceInv, InHand
<1>7. place = 1 /\ 1..(place' - 1) = {}
  BY <1>1 DEF PlaceInv
<1>8. StoredInv'
  BY <1>1, <1>3, <1>4, <1>7, StoresKeeps DEF StoredInv, InHand
<1>9. RaisedInv'
  BY <1>1 DEF RaisedInv
<1>10. PointsUnderTheirCrack'
  BY <1>1 DEF PointsUnderTheirCrack
<1> QED BY <1>4, <1>5, <1>6, <1>8, <1>9, <1>10, StoresKeeps

\* The row of a crack is added under a new id, or nothing is.
LEMMA InsertCrackInv == ASSUME IInv, InsertCrack PROVE IInv'
<1> USE DEF IInv
<1>1. /\ pc = "crack" /\ place <= Len(msg.cracks)
      /\ UNCHANGED <<msg, came, second, ids, todo, free, measured, points, alerts, queued,
                     announced, abandoned>>
  BY DEF InsertCrack
<1>2. CrackStored \/ CrackRefused
  BY DEF InsertCrack
<1>3. /\ msg.kind = "laser" /\ msg.detected /\ n \in 1..MaxMessages /\ n' = n /\ msg = came[n]
      /\ place \in 1..Len(msg.cracks) /\ Len(msg.cracks) \in Nat /\ place \in Nat /\ n \in 1..n
  BY <1>1, HandFacts, MessageFacts DEF TypeOK, PlaceInv, InHand, n
<1>4. CASE CrackStored
  <2>1. Cardinality(cracks) \in Nat
    BY FS_CardinalityType DEF TypeOK
  <2> DEFINE row == [id |-> Cardinality(cracks) + 1, code |-> Code, n |-> n, k |-> place]
  <2>2. /\ crackId' = row.id /\ cracks' = cracks \union {row} /\ pc' = "points"
        /\ place' = place /\ refused' = refused
    BY <1>4 DEF CrackStored
  <2>3. row.id \in Nat /\ row.n = n /\ row.k = place /\ row.id = Cardinality(cracks) + 1
    BY <2>1
  <2> HIDE DEF row
  <2>4. Stores
    BY <1>1, <2>2, <2>3 DEF Stores, Keeps, AddsOnlyHere, InHand
  <2>5. TypeOK'
    <3>1. IsFiniteSet(cracks')
      BY <2>2, FS_AddElement DEF TypeOK
    <3>2. \A c \in cracks' : c.id \in Nat /\ c.n \in 1..n /\ c.k \in 1..Len(came[c.n].cracks)
      BY <1>3, <2>2, <2>3 DEF TypeOK
    <3> QED BY <1>1, <1>3, <2>2, <2>3, <3>1, <3>2 DEF TypeOK
  <2>6. PlaceInv'
    BY <1>1, <1>3, <2>2 DEF PlaceInv, InHand
  <2>7. \E c \in cracks' : c.id = crackId' /\ c.n = n /\ c.k = place
    BY <2>2, <2>3
  <2>8. StoredInv'
    BY <1>1, <1>3, <2>2, <2>4, <2>7, StoresKeeps DEF StoredInv, InHand
  <2>9. RaisedInv'
    BY <2>2 DEF RaisedInv
  <2>10. PointsUnderTheirCrack'
    BY <1>1, <2>2 DEF PointsUnderTheirCrack
  <2> QED BY <2>4, <2>5, <2>6, <2>8, <2>9, <2>10, StoresKeeps
<1>5. CASE CrackRefused
  <2>1. /\ refused' = refused \union {<<"cracks", n, place>>}
        /\ place' = place + 1 /\ pc' = pc /\ crackId' = crackId /\ cracks' = cracks
    BY <1>5 DEF CrackRefused
  <2>2. Stores
    BY <1>1, <2>1 DEF Stores, Keeps, AddsOnlyHere, InHand
  <2>3. TypeOK'
    BY <1>1, <1>3, <2>1 DEF TypeOK
  <2>4. PlaceInv'
    BY <1>1, <1>3, <2>1 DEF PlaceInv, InHand
  <2>5. <<"cracks", n, place>> \in refused'
    BY <2>1
  <2>6. \A k \in 1..(place' - 1) : k \in 1..(place - 1) \/ k = place
    BY <1>3, <2>1
  <2>7. \A k \in 1..(place' - 1) : StoredOrRefused(n, k)'
    <3> SUFFICES ASSUME NEW k \in 1..(place' - 1) PROVE StoredOrRefused(n, k)'
      OBVIOUS
    <3>1. CASE k = place
      BY <3>1, <2>1, <2>5, <1>1, <1>3 DEF StoredOrRefused
    <3>2. CASE k \in 1..(place - 1)
      BY <3>2, <1>1, <2>2, StoresKeeps DEF StoredInv
    <3> QED BY <3>1, <3>2, <2>6
  <2>8. StoredInv'
    BY <1>1, <1>3, <2>1, <2>2, <2>7, StoresKeeps DEF StoredInv, InHand
  <2>9. RaisedInv'
    BY <1>1, <2>1 DEF RaisedInv
  <2>10. PointsUnderTheirCrack'
    BY <1>1, <2>1 DEF PointsUnderTheirCrack
  <2> QED BY <2>2, <2>3, <2>4, <2>8, <2>9, <2>10, StoresKeeps
<1> QED BY <1>2, <1>4, <1>5

\* The points go under the row that insert_crack has just made.
LEMMA InsertPointsInv == ASSUME IInv, InsertPoints PROVE IInv'
<1> USE DEF IInv
<1> DEFINE row == [crack |-> crackId, n |-> n, k |-> place]
<1>1. /\ pc = "points" /\ pc' = "crack" /\ place' = place + 1
      /\ UNCHANGED <<msg, came, second, ids, crackId, todo, free, measured, cracks, alerts, queued,
                     announced, abandoned>>
      /\ \/ points' = points \union {row} /\ refused' = refused
         \/ refused' = refused \union {<<"points", n, place>>} /\ points' = points
  BY DEF InsertPoints
<1>2. row.crack = crackId /\ row.n = n /\ row.k = place
  OBVIOUS
<1> HIDE DEF row
<1>3. /\ msg.kind = "laser" /\ msg.detected /\ n \in 1..MaxMessages /\ n' = n /\ msg = came[n]
      /\ place \in 1..Len(msg.cracks) /\ Len(msg.cracks) \in Nat /\ place \in Nat /\ n \in 1..n
  BY <1>1, HandFacts, MessageFacts DEF TypeOK, PlaceInv, InHand, n
<1>4. Stores
  BY <1>1, <1>2 DEF Stores, Keeps, AddsOnlyHere, InHand
<1>5. TypeOK'
  <2>1. \A p \in points' : p.n \in 1..n /\ p.k \in 1..Len(came[p.n].cracks)
    BY <1>1, <1>2, <1>3 DEF TypeOK
  <2> QED BY <1>1, <1>3, <2>1 DEF TypeOK
<1>6. PlaceInv'
  BY <1>1, <1>3 DEF PlaceInv, InHand
<1>7. \E c \in cracks : c.id = crackId /\ c.n = n /\ c.k = place
  BY <1>1 DEF StoredInv
<1>8. PointsUnderTheirCrack'
  BY <1>1, <1>2, <1>7 DEF PointsUnderTheirCrack
<1>9. (\E p \in points' : p.n = n /\ p.k = place) \/ <<"points", n, place>> \in refused'
  BY <1>1, <1>2
<1>10. \A k \in 1..(place' - 1) : StoredOrRefused(n, k)'
  <2> SUFFICES ASSUME NEW k \in 1..(place' - 1) PROVE StoredOrRefused(n, k)'
    OBVIOUS
  <2>1. k \in 1..(place - 1) \/ k = place
    BY <1>1, <1>3
  <2>2. CASE k = place
    BY <2>2, <1>1, <1>3, <1>7, <1>9 DEF StoredOrRefused
  <2>3. CASE k \in 1..(place - 1)
    BY <2>3, <1>1, <1>4, StoresKeeps DEF StoredInv
  <2> QED BY <2>1, <2>2, <2>3
<1>11. StoredInv'
  BY <1>1, <1>3, <1>4, <1>10, StoresKeeps DEF StoredInv, InHand
<1>12. RaisedInv'
  BY <1>1 DEF RaisedInv
<1> QED BY <1>4, <1>5, <1>6, <1>8, <1>11, <1>12, StoresKeeps

\* insert_alert: the alert is stored and queued, or refused.
LEMMA CheckNextInv == ASSUME IInv, CheckNext PROVE IInv'
<1> USE DEF IInv
<1> DEFINE a == Head(todo)
<1>1. /\ pc = "alert" /\ pc' = pc /\ todo # <<>> /\ todo' = Tail(todo)
      /\ UNCHANGED <<msg, came, second, ids, place, crackId, free, measured, cracks, points,
                     announced, abandoned>>
      /\ InsertAlert(a) \/ AlertRefused(a)
  BY DEF CheckNext
<1>2. /\ todo \in Seq(Alert) /\ Len(todo) \in Nat /\ Len(todo) > 0 /\ 1 \in DOMAIN todo
      /\ a = todo[1] /\ a \in Alert /\ todo' \in Seq(Alert)
      /\ \A j \in DOMAIN todo' : j + 1 \in DOMAIN todo /\ todo'[j] = todo[j + 1]
      /\ \A j \in DOMAIN todo : j = 1 \/ (j - 1 \in DOMAIN todo' /\ todo'[j - 1] = todo[j])
  <2>1. todo \in Seq(Alert)
    BY DEF TypeOK
  <2>2. /\ Len(todo) \in Nat /\ Len(todo) > 0 /\ DOMAIN todo = 1..Len(todo)
        /\ todo' \in Seq(Alert) /\ DOMAIN todo' = 1..(Len(todo) - 1) /\ a = todo[1]
    BY <1>1, <2>1
  <2>3. \A j \in 1..(Len(todo) - 1) : todo'[j] = todo[j + 1]
    BY <1>1, <2>1
  <2>4. ASSUME NEW j \in DOMAIN todo, j # 1
        PROVE  j - 1 \in DOMAIN todo' /\ todo'[j - 1] = todo[j]
    BY <2>2, <2>3, <2>4
  <2>5. \A j \in DOMAIN todo' : j + 1 \in DOMAIN todo
    BY <2>2
  <2>6. 1 \in DOMAIN todo
    BY <2>2
  <2>7. a \in Alert
    BY <2>1, <2>2, <2>6, ElementOf
  <2> HIDE DEF a
  <2> QED BY <2>1, <2>2, <2>3, <2>4, <2>5, <2>6, <2>7
<1>3. a.n = n /\ InHand
  BY <1>1, <1>2 DEF PlaceInv, InHand
<1> HIDE DEF a
<1>4. /\ \/ /\ alerts' = alerts \union {a} /\ queued' = Append(queued, a) /\ refused' = refused
         \/ /\ refused' = refused \union {<<a.type, n, a.about>>}
            /\ alerts' = alerts /\ queued' = queued
  BY <1>1 DEF InsertAlert, AlertRefused
<1>5. /\ queued \in Seq(Alert) /\ queued' \in Seq(Alert)
      /\ \A j \in DOMAIN queued : j \in DOMAIN queued' /\ queued'[j] = queued[j]
      /\ queued' = Append(queued, a) =>
             Len(queued) + 1 \in DOMAIN queued' /\ queued'[Len(queued) + 1] = a
  <2>1. queued \in Seq(Alert)
    BY DEF TypeOK
  <2>2. CASE queued' = queued
    BY <2>1, <2>2, <1>2
  <2>3. CASE queued' = Append(queued, a)
    <3> DEFINE q == Append(queued, a)
    <3>1. /\ q \in Seq(Alert) /\ Len(queued) + 1 \in DOMAIN q /\ q[Len(queued) + 1] = a
          /\ \A j \in DOMAIN queued : j \in DOMAIN q /\ q[j] = queued[j]
      BY <2>1, <1>2
    <3> HIDE DEF q
    <3> QED BY <3>1, <2>1, <2>3 DEF q
  <2> QED BY <1>4, <2>2, <2>3
<1>6. Stores
  BY <1>1, <1>3, <1>4, <1>5 DEF Stores, Keeps, AddsOnlyHere
<1>7. n \in 1..MaxMessages /\ n' = n /\ msg' = msg /\ came' = came
  BY <1>6, StoresKeeps
<1>8. TypeOK'
  BY <1>1, <1>2, <1>4, <1>5, <1>7 DEF TypeOK
<1>9. PlaceInv'
  <2>1. \A b \in alerts' : b.n <= n
    BY <1>3, <1>4, <1>7 DEF PlaceInv
  <2>2. \A j \in DOMAIN todo' : todo'[j].n = n
    BY <1>1, <1>2 DEF PlaceInv
  <2> QED BY <1>1, <1>7, <2>1, <2>2 DEF PlaceInv, InHand
<1>10. StoredInv'
  BY <1>1, <1>6, <1>7, StoresKeeps DEF StoredInv, InHand
<1>11. ASSUME NEW t, NEW k, RaisedOrPending(t, k) PROVE RaisedOrPending(t, k)'
  <2>1. CASE Raised(t, n, k)
    BY <2>1, <1>6, <1>7, StoresKeeps DEF RaisedOrPending
  <2>2. CASE \E j \in DOMAIN todo : todo[j].type = t /\ todo[j].about = k
    <3>1. PICK j \in DOMAIN todo : todo[j].type = t /\ todo[j].about = k
      BY <2>2
    <3>2. CASE j = 1
      <4>1. a.type = t /\ a.about = k
        BY <1>2, <3>1, <3>2
      <4> QED BY <4>1, <1>7, <1>4, <1>5, <1>3 DEF RaisedOrPending, Raised
    <3>3. CASE j # 1
      BY <1>2, <3>1, <3>3 DEF RaisedOrPending
    <3> QED BY <3>2, <3>3
  <2> QED BY <1>11, <2>1, <2>2 DEF RaisedOrPending
<1>12. \A k \in 1..(place - 1) : AllRaised(k) => AllRaised(k)'
  BY <1>6, <1>7, StoresKeeps DEF AllRaised
<1>13. RaisedInv'
  BY <1>1, <1>7, <1>11, <1>12 DEF RaisedInv
<1>14. PointsUnderTheirCrack'
  BY <1>1 DEF PointsUnderTheirCrack
<1> QED BY <1>6, <1>8, <1>9, <1>10, <1>13, <1>14, StoresKeeps

\* dump() threw before anything was stored.
LEMMA LogThrowsInv == ASSUME IInv, LogThrows PROVE IInv'
<1> USE DEF IInv
<1>1. /\ pc = "log" /\ pc' = "wait" /\ free > 0 /\ free' = free - 1
      /\ abandoned' = abandoned \union {n}
      /\ msg' = NoMessage /\ ids' = [k \in {0} |-> 0] /\ place' = 1 /\ crackId' = 0
      /\ UNCHANGED <<came, todo, second, measured, cracks, points, alerts, queued, refused,
                     announced>>
  BY DEF LogThrows, Return, Connected, rows
<1>2. n' = n /\ n \in 1..n
  BY <1>1, HandFacts DEF InHand, n
<1>3. LeftNothing(n)
  BY <1>1 DEF TraceInv
<1>4. \A i : LeftNothing(i)' <=> LeftNothing(i)
  BY <1>1 DEF LeftNothing
<1>5. ids' \in [0..Len(msg'.cracks) -> Id]
  <2>1. Len(msg'.cracks) = 0
    BY <1>1 DEF NoMessage
  <2>2. 0..0 = {0} /\ 0 \in Id
    BY BoundsAssumption DEF Id
  <2> QED BY <1>1, <2>1, <2>2
<1>6. TypeOK'
  <2>1. free' \in 0..PoolSize
    BY <1>1, BoundsAssumption DEF TypeOK
  <2>2. abandoned' \subseteq 1..n
    BY <1>1, <1>2 DEF TypeOK
  <2> QED BY <1>1, <1>2, <1>5, <2>1, <2>2 DEF TypeOK
<1>7. PlaceInv'
  BY <1>1, <1>2 DEF PlaceInv, InHand
<1>8. TraceInv'
  BY <1>1, <1>3, <1>4 DEF TraceInv
<1>9. StoredInv' /\ RaisedInv'
  BY <1>1 DEF StoredInv, RaisedInv, InHand, NoMessage
<1>10. PointsUnderTheirCrack'
  BY <1>1 DEF PointsUnderTheirCrack
<1>11. \A i : Handled(i)' <=> Handled(i)
  BY <1>1 DEF Handled, Measurement, StoredOrRefused, Raised
<1>12. WholeOrNothing'
  BY <1>1, <1>3, <1>4, <1>11 DEF WholeOrNothing
<1> QED BY <1>6, <1>7, <1>8, <1>9, <1>10, <1>12

\* Before the browsers are told, everything the message calls for is done.
LEMMA HandledInHand ==
    ASSUME IInv, pc = "announce" PROVE Handled(n)
<1>1. msg = came[n]
  BY HandFacts DEF IInv, InHand
<1>2. msg.kind \in {"laser", "vibration"} => Measurement(n)
  BY DEF IInv, StoredInv, InHand
<1>3. msg.kind = "vibration" /\ msg.alarm => Raised("VIBRATION_ANOMALY", n, 0)
  BY DEF IInv, RaisedInv
<1>4. msg.kind = "prediction" /\ msg.alarm => Raised("CRACK_PROPAGATION_RISK", n, 0)
  BY DEF IInv, RaisedInv
<1>5. msg.kind = "laser" /\ msg.detected =>
        \A k \in 1..Len(msg.cracks) :
            StoredOrRefused(n, k) /\ \A t \in msg.cracks[k] : Raised(t, n, k)
  BY DEF IInv, StoredInv, RaisedInv, AllRaised
<1> QED BY <1>1, <1>2, <1>3, <1>4, <1>5 DEF Handled

LEMMA AnnounceInv == ASSUME IInv, Announce PROVE IInv'
<1> USE DEF IInv
<1>1. /\ pc = "announce" /\ pc' = "wait" /\ announced' = Append(announced, n)
      /\ msg' = NoMessage /\ ids' = [k \in {0} |-> 0] /\ place' = 1 /\ crackId' = 0
      /\ UNCHANGED <<came, todo, second, free, measured, cracks, points, alerts, queued, refused,
                     abandoned>>
  BY DEF Announce, Return, rows
<1>2. n' = n /\ n \in 1..n /\ n \notin abandoned
  BY <1>1, HandFacts DEF InHand, n
<1>3. /\ announced' \in Seq(1..n)
      /\ \A j \in DOMAIN announced' :
             announced'[j] = n \/ (j \in DOMAIN announced /\ announced'[j] = announced[j])
  <2>1. announced \in Seq(1..n)
    BY DEF TypeOK
  <2> QED BY <1>1, <1>2, <2>1
<1>4. ids' \in [0..Len(msg'.cracks) -> Id]
  <2>1. Len(msg'.cracks) = 0
    BY <1>1 DEF NoMessage
  <2>2. 0..0 = {0} /\ 0 \in Id
    BY BoundsAssumption DEF Id
  <2> QED BY <1>1, <2>1, <2>2
<1>5. TypeOK'
  BY <1>1, <1>2, <1>3, <1>4 DEF TypeOK
<1>6. PlaceInv'
  BY <1>1, <1>2 DEF PlaceInv, InHand
<1>7. \A i \in abandoned : LeftNothing(i)'
  <2> SUFFICES ASSUME NEW i \in abandoned PROVE LeftNothing(i)'
    OBVIOUS
  <2>1. LeftNothing(i) /\ i # n
    BY <1>2 DEF TraceInv
  <2> QED BY <1>1, <1>3, <2>1 DEF LeftNothing
<1>8. TraceInv'
  BY <1>1, <1>7 DEF TraceInv
<1>9. StoredInv' /\ RaisedInv'
  BY <1>1 DEF StoredInv, RaisedInv, InHand, NoMessage
<1>10. PointsUnderTheirCrack'
  BY <1>1 DEF PointsUnderTheirCrack
<1>11. \A i : Handled(i)' <=> Handled(i)
  BY <1>1 DEF Handled, Measurement, StoredOrRefused, Raised
<1>12. \A j \in DOMAIN announced' : Handled(announced'[j])
  BY <1>1, <1>3, HandledInHand DEF WholeOrNothing
<1>13. WholeOrNothing'
  BY <1>1, <1>7, <1>11, <1>12 DEF WholeOrNothing
<1> QED BY <1>5, <1>6, <1>8, <1>9, <1>10, <1>13

-----------------------------------------------------------------------------
(* The theorems.                                                           *)

LEMMA HandleInv == ASSUME IInv, Handle PROVE IInv'
<1>1. CASE msg.kind = "laser" /\ HandleLaser
  BY <1>1, LogPacketInv, LogThrowsInv, InsertMeasurementInv, InsertCrackInv, InsertPointsInv,
     CracksDoneInv, CheckLaserInv, CheckCrackInv, CheckNextInv, CrackCheckedInv, AllCheckedInv,
     AnnounceInv DEF HandleLaser
<1>2. CASE msg.kind = "vibration" /\ HandleVibration
  BY <1>2, LogPacketInv, LogThrowsInv, InsertMeasurementInv, CheckOneInv, CheckNextInv,
     CheckEndsInv, AnnounceInv DEF HandleVibration, CheckVibration
<1>3. CASE msg.kind = "prediction" /\ HandlePrediction
  BY <1>3, CheckOneInv, CheckNextInv, CheckEndsInv, AnnounceInv DEF HandlePrediction, CheckPrediction
<1>4. CASE msg.kind = "dem" /\ HandleDem
  BY <1>4, AnnounceInv DEF HandleDem
<1> QED BY <1>1, <1>2, <1>3, <1>4 DEF Handle

LEMMA StutterInv == ASSUME IInv, UNCHANGED vars PROVE IInv'
<1> USE DEF IInv
<1>1. /\ UNCHANGED <<pc, msg, came, ids, place, crackId, todo, second, free, measured, cracks,
                     points, alerts, queued, refused, announced, abandoned, n>>
      /\ UNCHANGED <<came, rows, queued, refused, announced, abandoned>>
  BY DEF vars, local, rows, n
<1>2. TypeOK'
  BY <1>1 DEF TypeOK
<1>3. PlaceInv'
  BY <1>1 DEF PlaceInv, InHand
<1>4. TraceInv'
  BY <1>1, ControlKept DEF TraceInv
<1>5. StoredInv'
  BY <1>1, ControlKept DEF StoredInv, InHand
<1>6. RaisedInv'
  BY <1>1, ControlKept DEF RaisedInv, RaisedOrPending, AllRaised
<1> QED BY <1>1, <1>2, <1>3, <1>4, <1>5, <1>6, ControlKept

\* What has been done for the message in hand, at each place of its handler,
\* for all messages, sizes of the pool, ids that were never set, and refusals.
THEOREM Invariance == Spec => []IInv
<1>1. Init => IInv
  BY InitInv
<1>2. IInv /\ [Next]_vars => IInv'
  BY TakeInv, TickInv, HandleInv, StutterInv DEF Next
<1> QED BY <1>1, <1>2, PTL DEF Spec

\* The state of alert_ws_module.h's thread and the rows of the database keep
\* their types; rows of cracks and points are of cracks of messages taken.
THEOREM TypeCorrect == Spec => []TypeOK
<1>1. IInv => TypeOK
  BY DEF IInv
<1> QED BY <1>1, Invariance, PTL

\* handle_laser stores the points of a crack under the id insert_crack gave
\* that very crack, whatever CrackInfo::id holds and whatever was refused.
THEOREM PointsStayWithCrack == Spec => []PointsUnderTheirCrack
<1>1. IInv => PointsUnderTheirCrack
  BY DEF IInv
<1> QED BY <1>1, Invariance, PTL

\* A handler that comes to its broadcast has done all its message calls for,
\* and one that dump() ended has left no trace.
THEOREM HandledWholly == Spec => []WholeOrNothing
<1>1. IInv => WholeOrNothing
  BY DEF IInv
<1> QED BY <1>1, Invariance, PTL

-----------------------------------------------------------------------------
(* The journal: what a message calls for is tried once.                    *)

LEMMA OwedIs ==
    ASSUME NEW m \in Message, NEW x
    PROVE  x \in Owed(m) <=>
           \/ m.kind \in {"laser", "vibration"} /\ x = <<"measured", 0>>
           \/ m.kind = "vibration" /\ m.alarm /\ x = <<"VIBRATION_ANOMALY", 0>>
           \/ m.kind = "prediction" /\ m.alarm /\ x = <<"CRACK_PROPAGATION_RISK", 0>>
           \/ m.kind = "laser" /\ m.detected /\ \E k \in 1..Len(m.cracks) :
                x = <<"cracks", k>> \/ x = <<"points", k>> \/ \E t \in m.cracks[k] : x = <<t, k>>
BY DEF Owed

LEMMA TwoInARow ==
    ASSUME NEW S, NEW s \in Seq(S), NEW t \in Seq(S), Len(s) = 1, Len(t) = 1
    PROVE  DOMAIN (s \o t) = 1..2 /\ (s \o t)[1] = s[1] /\ (s \o t)[2] = t[1]
<1>1. Len(s \o t) = 2 /\ s \o t \in Seq(S)
  OBVIOUS
<1>2. DOMAIN (s \o t) = 1..2
  BY <1>1
<1>3. (s \o t)[1] = s[1]
  OBVIOUS
<1>4. (s \o t)[2] = t[1]
  <2>1. \A i \in 1..2 : i > Len(s) => (s \o t)[i] = t[i - Len(s)]
    BY <1>1
  <2>2. 2 \in 1..2 /\ 2 > Len(s) /\ 2 - Len(s) = 1
    OBVIOUS
  <2> QED BY <2>1, <2>2
<1> QED BY <1>2, <1>3, <1>4

\* The alerts of a crack are for different thresholds, which it exceeds.
LEMMA AlertsOfOnce ==
    ASSUME NEW k
    PROVE  \A j \in DOMAIN AlertsOf(k) :
             /\ AlertsOf(k)[j].about = k /\ AlertsOf(k)[j].type \in msg.cracks[k]
             /\ \A l \in DOMAIN AlertsOf(k) : AlertsOf(k)[l].type = AlertsOf(k)[j].type => l = j
<1> DEFINE named(t) == [type |-> t, n |-> n, about |-> k, crack |-> ids[k]]
<1> DEFINE exceeded(t) == IF t \in msg.cracks[k] THEN <<named(t)>> ELSE <<>>
<1> DEFINE deep == "CRACK_DEPTH_EXCEEDED"
<1> DEFINE wide == "CRACK_WIDTH_EXCEEDED"
<1>1. AlertsOf(k) = exceeded(deep) \o exceeded(wide)
  BY DEF AlertsOf
<1>2. \A t : named(t).about = k /\ named(t).type = t
  OBVIOUS
<1> HIDE DEF named
<1>3. CASE deep \in msg.cracks[k] /\ wide \in msg.cracks[k]
  <2>1. AlertsOf(k) = <<named(deep)>> \o <<named(wide)>>
    BY <1>1, <1>3
  <2>2. /\ DOMAIN AlertsOf(k) = 1..2
        /\ AlertsOf(k)[1] = named(deep) /\ AlertsOf(k)[2] = named(wide)
    <3>1. /\ <<named(deep)>> \in Seq({named(deep), named(wide)})
          /\ <<named(wide)>> \in Seq({named(deep), named(wide)})
      OBVIOUS
    <3>2. /\ Len(<<named(deep)>>) = 1 /\ <<named(deep)>>[1] = named(deep)
          /\ Len(<<named(wide)>>) = 1 /\ <<named(wide)>>[1] = named(wide)
      OBVIOUS
    <3> QED BY <2>1, <3>1, <3>2, TwoInARow
  <2>3. \A j \in 1..2 : j = 1 \/ j = 2
    OBVIOUS
  <2> QED BY <1>2, <1>3, <2>2, <2>3
<1>4. CASE deep \in msg.cracks[k] /\ wide \notin msg.cracks[k]
  <2>1. AlertsOf(k) = <<named(deep)>>
    BY <1>1, <1>4
  <2> QED BY <1>2, <1>4, <2>1
<1>5. CASE deep \notin msg.cracks[k] /\ wide \in msg.cracks[k]
  <2>1. AlertsOf(k) = <<named(wide)>>
    BY <1>1, <1>5
  <2> QED BY <1>2, <1>5, <2>1
<1>6. CASE deep \notin msg.cracks[k] /\ wide \notin msg.cracks[k]
  <2>1. AlertsOf(k) = <<>>
    BY <1>1, <1>6
  <2> QED BY <2>1
<1> QED BY <1>3, <1>4, <1>5, <1>6

\* Something is tried for the message in hand: it is stored or refused, and what
\* was stored and refused otherwise stays.
Tries(y) ==
    \/ /\ \A i : Stored(i)' = IF i = n THEN Stored(i) \union {y} ELSE Stored(i)
       /\ \A i : Refused(i)' = Refused(i)
    \/ /\ \A i : Stored(i)' = Stored(i)
       /\ \A i : Refused(i)' = IF i = n THEN Refused(i) \union {y} ELSE Refused(i)

LEMMA RefusedGains ==
    ASSUME NEW what, NEW k, refused' = refused \union {<<what, n, k>>}
    PROVE  \A i : Refused(i)' = IF i = n THEN Refused(i) \union {<<what, k>>} ELSE Refused(i)
<1> SUFFICES ASSUME NEW i, NEW x
             PROVE  x \in Refused(i)' <=> x \in Refused(i) \/ (i = n /\ x = <<what, k>>)
  OBVIOUS
<1> DEFINE new == <<what, n, k>>
<1>1. new[1] = what /\ new[2] = n /\ new[3] = k
  OBVIOUS
<1>2. x \in Refused(i) <=> \E r \in refused : r[2] = i /\ x = <<r[1], r[3]>>
  BY DEF Refused
<1>3. x \in Refused(i)' <=> \E r \in refused' : r[2] = i /\ x = <<r[1], r[3]>>
  BY DEF Refused
<1>4. refused' = refused \union {new}
  OBVIOUS
<1> HIDE DEF new
<1> QED BY <1>1, <1>2, <1>3, <1>4

LEMMA MeasuredGains ==
    ASSUME measured' = measured \union {n}, UNCHANGED <<cracks, points, alerts>>
    PROVE  \A i : Stored(i)' = IF i = n THEN Stored(i) \union {<<"measured", 0>>} ELSE Stored(i)
BY DEF Stored

LEMMA CracksGain ==
    ASSUME NEW c, c.n = n, cracks' = cracks \union {c}, UNCHANGED <<measured, points, alerts>>
    PROVE  \A i : Stored(i)' = IF i = n THEN Stored(i) \union {<<"cracks", c.k>>} ELSE Stored(i)
BY DEF Stored

LEMMA PointsGain ==
    ASSUME NEW c, c.n = n, points' = points \union {c}, UNCHANGED <<measured, cracks, alerts>>
    PROVE  \A i : Stored(i)' = IF i = n THEN Stored(i) \union {<<"points", c.k>>} ELSE Stored(i)
BY DEF Stored

LEMMA AlertsGain ==
    ASSUME NEW c, c.n = n, alerts' = alerts \union {c}, UNCHANGED <<measured, cracks, points>>
    PROVE  \A i : Stored(i)' = IF i = n THEN Stored(i) \union {<<c.type, c.about>>} ELSE Stored(i)
BY DEF Stored

LEMMA SameRows ==
    ASSUME UNCHANGED <<measured, cracks, points, alerts>>
    PROVE  \A i : Stored(i)' = Stored(i)
BY DEF Stored

LEMMA SameRefusals == ASSUME refused' = refused PROVE \A i : Refused(i)' = Refused(i)
BY DEF Refused

-----------------------------------------------------------------------------
(* Steps that try nothing, and steps that try one thing.                   *)

LEMMA TryNothing ==
    ASSUME OnceInv, InHand, InHand', UNCHANGED <<came, msg, rows, refused>>,
           \A x \in Owed(msg) : Tried(x)' <=> Tried(x)
    PROVE  OnceInv'
<1>1. n' = n /\ msg' = msg /\ refused' = refused
  BY DEF n
<1>2. Stored(n)' = Stored(n) /\ Refused(n)' = Refused(n)
  BY <1>1, SameRows, SameRefusals DEF rows
<1>3. \A x : x \in Owed(msg)' <=> x \in Owed(msg)
  BY <1>1
<1>4. {x \in Owed(msg) : Tried(x)}' = {x \in Owed(msg) : Tried(x)}
  BY <1>3
<1> QED BY <1>1, <1>2, <1>4 DEF OnceInv

LEMMA TryOne ==
    ASSUME OnceInv, InHand, InHand', UNCHANGED <<came, msg>>,
           NEW y, y \in Owed(msg), ~Tried(y), Tries(y),
           \A x \in Owed(msg) : Tried(x)' <=> Tried(x) \/ x = y,
           \A r \in refused' : r[2] \in 1..n
    PROVE  OnceInv'
<1>1. n' = n /\ msg' = msg
  BY DEF n
<1>2. \/ Stored(n)' = Stored(n) \union {y} /\ Refused(n)' = Refused(n)
      \/ Stored(n)' = Stored(n) /\ Refused(n)' = Refused(n) \union {y}
  BY <1>1 DEF Tries
<1>3. /\ Stored(n) \intersect Refused(n) = {}
      /\ Stored(n) \union Refused(n) = {x \in Owed(msg) : Tried(x)}
  BY DEF OnceInv
<1>4. y \notin Stored(n) /\ y \notin Refused(n)
  BY <1>3
<1>5. {x \in Owed(msg) : Tried(x)}' = {x \in Owed(msg) : Tried(x)} \union {y}
  <2>1. \A x : x \in Owed(msg)' <=> x \in Owed(msg)
    BY <1>1
  <2> QED BY <2>1
<1>6. (Stored(n) \intersect Refused(n))' = {}
  BY <1>2, <1>3, <1>4
<1>7. (Stored(n) \union Refused(n))' = {x \in Owed(msg) : Tried(x)}'
  BY <1>2, <1>3, <1>5
<1> QED BY <1>1, <1>6, <1>7 DEF OnceInv

\* What is owed, by the kind of the message in hand.
LEMMA OwedShape ==
    ASSUME TypeOK, PlaceInv, InHand, NEW x \in Owed(msg)
    PROVE  /\ x = <<x[1], x[2]>>
           /\ x[1] = "measured" => msg.kind \in {"laser", "vibration"} /\ x[2] = 0
           /\ x[1] \in {"cracks", "points"} =>
                msg.kind = "laser" /\ msg.detected /\ x[2] \in 1..Len(msg.cracks)
           /\ x[1] \notin Table =>
                \/ msg.kind = "vibration" /\ msg.alarm /\ x = <<"VIBRATION_ANOMALY", 0>>
                \/ msg.kind = "prediction" /\ msg.alarm /\ x = <<"CRACK_PROPAGATION_RISK", 0>>
                \/ /\ msg.kind = "laser" /\ msg.detected /\ x[2] \in 1..Len(msg.cracks)
                   /\ x[1] \in msg.cracks[x[2]]
           /\ x[2] \in Nat
<1>1. msg \in Message /\ Len(msg.cracks) \in Nat
      /\ \A k \in 1..Len(msg.cracks) : msg.cracks[k] \subseteq CrackAlert
  BY HandFacts, MessageFacts
<1>2. CASE x = <<"measured", 0>> /\ msg.kind \in {"laser", "vibration"}
  BY <1>2 DEF Table
<1>3. CASE x = <<"VIBRATION_ANOMALY", 0>> /\ msg.kind = "vibration" /\ msg.alarm
  BY <1>3 DEF Table
<1>4. CASE x = <<"CRACK_PROPAGATION_RISK", 0>> /\ msg.kind = "prediction" /\ msg.alarm
  BY <1>4 DEF Table
<1>5. ASSUME msg.kind = "laser", msg.detected, NEW k \in 1..Len(msg.cracks),
             x = <<"cracks", k>> \/ x = <<"points", k>>
      PROVE  x = <<x[1], x[2]>> /\ x[1] \in {"cracks", "points"} /\ x[2] = k
  BY <1>5
<1>6. ASSUME msg.kind = "laser", msg.detected, NEW k \in 1..Len(msg.cracks),
             NEW t \in msg.cracks[k], x = <<t, k>>
      PROVE  x = <<x[1], x[2]>> /\ x[1] = t /\ x[2] = k /\ x[1] \notin Table
             /\ x[1] \in msg.cracks[x[2]]
  BY <1>1, <1>6 DEF Table, CrackAlert
<1> QED BY <1>1, <1>2, <1>3, <1>4, <1>5, <1>6, OwedIs DEF Table

LEMMA PlaceIsNat == ASSUME TypeOK PROVE place \in Nat
BY DEF TypeOK

LEMMA SameStored ==
    ASSUME UNCHANGED <<came, rows>> PROVE n' = n /\ Stored(n)' = Stored(n)
BY SameRows DEF rows, n

LEMMA LogPacketOnce == ASSUME IInv, JournalInv, LogPacket PROVE JournalInv'
<1>1. pc = "log" /\ pc' = "measure" /\ UNCHANGED <<came, msg, rows, refused>>
  BY DEF LogPacket, local
<1>2. \A x \in Owed(msg) : Tried(x)' <=> Tried(x)
  BY <1>1 DEF Tried
<1>3. OnceInv'
  BY <1>1, <1>2, TryNothing DEF JournalInv, InHand
<1>4. TodoInv'
  BY <1>1 DEF TodoInv
<1> QED BY <1>3, <1>4 DEF JournalInv

LEMMA CracksDoneOnce == ASSUME IInv, JournalInv, CracksDone PROVE JournalInv'
<1>1. /\ pc = "crack" /\ pc' = "check" /\ place > Len(msg.cracks)
      /\ UNCHANGED <<came, msg, rows, refused>>
  BY DEF CracksDone, local
<1>2. ASSUME NEW x \in Owed(msg) PROVE Tried(x)' <=> Tried(x)
  <2>1. x[1] \in {"cracks", "points"} => x[2] < place
    <3>1. x[1] \in {"cracks", "points"} => x[2] \in 1..Len(msg.cracks)
      BY <1>1, OwedShape DEF IInv, InHand
    <3>2. Len(msg.cracks) \in Nat /\ place \in Nat
      BY <1>1, HandFacts, MessageFacts DEF IInv, TypeOK, InHand
    <3> QED BY <1>1, <3>1, <3>2
  <2> QED BY <1>1, <2>1, SameStored DEF Tried
<1>3. OnceInv'
  BY <1>1, <1>2, TryNothing DEF JournalInv, InHand
<1>4. TodoInv'
  BY <1>1 DEF TodoInv
<1> QED BY <1>3, <1>4 DEF JournalInv

LEMMA CheckLaserOnce == ASSUME IInv, JournalInv, CheckLaser PROVE JournalInv'
<1>1. /\ pc = "check" /\ msg.kind = "laser" /\ place' = 1
      /\ pc' = IF msg.detected THEN "thresholds" ELSE "announce"
      /\ UNCHANGED <<came, msg, rows, refused>>
  BY DEF CheckLaser
<1>2. ASSUME NEW x \in Owed(msg) PROVE Tried(x)' <=> Tried(x)
  <2>1. x[1] \notin Table => msg.detected /\ ~(x[2] < place')
    BY <1>1, OwedShape DEF IInv, InHand
  <2> QED BY <1>1, <2>1, SameStored DEF Tried
<1>3. OnceInv'
  BY <1>1, <1>2, TryNothing DEF JournalInv, InHand
<1>4. TodoInv'
  BY <1>1 DEF TodoInv
<1> QED BY <1>3, <1>4 DEF JournalInv

LEMMA CheckCrackOnce == ASSUME IInv, JournalInv, CheckCrack PROVE JournalInv'
<1>1. /\ pc = "thresholds" /\ pc' = "alert" /\ place' = place /\ todo' = AlertsOf(place)
      /\ place <= Len(msg.cracks) /\ UNCHANGED <<came, msg, rows, refused>>
  BY DEF CheckCrack
<1>2. /\ place \in 1..Len(msg.cracks) /\ msg.kind = "laser" /\ msg.detected /\ InHand
      /\ place \in Nat
  BY <1>1, HandFacts, MessageFacts DEF IInv, TypeOK, PlaceInv, InHand
<1>3. /\ \A j \in DOMAIN todo' :
           /\ todo'[j].about = place /\ todo'[j].type \in msg.cracks[place]
           /\ \A l \in DOMAIN todo' : todo'[l].type = todo'[j].type => l = j
      /\ \A t \in msg.cracks[place] :
           \E j \in DOMAIN todo' : todo'[j].type = t /\ todo'[j].about = place
  BY <1>1, <1>2, AlertsOfOnce, AlertsOfFacts DEF IInv
<1>4. ASSUME NEW x \in Owed(msg) PROVE Tried(x)' <=> Tried(x)
  <2>1. /\ x = <<x[1], x[2]>> /\ x[2] \in Nat
        /\ x[1] \notin Table => x[1] \in msg.cracks[x[2]]
    BY <1>2, OwedShape DEF IInv
  <2>2. CASE x[1] \notin Table
    <3>1. CASE x[2] < place
      <4>1. \A j \in DOMAIN todo' : x # <<todo'[j].type, todo'[j].about>>
        BY <1>2, <1>3, <2>1, <3>1
      <4> QED BY <1>1, <1>2, <2>1, <2>2, <3>1, <4>1 DEF Tried, Table
    <3>2. CASE x[2] = place
      <4>1. \E j \in DOMAIN todo' : x = <<todo'[j].type, todo'[j].about>>
        BY <1>3, <2>1, <2>2, <3>2
      <4> QED BY <1>1, <1>2, <2>1, <2>2, <3>2, <4>1 DEF Tried, Table
    <3>3. CASE x[2] > place
      BY <1>1, <1>2, <2>1, <2>2, <3>3 DEF Tried, Table
    <3> QED BY <1>2, <2>1, <3>1, <3>2, <3>3
  <2>3. CASE x[1] \in Table
    BY <1>1, <2>3, SameStored DEF Tried
  <2> QED BY <2>2, <2>3
<1>5. OnceInv'
  BY <1>1, <1>4, TryNothing DEF JournalInv, InHand
<1>6. TodoInv'
  <2>1. \A j \in DOMAIN todo' : <<todo'[j].type, todo'[j].about>> \in Owed(msg)
    BY <1>2, <1>3, OwedIs, HandFacts DEF IInv
  <2> QED BY <1>1, <1>3, <2>1 DEF TodoInv
<1> QED BY <1>5, <1>6 DEF JournalInv

LEMMA CrackCheckedOnce ==
    ASSUME IInv, JournalInv, CrackChecked, msg.kind = "laser" PROVE JournalInv'
<1>1. /\ pc = "alert" /\ pc' = "thresholds" /\ todo = <<>> /\ place' = place + 1
      /\ UNCHANGED <<came, msg, rows, refused>>
  BY DEF CrackChecked
<1>2. place \in Nat /\ DOMAIN todo = {}
  BY <1>1 DEF IInv, TypeOK
<1>3. ASSUME NEW x \in Owed(msg) PROVE Tried(x)' <=> Tried(x)
  <2>1. x[2] \in Nat
    BY <1>1, OwedShape DEF IInv, InHand
  <2>2. x[2] <= place <=> x[2] < place'
    BY <1>1, <1>2, <2>1
  <2> QED BY <1>1, <1>2, <2>2, SameStored DEF Tried
<1>4. OnceInv'
  BY <1>1, <1>3, TryNothing DEF JournalInv, InHand
<1>5. TodoInv'
  BY <1>1 DEF TodoInv
<1> QED BY <1>4, <1>5 DEF JournalInv

LEMMA AllCheckedOnce == ASSUME IInv, JournalInv, AllChecked PROVE JournalInv'
<1>1. /\ pc = "thresholds" /\ pc' = "announce" /\ place > Len(msg.cracks)
      /\ UNCHANGED <<came, msg, rows, refused>>
  BY DEF AllChecked, local
<1>2. msg.kind = "laser" /\ InHand
  BY <1>1 DEF IInv, PlaceInv, InHand
<1>3. ASSUME NEW x \in Owed(msg) PROVE Tried(x)' <=> Tried(x)
  <2>1. x[1] \notin Table => x[2] < place
    BY <1>1, <1>2, OwedShape, HandFacts, MessageFacts DEF IInv, TypeOK
  <2> QED BY <1>1, <2>1, SameStored DEF Tried
<1>4. OnceInv'
  BY <1>1, <1>3, TryNothing DEF JournalInv, InHand
<1>5. TodoInv'
  BY <1>1 DEF TodoInv
<1> QED BY <1>4, <1>5 DEF JournalInv

LEMMA CheckOneOnce ==
    ASSUME IInv, JournalInv, CheckVibration \/ CheckPrediction PROVE JournalInv'
<1> DEFINE type == IF msg.kind = "vibration" THEN "VIBRATION_ANOMALY"
                   ELSE "CRACK_PROPAGATION_RISK"
<1>1. /\ pc = "check" /\ pc' = "alert" /\ msg.kind \in {"vibration", "prediction"}
      /\ UNCHANGED <<came, msg, rows, refused>>
      /\ todo' = IF msg.alarm
                 THEN <<[type |-> type, n |-> n, about |-> 0, crack |-> ids[0]]>> ELSE <<>>
  BY DEF CheckVibration, CheckPrediction, CheckOne
<1>2. /\ DOMAIN todo' = IF msg.alarm THEN {1} ELSE {}
      /\ msg.alarm => todo'[1].type = type /\ todo'[1].about = 0
  BY <1>1
<1>3. ASSUME NEW x \in Owed(msg) PROVE Tried(x)' <=> Tried(x)
  <2>1. x[1] \notin Table => msg.alarm /\ x = <<type, 0>>
    BY <1>1, OwedShape DEF IInv, InHand
  <2> QED BY <1>1, <1>2, <2>1, SameStored DEF Tried
<1>4. OnceInv'
  BY <1>1, <1>3, TryNothing DEF JournalInv, InHand
<1>5. TodoInv'
  <2>1. msg.alarm => <<type, 0>> \in Owed(msg)
    BY <1>1, OwedIs, HandFacts DEF IInv, InHand
  <2> QED BY <1>1, <1>2, <2>1 DEF TodoInv
<1> QED BY <1>4, <1>5 DEF JournalInv

LEMMA CheckEndsOnce ==
    ASSUME IInv, JournalInv, CheckEnds, msg.kind # "laser" PROVE JournalInv'
<1>1. /\ pc = "alert" /\ pc' = "announce" /\ todo = <<>>
      /\ UNCHANGED <<came, msg, rows, refused>>
  BY DEF CheckEnds, local
<1>2. DOMAIN todo = {}
  BY <1>1
<1>3. \A x \in Owed(msg) : Tried(x)' <=> Tried(x)
  BY <1>1, <1>2, SameStored DEF Tried
<1>4. OnceInv'
  BY <1>1, <1>3, TryNothing DEF JournalInv, InHand
<1>5. TodoInv'
  BY <1>1 DEF TodoInv
<1> QED BY <1>4, <1>5 DEF JournalInv

LEMMA InsertMeasurementOnce ==
    ASSUME IInv, JournalInv, InsertLaser \/ InsertVibration PROVE JournalInv'
<1>1. /\ pc = "measure" /\ pc' \in {"crack", "check"} /\ msg.kind \in {"laser", "vibration"}
      /\ UNCHANGED <<came, msg, place, cracks, points, alerts>>
  BY DEF InsertLaser, InsertVibration, InsertMeasurement, Detected, local
<1>2. \/ measured' = measured \union {n} /\ refused' = refused
      \/ refused' = refused \union {<<"measured", n, 0>>} /\ measured' = measured
  BY DEF InsertLaser, InsertVibration, InsertMeasurement
<1>3. PICK y : y = <<"measured", 0>>
  OBVIOUS
<1>4. Tries(y)
  BY <1>1, <1>2, <1>3, MeasuredGains, RefusedGains, SameRows, SameRefusals DEF Tries
<1>5. y \in Owed(msg) /\ ~Tried(y) /\ n' = n
  BY <1>1, <1>3, OwedIs, HandFacts DEF IInv, InHand, Tried, n
<1>6. ASSUME NEW x \in Owed(msg) PROVE Tried(x)' <=> Tried(x) \/ x = y
  <2>1. /\ x[1] = "measured" <=> x = y
        /\ x[1] \in {"cracks", "points"} => x[2] \in 1..Len(msg.cracks) /\ msg.detected
                                            /\ msg.kind = "laser"
    BY <1>1, <1>3, OwedShape DEF IInv, InHand
  <2>2. CASE x[1] = "measured"
    BY <1>1, <2>1, <2>2 DEF Tried, Table
  <2>3. CASE x[1] \in {"cracks", "points"}
    <3>1. pc' = "crack"
      BY <2>1, <2>3 DEF InsertLaser, InsertVibration, InsertMeasurement, Detected
    <3>2. place = 1 /\ ~(x[2] < place)
      BY <1>1, <2>1, <2>3 DEF IInv, PlaceInv
    <3> QED BY <1>1, <2>1, <2>3, <3>1, <3>2 DEF Tried
  <2>4. CASE x[1] \notin Table
    BY <1>1, <2>1, <2>4 DEF Tried, Table
  <2> QED BY <2>2, <2>3, <2>4 DEF Table
<1>7. \A r \in refused' : r[2] \in 1..n
  BY <1>2, HandFacts, BoundsAssumption, <1>1 DEF JournalInv, OnceInv, IInv, InHand
<1>8. OnceInv'
  BY <1>1, <1>4, <1>5, <1>6, <1>7, TryOne DEF JournalInv, InHand
<1>9. TodoInv'
  BY <1>1 DEF TodoInv
<1> QED BY <1>8, <1>9 DEF JournalInv

LEMMA InsertCrackOnce == ASSUME IInv, JournalInv, InsertCrack PROVE JournalInv'
<1>1. /\ pc = "crack" /\ place <= Len(msg.cracks)
      /\ UNCHANGED <<came, msg, measured, points, alerts>>
      /\ CrackStored \/ CrackRefused
  BY DEF InsertCrack
<1>2. /\ msg.kind = "laser" /\ msg.detected /\ InHand /\ place \in 1..Len(msg.cracks)
      /\ place \in Nat /\ n' = n /\ n \in 1..n
  BY <1>1, HandFacts, MessageFacts, BoundsAssumption DEF IInv, TypeOK, PlaceInv, InHand, n
<1>3. PICK y : y = <<"cracks", place>>
  OBVIOUS
<1>4. y \in Owed(msg) /\ ~Tried(y) /\ y[1] = "cracks" /\ y[2] = place
  BY <1>1, <1>2, <1>3, OwedIs, HandFacts DEF IInv, Tried
<1>5. /\ Tries(y)
      /\ \/ /\ pc' = "points" /\ place' = place /\ refused' = refused
            /\ Stored(n)' = Stored(n) \union {y}
         \/ /\ pc' = pc /\ place' = place + 1 /\ Stored(n)' = Stored(n)
            /\ refused' = refused \union {<<"cracks", n, place>>}
  <2>1. CASE CrackStored
    <3> DEFINE row == [id |-> Cardinality(cracks) + 1, code |-> Code, n |-> n, k |-> place]
    <3>1. row.n = n /\ row.k = place /\ cracks' = cracks \union {row}
      BY <2>1 DEF CrackStored
    <3> HIDE DEF row
    <3>2. \A i : Stored(i)' = IF i = n THEN Stored(i) \union {y} ELSE Stored(i)
      BY <1>1, <1>3, <3>1, CracksGain
    <3>3. pc' = "points" /\ place' = place /\ refused' = refused
      BY <2>1 DEF CrackStored
    <3> QED BY <1>2, <3>2, <3>3, SameRefusals DEF Tries
  <2>2. CASE CrackRefused
    <3>1. /\ pc' = pc /\ place' = place + 1 /\ cracks' = cracks
          /\ refused' = refused \union {<<"cracks", n, place>>}
      BY <2>2 DEF CrackRefused
    <3>2. \A i : Stored(i)' = Stored(i)
      BY <1>1, <3>1, SameRows
    <3> QED BY <1>2, <1>3, <3>1, <3>2, RefusedGains DEF Tries
  <2> QED BY <1>1, <2>1, <2>2
<1>6. ASSUME NEW x \in Owed(msg) PROVE Tried(x)' <=> Tried(x) \/ x = y
  <2>1. x = <<x[1], x[2]>> /\ x[2] \in Nat
    BY <1>2, OwedShape DEF IInv
  <2>2. y \notin Stored(n)
    BY <1>2, <1>4 DEF JournalInv, OnceInv
  <2>3. CASE x[1] = "cracks"
    <3>1. x = y <=> x[2] = place
      BY <1>3, <2>1, <2>3
    <3>2. Tried(x) <=> x[2] < place
      BY <1>1, <2>3 DEF Tried, Table
    <3>3. Tried(x)' <=> x[2] <= place
      BY <1>1, <1>2, <1>5, <2>1, <2>3 DEF Tried, Table
    <3> QED BY <1>2, <2>1, <3>1, <3>2, <3>3
  <2>4. CASE x[1] = "points"
    <3>1. /\ Tried(x) <=> <<"cracks", x[2]>> \in Stored(n) /\ x[2] < place
          /\ Tried(x)' <=> <<"cracks", x[2]>> \in Stored(n)' /\ x[2] < place'
          /\ x # y
      BY <1>1, <1>3, <1>5, <2>4 DEF Tried, Table
    <3>2. <<"cracks", x[2]>> = y <=> x[2] = place
      BY <1>3
    <3>3. CASE x[2] = place
      BY <1>2, <1>5, <2>2, <3>1, <3>2, <3>3
    <3>4. CASE x[2] # place
      <4>1. x[2] < place' <=> x[2] < place
        BY <1>2, <1>5, <2>1, <3>4
      <4>2. <<"cracks", x[2]>> \in Stored(n)' <=> <<"cracks", x[2]>> \in Stored(n)
        BY <1>5, <3>2, <3>4
      <4> QED BY <3>1, <4>1, <4>2
    <3> QED BY <3>3, <3>4
  <2>5. CASE x[1] \notin {"cracks", "points"}
    BY <1>1, <1>4, <1>5, <2>5 DEF Tried
  <2> QED BY <2>3, <2>4, <2>5
<1>7. \A r \in refused' : r[2] \in 1..n
  BY <1>2, <1>5 DEF JournalInv, OnceInv
<1>8. OnceInv'
  BY <1>1, <1>2, <1>4, <1>5, <1>6, <1>7, TryOne DEF JournalInv, InHand
<1>9. TodoInv'
  BY <1>1, <1>5 DEF TodoInv
<1> QED BY <1>8, <1>9 DEF JournalInv

LEMMA InsertPointsOnce == ASSUME IInv, JournalInv, InsertPoints PROVE JournalInv'
<1>1. /\ pc = "points" /\ pc' = "crack" /\ place' = place + 1
      /\ UNCHANGED <<came, msg, measured, cracks, alerts>>
  BY DEF InsertPoints
<1>2. /\ msg.kind = "laser" /\ msg.detected /\ InHand /\ place \in 1..Len(msg.cracks)
      /\ place \in Nat /\ n' = n /\ n \in 1..n
  BY <1>1, HandFacts, BoundsAssumption DEF IInv, TypeOK, PlaceInv, InHand, n
<1>3. PICK y : y = <<"points", place>>
  OBVIOUS
<1>4. y \in Owed(msg) /\ ~Tried(y) /\ y[1] = "points" /\ y[2] = place
  BY <1>1, <1>2, <1>3, OwedIs, HandFacts DEF IInv, Tried
<1>5. /\ Tries(y)
      /\ refused' = refused \/ refused' = refused \union {<<"points", n, place>>}
      /\ \A k : <<"cracks", k>> \in Stored(n)' <=> <<"cracks", k>> \in Stored(n)
  <2>1. CASE refused' = refused
             /\ points' = points \union {[crack |-> crackId, n |-> n, k |-> place]}
    <3> DEFINE row == [crack |-> crackId, n |-> n, k |-> place]
    <3>1. row.n = n /\ row.k = place /\ points' = points \union {row}
      BY <2>1
    <3> HIDE DEF row
    <3>2. \A i : Stored(i)' = IF i = n THEN Stored(i) \union {y} ELSE Stored(i)
      BY <1>1, <1>3, <3>1, PointsGain
    <3>3. \A k : <<"cracks", k>> # y
      BY <1>3
    <3> QED BY <1>2, <2>1, <3>2, <3>3, SameRefusals DEF Tries
  <2>2. CASE refused' = refused \union {<<"points", n, place>>} /\ points' = points
    <3>1. \A i : Stored(i)' = Stored(i)
      BY <1>1, <2>2, SameRows
    <3> QED BY <1>2, <1>3, <2>2, <3>1, RefusedGains DEF Tries
  <2> QED BY <2>1, <2>2 DEF InsertPoints
<1>6. <<"cracks", place>> \in Stored(n)
  BY <1>1 DEF IInv, StoredInv, Stored
<1>7. ASSUME NEW x \in Owed(msg) PROVE Tried(x)' <=> Tried(x) \/ x = y
  <2>1. x = <<x[1], x[2]>> /\ x[2] \in Nat
    BY <1>2, OwedShape DEF IInv
  <2>2. x[2] < place' <=> x[2] <= place
    BY <1>1, <1>2, <2>1
  <2>3. CASE x[1] = "cracks"
    BY <1>1, <1>4, <2>2, <2>3 DEF Tried, Table
  <2>4. CASE x[1] = "points"
    <3>1. x = y <=> x[2] = place
      BY <1>3, <2>1, <2>4
    <3>2. /\ Tried(x) <=> <<"cracks", x[2]>> \in Stored(n) /\ x[2] < place
          /\ Tried(x)' <=> <<"cracks", x[2]>> \in Stored(n) /\ x[2] <= place
      BY <1>1, <1>5, <2>2, <2>4 DEF Tried, Table
    <3> QED BY <1>2, <1>6, <2>1, <3>1, <3>2
  <2>5. CASE x[1] \notin {"cracks", "points"}
    BY <1>1, <1>4, <2>5 DEF Tried
  <2> QED BY <2>3, <2>4, <2>5
<1>8. \A r \in refused' : r[2] \in 1..n
  BY <1>2, <1>5 DEF JournalInv, OnceInv
<1>9. OnceInv'
  BY <1>1, <1>2, <1>4, <1>5, <1>7, <1>8, TryOne DEF JournalInv, InHand
<1>10. TodoInv'
  BY <1>1 DEF TodoInv
<1> QED BY <1>9, <1>10 DEF JournalInv

LEMMA HeadAndTail ==
    ASSUME NEW S, NEW s \in Seq(S), s # <<>>
    PROVE  /\ 1 \in DOMAIN s /\ Head(s) = s[1] /\ Head(s) \in S
           /\ \A j \in DOMAIN Tail(s) : j + 1 \in DOMAIN s /\ j + 1 # 1 /\ Tail(s)[j] = s[j + 1]
           /\ \A j \in DOMAIN s : j # 1 => \E l \in DOMAIN Tail(s) : j = l + 1
<1>1. Len(s) \in Nat /\ Len(s) >= 1 /\ DOMAIN s = 1..Len(s) /\ Head(s) = s[1]
  OBVIOUS
<1>2. DOMAIN Tail(s) = 1..(Len(s) - 1) /\ \A j \in 1..(Len(s) - 1) : Tail(s)[j] = s[j + 1]
  OBVIOUS
<1>3. ASSUME NEW j \in DOMAIN s, j # 1 PROVE \E l \in DOMAIN Tail(s) : j = l + 1
  <2>1. j - 1 \in DOMAIN Tail(s) /\ j = (j - 1) + 1
    BY <1>1, <1>2, <1>3
  <2> QED BY <2>1
<1> QED BY <1>1, <1>2, <1>3

LEMMA CheckNextOnce == ASSUME IInv, JournalInv, CheckNext PROVE JournalInv'
<1> DEFINE a == Head(todo)
<1>1. /\ pc = "alert" /\ pc' = "alert" /\ place' = place /\ todo' = Tail(todo) /\ todo # <<>>
      /\ UNCHANGED <<came, msg, measured, cracks, points>>
      /\ InsertAlert(a) \/ AlertRefused(a)
  BY DEF CheckNext
<1>2. InHand /\ n' = n /\ n \in 1..n /\ place \in Nat /\ todo \in Seq(Alert)
  BY <1>1, HandFacts, BoundsAssumption DEF IInv, TypeOK, InHand, n
<1>3. /\ 1 \in DOMAIN todo /\ a = todo[1] /\ a \in Alert
      /\ \A j \in DOMAIN todo' : j + 1 \in DOMAIN todo /\ j + 1 # 1 /\ todo'[j] = todo[j + 1]
      /\ \A j \in DOMAIN todo : j # 1 => \E l \in DOMAIN todo' : j = l + 1
  BY <1>1, <1>2, HeadAndTail
<1>4. a.n = n
  BY <1>1, <1>3 DEF IInv, PlaceInv
<1>5. a.type \notin Table
  BY <1>3 DEF Alert, Table, CrackAlert
<1>6. \A j \in DOMAIN todo :
        /\ <<todo[j].type, todo[j].about>> \in Owed(msg)
        /\ msg.kind = "laser" => todo[j].about = place
        /\ \A l \in DOMAIN todo : todo[l].type = todo[j].type => l = j
  BY <1>1 DEF JournalInv, TodoInv
<1>7. PICK y : y = <<a.type, a.about>>
  OBVIOUS
<1>8. /\ y \in Owed(msg) /\ y[1] = a.type /\ y[2] = a.about
      /\ msg.kind = "laser" => y[2] = place
  BY <1>3, <1>6, <1>7
<1>9. ~Tried(y)
  BY <1>1, <1>3, <1>5, <1>7, <1>8 DEF Tried
<1>10. Tries(y) /\ (\A r \in refused' : r[2] \in 1..n)
       /\ \A k : <<"cracks", k>> \in Stored(n)' <=> <<"cracks", k>> \in Stored(n)
  <2>1. \A k : <<"cracks", k>> # y
    BY <1>5, <1>7 DEF Table
  <2>2. CASE InsertAlert(a)
    <3>1. alerts' = alerts \union {a} /\ refused' = refused
      BY <2>2 DEF InsertAlert
    <3>2. \A i : Stored(i)' = IF i = n THEN Stored(i) \union {y} ELSE Stored(i)
      <4> HIDE DEF a
      <4> QED BY <1>1, <1>4, <1>7, <3>1, AlertsGain
    <3>3. \A r \in refused' : r[2] \in 1..n
      BY <3>1 DEF JournalInv, OnceInv
    <3>4. Tries(y)
      BY <3>1, <3>2, SameRefusals DEF Tries
    <3> QED BY <1>2, <2>1, <3>2, <3>3, <3>4
  <2>3. CASE AlertRefused(a)
    <3>1. refused' = refused \union {<<a.type, n, a.about>>} /\ alerts' = alerts
      BY <2>3 DEF AlertRefused
    <3>2. \A i : Stored(i)' = Stored(i)
      BY <1>1, <3>1, SameRows
    <3>3. \A i : Refused(i)' = IF i = n THEN Refused(i) \union {y} ELSE Refused(i)
      <4> HIDE DEF a
      <4> QED BY <1>7, <3>1, RefusedGains
    <3>4. \A r \in refused' : r[2] \in 1..n
      BY <1>2, <3>1 DEF JournalInv, OnceInv
    <3>5. Tries(y)
      BY <3>2, <3>3 DEF Tries
    <3> QED BY <1>2, <3>2, <3>4, <3>5
  <2> QED BY <1>1, <2>2, <2>3
<1>11. \A x : (\E j \in DOMAIN todo : x = <<todo[j].type, todo[j].about>>) <=>
              x = y \/ (\E j \in DOMAIN todo' : x = <<todo'[j].type, todo'[j].about>>)
  BY <1>3, <1>7
<1>12. ~ \E j \in DOMAIN todo' : y = <<todo'[j].type, todo'[j].about>>
  <2> SUFFICES ASSUME NEW j \in DOMAIN todo', y = <<todo'[j].type, todo'[j].about>>
               PROVE  FALSE
    OBVIOUS
  <2>1. todo[j + 1].type = todo[1].type
    BY <1>3, <1>7
  <2> QED BY <1>3, <1>6, <2>1
<1>13. ASSUME NEW x \in Owed(msg) PROVE Tried(x)' <=> Tried(x) \/ x = y
  <2>1. CASE x[1] \in Table
    BY <1>1, <1>2, <1>5, <1>8, <1>10, <2>1 DEF Tried
  <2>2. CASE x[1] \notin Table
    <3>1. Tried(x) <=> /\ msg.kind = "laser" => x[2] <= place
                       /\ ~ \E j \in DOMAIN todo : x = <<todo[j].type, todo[j].about>>
      BY <1>1, <2>2 DEF Tried, Table
    <3>2. Tried(x)' <=> /\ msg.kind = "laser" => x[2] <= place
                        /\ ~ \E j \in DOMAIN todo' : x = <<todo'[j].type, todo'[j].about>>
      BY <1>1, <2>2 DEF Tried, Table
    <3>3. CASE x = y
      BY <1>2, <1>8, <1>12, <3>2, <3>3
    <3>4. CASE x # y
      BY <1>11, <3>1, <3>2, <3>4
    <3> QED BY <3>3, <3>4
  <2> QED BY <2>1, <2>2
<1>14. OnceInv'
  BY <1>1, <1>2, <1>8, <1>9, <1>10, <1>13, TryOne DEF JournalInv, InHand
<1>15. TodoInv'
  <2> SUFFICES ASSUME NEW j \in DOMAIN todo'
               PROVE  /\ <<todo'[j].type, todo'[j].about>> \in Owed(msg)
                      /\ msg.kind = "laser" => todo'[j].about = place
                      /\ \A l \in DOMAIN todo' : todo'[l].type = todo'[j].type => l = j
    BY <1>1 DEF TodoInv
  <2>1. j + 1 \in DOMAIN todo /\ todo'[j] = todo[j + 1]
    BY <1>3
  <2>2. ASSUME NEW l \in DOMAIN todo', todo'[l].type = todo'[j].type PROVE l = j
    <3>1. l + 1 = j + 1
      BY <1>3, <1>6, <2>1, <2>2
    <3>2. l \in Nat /\ j \in Nat
      BY <1>1, <1>2
    <3> QED BY <3>1, <3>2
  <2> QED BY <1>6, <2>1, <2>2
<1> QED BY <1>14, <1>15 DEF JournalInv

LEMMA TakeOnce == ASSUME IInv, JournalInv, Take PROVE JournalInv'
<1>1. /\ pc = "wait" /\ msg' \in Message /\ came' = Append(came, msg')
      /\ UNCHANGED <<measured, cracks, points, alerts, refused>>
      /\ \/ msg'.kind \in {"laser", "vibration"} /\ pc' = "log"
         \/ msg'.kind = "prediction" /\ pc' = "check"
         \/ msg'.kind = "dem" /\ pc' = "announce"
  BY MessageAssumption DEF Take, rows
<1>2. n \in Nat /\ n' = n + 1
  BY <1>1 DEF IInv, TypeOK, n
<1>3. Stored(n)' = {}
  <2>1. /\ \A i \in measured : i # n'
        /\ \A r \in cracks \union points \union alerts : r.n # n'
    BY <1>2 DEF IInv, TypeOK, PlaceInv, Alert
  <2> QED BY <1>1, <2>1 DEF Stored
<1>4. \A r \in refused' : r[2] \in 1..n /\ r[2] \in 1..n' /\ r[2] # n'
  BY <1>1, <1>2 DEF JournalInv, OnceInv
<1>5. Refused(n)' = {}
  BY <1>4 DEF Refused
<1>6. \A x \in Owed(msg') : ~Tried(x)'
  <2> SUFFICES ASSUME NEW x \in Owed(msg') PROVE ~Tried(x)'
    OBVIOUS
  <2>1. CASE pc' = "log"
    BY <2>1 DEF Tried
  <2>2. CASE pc' = "check" /\ msg'.kind = "prediction"
    <3>1. x = <<"CRACK_PROPAGATION_RISK", 0>>
      BY <1>1, <2>2, OwedIs
    <3> QED BY <2>2, <3>1 DEF Tried, Table
  <2>3. CASE pc' = "announce" /\ msg'.kind = "dem"
    BY <1>1, <2>3, OwedIs
  <2> QED BY <1>1, <2>1, <2>2, <2>3
<1>7. OnceInv'
  BY <1>3, <1>4, <1>5, <1>6 DEF OnceInv
<1>8. TodoInv'
  BY <1>1 DEF TodoInv
<1> QED BY <1>7, <1>8 DEF JournalInv

LEMMA TickOnce ==
    ASSUME JournalInv, UNCHANGED <<pc, local, rows, refused>> PROVE JournalInv'
<1>1. UNCHANGED <<pc, msg, came, place, todo, rows, refused, n>>
  BY DEF local, n
<1>2. \A x \in Owed(msg) : Tried(x)' <=> Tried(x)
  BY <1>1, SameStored DEF Tried
<1>3. OnceInv'
  <2>1. CASE InHand
    BY <1>1, <1>2, <2>1, TryNothing DEF JournalInv, InHand
  <2>2. CASE ~InHand
    BY <1>1, <2>2 DEF JournalInv, OnceInv, InHand
  <2> QED BY <2>1, <2>2
<1>4. TodoInv'
  BY <1>1 DEF JournalInv, TodoInv
<1> QED BY <1>3, <1>4 DEF JournalInv

LEMMA ReturnOnce == ASSUME JournalInv, Return, UNCHANGED <<came, refused>> PROVE JournalInv'
BY DEF Return, JournalInv, OnceInv, TodoInv, InHand, n

LEMMA HandleOnce == ASSUME IInv, JournalInv, Handle PROVE JournalInv'
<1>1. ASSUME LogThrows \/ Announce PROVE JournalInv'
  BY <1>1, ReturnOnce DEF LogThrows, Announce
<1>2. CASE msg.kind = "laser" /\ HandleLaser
  BY <1>1, <1>2, LogPacketOnce, InsertMeasurementOnce, InsertCrackOnce, InsertPointsOnce,
     CracksDoneOnce, CheckLaserOnce, CheckCrackOnce, CheckNextOnce, CrackCheckedOnce,
     AllCheckedOnce DEF HandleLaser
<1>3. CASE msg.kind = "vibration" /\ HandleVibration
  BY <1>1, <1>3, LogPacketOnce, InsertMeasurementOnce, CheckOneOnce, CheckNextOnce, CheckEndsOnce
     DEF HandleVibration
<1>4. CASE msg.kind = "prediction" /\ HandlePrediction
  BY <1>1, <1>4, CheckOneOnce, CheckNextOnce, CheckEndsOnce DEF HandlePrediction
<1>5. CASE msg.kind = "dem" /\ HandleDem
  BY <1>1, <1>5 DEF HandleDem
<1> QED BY <1>2, <1>3, <1>4, <1>5 DEF Handle

\* Whatever a message calls for is tried at one place of its handler, once, and nothing
\* else is: at each place the rows it has stored and the refusals it has met are apart,
\* and together what its handler has come past (alert_ws_module.h l.97-207).
THEOREM JournalInvariance == Spec => []JournalInv
<1>1. Init => JournalInv
  <2> SUFFICES ASSUME Init PROVE JournalInv
    OBVIOUS
  <2> QED BY DEF Init, JournalInv, TodoInv, OnceInv, InHand
<1>2. IInv /\ JournalInv /\ [Next]_vars => JournalInv'
  BY TakeOnce, TickOnce, HandleOnce DEF Next, Tick, vars
<1> QED BY <1>1, <1>2, Invariance, PTL DEF Spec

-----------------------------------------------------------------------------
(* The handlers implement the journal.                                     *)

\* What has come of message i
Entry(i) == [message |-> came[i], stored |-> Stored(i), refused |-> Refused(i)]
Entries == [i \in 1..Ended |-> Entry(i)]

LEMMA EntriesStay ==
    ASSUME Ended' = Ended, \A i \in 1..Ended : Entry(i)' = Entry(i) PROVE Entries' = Entries
BY DEF Entries

\* A step of the handler that does not end it stores and refuses for its message only.
OnlyHere ==
    /\ UNCHANGED <<came, announced>> /\ InHand'
    /\ \A i : i # n => Stored(i)' = Stored(i) /\ Refused(i)' = Refused(i)

LEMMA StoresOnlyHere == ASSUME IInv, Handle PROVE OnlyHere \/ LogThrows \/ Announce
<1>1. ASSUME UNCHANGED <<came, announced, rows, refused>>, InHand' PROVE OnlyHere
  BY <1>1, SameRows, SameRefusals DEF OnlyHere, rows
<1>2. ASSUME LogPacket \/ CracksDone \/ CheckLaser \/ CheckCrack \/ CrackChecked \/ AllChecked
             \/ CheckVibration \/ CheckPrediction \/ CheckEnds
      PROVE  OnlyHere
  BY <1>1, <1>2 DEF LogPacket, CracksDone, CheckLaser, CheckCrack, CrackChecked, AllChecked,
     CheckVibration, CheckPrediction, CheckOne, CheckEnds, InHand, local
<1>3. ASSUME InsertLaser \/ InsertVibration PROVE OnlyHere
  <2>1. /\ UNCHANGED <<came, announced, cracks, points, alerts>> /\ pc' # "wait"
        /\ \/ measured' = measured \union {n} /\ refused' = refused
           \/ refused' = refused \union {<<"measured", n, 0>>} /\ measured' = measured
    BY <1>3 DEF InsertLaser, InsertVibration, InsertMeasurement, Detected, local
  <2> QED BY <2>1, MeasuredGains, RefusedGains, SameRows, SameRefusals DEF OnlyHere, InHand
<1>4. ASSUME InsertCrack PROVE OnlyHere
  <2> DEFINE row == [id |-> Cardinality(cracks) + 1, code |-> Code, n |-> n, k |-> place]
  <2>1. /\ UNCHANGED <<came, announced, measured, points, alerts>> /\ pc' # "wait"
        /\ \/ cracks' = cracks \union {row} /\ refused' = refused
           \/ refused' = refused \union {<<"cracks", n, place>>} /\ cracks' = cracks
    BY <1>4 DEF InsertCrack, CrackStored, CrackRefused
  <2>2. row.n = n
    OBVIOUS
  <2> HIDE DEF row
  <2> QED BY <2>1, <2>2, CracksGain, RefusedGains, SameRows, SameRefusals DEF OnlyHere, InHand
<1>5. ASSUME InsertPoints PROVE OnlyHere
  <2> DEFINE row == [crack |-> crackId, n |-> n, k |-> place]
  <2>1. /\ UNCHANGED <<came, announced, measured, cracks, alerts>> /\ pc' # "wait"
        /\ \/ points' = points \union {row} /\ refused' = refused
           \/ refused' = refused \union {<<"points", n, place>>} /\ points' = points
    BY <1>5 DEF InsertPoints
  <2>2. row.n = n
    OBVIOUS
  <2> HIDE DEF row
  <2> QED BY <2>1, <2>2, PointsGain, RefusedGains, SameRows, SameRefusals DEF OnlyHere, InHand
<1>6. ASSUME CheckNext PROVE OnlyHere
  <2> DEFINE a == Head(todo)
  <2>1. /\ pc = "alert" /\ todo # <<>> /\ pc' # "wait"
        /\ UNCHANGED <<came, announced, measured, cracks, points>>
        /\ \/ alerts' = alerts \union {a} /\ refused' = refused
           \/ refused' = refused \union {<<a.type, n, a.about>>} /\ alerts' = alerts
    BY <1>6 DEF CheckNext, InsertAlert, AlertRefused
  <2>2. a.n = n
    BY <2>1, HeadAndTail DEF IInv, TypeOK, PlaceInv
  <2> HIDE DEF a
  <2> QED BY <2>1, <2>2, AlertsGain, RefusedGains, SameRows, SameRefusals DEF OnlyHere, InHand
<1> QED BY <1>2, <1>3, <1>4, <1>5, <1>6
        DEF Handle, HandleLaser, HandleVibration, HandlePrediction, HandleDem

\* A message is taken, or a step of its handler is made: to the journal nothing happens.
LEMMA UnseenByJournal ==
    ASSUME IInv, Take \/ (Handle /\ OnlyHere) \/ UNCHANGED <<pc, local, rows, refused, announced>>
    PROVE  UNCHANGED <<Entries, announced>>
<1>1. CASE Take
  <2>1. /\ pc = "wait" /\ pc' # "wait" /\ n \in Nat /\ n' = n + 1
        /\ \A i \in 1..n : came'[i] = came[i]
        /\ UNCHANGED <<rows, refused, announced>>
    BY <1>1, MessageAssumption DEF Take, IInv, TypeOK, n
  <2>2. Ended' = Ended /\ Ended = n
    BY <2>1 DEF Ended
  <2> QED BY <2>1, <2>2, EntriesStay, SameRows, SameRefusals DEF Entry, rows
<1>2. CASE Handle /\ OnlyHere
  <2>1. InHand /\ InHand' /\ n \in Nat /\ n' = n
    <3>1. InHand
      BY <1>2 DEF Handle, InHand, HandleLaser, HandleVibration, HandlePrediction, HandleDem,
         LogPacket, LogThrows, InsertLaser, InsertVibration, InsertMeasurement, InsertCrack,
         InsertPoints, CracksDone, CheckLaser, CheckCrack, CheckNext, CrackChecked, AllChecked,
         CheckVibration, CheckPrediction, CheckOne, CheckEnds, Announce
    <3> QED BY <1>2, <3>1, HandFacts DEF OnlyHere, IInv, n
  <2>2. Ended = n - 1 /\ Ended' = Ended
    BY <2>1 DEF Ended, InHand
  <2>3. \A i \in 1..Ended : i # n
    BY <2>1, <2>2
  <2> QED BY <1>2, <2>2, <2>3, EntriesStay DEF OnlyHere, Entry
<1>3. CASE UNCHANGED <<pc, local, rows, refused, announced>>
  <2>1. UNCHANGED <<came, n, pc>>
    BY <1>3 DEF local, n
  <2>2. Ended' = Ended
    BY <2>1 DEF Ended
  <2> QED BY <1>3, <2>1, <2>2, EntriesStay, SameRows, SameRefusals DEF Entry, rows
<1> QED BY <1>1, <1>2, <1>3

\* A handler that returns adds what has come of its message to the journal.
LEMMA ReturnAppends ==
    ASSUME IInv, InHand, Return, UNCHANGED <<came, rows, refused>>
    PROVE  Entries' = Append(Entries, Entry(n)) /\ Len(Entries) + 1 = n
<1>1. n \in Nat /\ n >= 1 /\ n' = n
  BY HandFacts, BoundsAssumption DEF IInv, n
<1>2. Ended = n - 1 /\ Ended' = n
  BY <1>1 DEF Ended, InHand, Return
<1>3. \A i : Entry(i)' = Entry(i)
  BY SameRows, SameRefusals DEF Entry, rows
<1>4. Len(Entries) = n - 1 /\ Entries' = [i \in 1..n |-> Entry(i)]
  BY <1>1, <1>2, <1>3 DEF Entries
<1>5. Append(Entries, Entry(n)) = [i \in 1..n |-> Entry(i)]
  BY <1>1, <1>2, <1>4 DEF Entries
<1> QED BY <1>1, <1>4, <1>5

LEMMA AnnounceHandles ==
    ASSUME IInv, JournalInv, Announce
    PROVE  \E m \in Message : Journal!Handle(m)
<1>1. /\ pc = "announce" /\ announced' = Append(announced, n) /\ InHand
      /\ UNCHANGED <<came, rows, refused>> /\ Return
  BY DEF Announce, InHand
<1>2. msg \in Message /\ msg = came[n]
  BY <1>1, HandFacts DEF IInv
<1>3. /\ Stored(n) \intersect Refused(n) = {}
      /\ Stored(n) \union Refused(n) = {x \in Owed(msg) : Tried(x)}
  BY <1>1 DEF JournalInv, OnceInv
<1>4. \A x : Tried(x) <=> (x[1] = "points" => <<"cracks", x[2]>> \in Stored(n))
  BY <1>1 DEF Tried
<1>5. Journal!Asked(msg, Stored(n)) = {x \in Owed(msg) : Tried(x)}
  BY <1>4 DEF Journal!Asked
<1>6. Entry(n) = Journal!Outcome(msg, Stored(n), Journal!Asked(msg, Stored(n)) \ Stored(n))
  <2>1. Refused(n) = Journal!Asked(msg, Stored(n)) \ Stored(n)
    BY <1>3, <1>5
  <2> QED BY <1>2, <2>1 DEF Entry, Journal!Outcome
<1>7. Stored(n) \in SUBSET Owed(msg) /\ Stored(n) \subseteq Journal!Asked(msg, Stored(n))
  BY <1>3, <1>5
<1>8. Entries' = Append(Entries, Entry(n)) /\ Len(Entries) + 1 = n
  BY <1>1, ReturnAppends
<1>9. PICK m \in Message : m = msg
  BY <1>2
<1>10. Journal!Handle(m)
  BY <1>1, <1>6, <1>7, <1>8, <1>9 DEF Journal!Handle, Entries, Entry
<1> QED BY <1>10

LEMMA LogThrowsGivesUp ==
    ASSUME IInv, JournalInv, LogThrows
    PROVE  \E m \in Message : Journal!GiveUp(m)
<1>1. /\ pc = "log" /\ ~msg.utf8 /\ announced' = announced /\ InHand
      /\ UNCHANGED <<came, rows, refused>> /\ Return
  BY DEF LogThrows, InHand
<1>2. msg \in Message /\ msg = came[n]
  BY <1>1, HandFacts DEF IInv
<1>3. Stored(n) = {} /\ Refused(n) = {}
  <2>1. Stored(n) \union Refused(n) = {x \in Owed(msg) : Tried(x)}
    BY <1>1 DEF JournalInv, OnceInv
  <2>2. \A x : ~Tried(x)
    BY <1>1 DEF Tried
  <2> QED BY <2>1, <2>2
<1>4. Entries' = Append(Entries, Entry(n))
  BY <1>1, ReturnAppends
<1>5. Entry(n) = Journal!Outcome(msg, {}, {})
  BY <1>2, <1>3 DEF Entry, Journal!Outcome
<1>6. PICK m \in Message : m = msg
  BY <1>2
<1>7. Journal!GiveUp(m)
  BY <1>1, <1>4, <1>5, <1>6 DEF Journal!GiveUp, Entries, Entry
<1> QED BY <1>7

\* The handlers of alert_ws_module.h l.97-207, whose operations other threads, the clock
\* and refusals come between, are what MessageJournal says: one step per message that
\* tries all it calls for once and is then announced, or gives it up and leaves nothing.
THEOREM HandlersImplementJournal == Spec => ImplementsJournal
<1>1. Init => Journal!Init
  BY DEF Init, Ended, n, Journal!Init
<1>2. IInv /\ JournalInv /\ [Next]_vars => [Journal!Next]_(Journal!vars)
  <2> SUFFICES ASSUME IInv, JournalInv, [Next]_vars
               PROVE  Journal!Next \/ UNCHANGED Journal!vars
    OBVIOUS
  <2>1. CASE LogThrows \/ Announce
    BY <2>1, LogThrowsGivesUp, AnnounceHandles DEF Journal!Next
  <2>2. CASE Take \/ (Handle /\ OnlyHere) \/ UNCHANGED <<pc, local, rows, refused, announced>>
    BY <2>2, UnseenByJournal DEF Journal!vars, Entries, Entry
  <2> QED BY <2>1, <2>2, StoresOnlyHere DEF Next, Tick, vars
<1> QED BY <1>1, <1>2, Invariance, JournalInvariance, PTL DEF Spec, ImplementsJournal, Journal!Spec

=============================================================================
