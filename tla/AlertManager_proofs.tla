------------------------- MODULE AlertManager_proofs -------------------------
(***************************************************************************)
(* Proofs about AlertManager, for any reports, thresholds and settings and *)
(* any number of alerts.                                                   *)
(***************************************************************************)
EXTENDS AlertManager, SequenceTheorems, TLAPS

LEMMA AppendFacts ==
    ASSUME NEW S, NEW s \in Seq(S), NEW e \in S
    PROVE  /\ Append(s, e) \in Seq(S)
           /\ Len(s) \in Nat
           /\ Len(Append(s, e)) = Len(s) + 1
           /\ \A i \in 1..Len(s) : Append(s, e)[i] = s[i]
           /\ Append(s, e)[Len(s) + 1] = e
  BY LenProperties, AppendProperties

LEMMA TailFacts ==
    ASSUME NEW S, NEW s \in Seq(S), s # <<>>
    PROVE  /\ Head(s) \in S /\ Tail(s) \in Seq(S)
           /\ Len(s) \in Nat /\ Len(s) >= 1
           /\ Len(Tail(s)) = Len(s) - 1
           /\ \A i \in 1..(Len(s) - 1) : Tail(s)[i] = s[i + 1]
           /\ Head(s) = s[1]
  OBVIOUS

LEMMA ChecksFindAlerts ==
    /\ \A crack : CheckCrackThresholds(crack) \in Seq(AlertType)
    /\ \A r : CheckVibration(r) \in Seq(AlertType)
    /\ \A r : CheckPrediction(r) \in Seq(AlertType)
<1>1. ASSUME NEW crack PROVE CheckCrackThresholds(crack) \in Seq(AlertType)
  <2>1. /\ <<>> \in Seq(AlertType)
        /\ <<"CRACK_DEPTH_EXCEEDED">> \in Seq(AlertType)
        /\ <<"CRACK_WIDTH_EXCEEDED">> \in Seq(AlertType)
    BY DEF AlertType
  <2>2. \A s, t \in Seq(AlertType) : s \o t \in Seq(AlertType)
    BY ConcatProperties
  <2> QED BY <2>1, <2>2 DEF CheckCrackThresholds
<1>2. ASSUME NEW r PROVE CheckVibration(r) \in Seq(AlertType) /\ CheckPrediction(r) \in Seq(AlertType)
  <2>1. /\ <<>> \in Seq(AlertType)
        /\ <<"VIBRATION_ANOMALY">> \in Seq(AlertType)
        /\ <<"CRACK_PROPAGATION_RISK">> \in Seq(AlertType)
    BY DEF AlertType
  <2> QED BY <2>1, Zenon DEF CheckVibration, CheckPrediction
<1> QED BY <1>1, <1>2

LEMMA InitIInv == Init => IInv
<1> SUFFICES ASSUME Init PROVE IInv
  OBVIOUS
<1>1. TypeOK
  <2>1. alert_queue \in Seq(Nat) /\ sms \in Seq(Nat) /\ ws \in Seq(Nat) /\ todo \in Seq(AlertType)
    BY EmptySeq DEF Init
  <2>2. running \in BOOLEAN
    BY Zenon DEF Init
  <2> QED BY <2>1, <2>2 DEF Init, TypeOK
<1>2. Accounting /\ NoMissedAlert /\ SendsUnlocked
  BY DEF Init, Accounting, NoMissedAlert, SendsUnlocked, InHand, Unqueued
<1>3. SentInOrder /\ SmsCount
  BY DEF Init, SentInOrder, SmsCount
<1> QED BY <1>1, <1>2, <1>3 DEF IInv

-----------------------------------------------------------------------------
(* The caller *)

LEMMA BeginReportIInv ==
    ASSUME IInv, NEW r \in Report, BeginReport(r)
    PROVE  IInv'
<1>1. TypeOK'
  <2>1. todo' \in Seq(AlertType)
    BY ChecksFindAlerts, EmptySeq DEF BeginReport
  <2> QED BY <2>1 DEF BeginReport, IInv, TypeOK, workerVars
<1>2. Accounting' /\ NoMissedAlert' /\ SendsUnlocked'
  BY DEF BeginReport, workerVars, IInv, Accounting, NoMissedAlert, SendsUnlocked, InHand, Unqueued
<1>3. SentInOrder' /\ SmsCount'
  BY DEF BeginReport, workerVars, IInv, SentInOrder, SmsCount
<1> QED BY <1>1, <1>2, <1>3 DEF IInv

LEMMA CheckCrackIInv ==
    ASSUME IInv, CheckCrack \/ EndReport
    PROVE  IInv'
<1>1. TypeOK'
  BY ChecksFindAlerts DEF CheckCrack, EndReport, IInv, TypeOK, workerVars
<1>2. Accounting' /\ NoMissedAlert' /\ SendsUnlocked'
  BY DEF CheckCrack, EndReport, workerVars, IInv, Accounting, NoMissedAlert, SendsUnlocked,
         InHand, Unqueued
<1>3. SentInOrder' /\ SmsCount'
  BY DEF CheckCrack, EndReport, workerVars, IInv, SentInOrder, SmsCount
<1> QED BY <1>1, <1>2, <1>3 DEF IInv

LEMMA InsertAlertIInv ==
    ASSUME IInv, InsertAlert \/ InsertAlertFails
    PROVE  IInv'
<1>0. todo \in Seq(AlertType) /\ todo # <<>> /\ cpc = "check"
  BY DEF InsertAlert, InsertAlertFails, IInv, TypeOK
<1>1. TypeOK'
  <2>1. Tail(todo) \in Seq(AlertType)
    BY <1>0, TailFacts
  <2>2. CASE InsertAlert
    BY <2>1, <2>2 DEF InsertAlert, IInv, TypeOK, workerVars
  <2>3. CASE InsertAlertFails
    BY <2>1, <2>3 DEF InsertAlertFails, IInv, TypeOK, workerVars
  <2> QED BY <2>2, <2>3
<1>2. Accounting'
  <2>1. /\ finished \in Nat /\ lastId \in Nat /\ Len(alert_queue) \in Nat
        /\ finished + InHand + Len(alert_queue) = lastId /\ InHand \in {0, 1}
    BY <1>0, LenProperties DEF IInv, TypeOK, Accounting, InHand, Unqueued
  <2>2. UNCHANGED <<finished, wpc, alert_queue, current>>
    BY DEF InsertAlert, InsertAlertFails, workerVars
  <2>3. CASE InsertAlert
    <3>1. cpc' = "enqueue" /\ lastId' = lastId + 1 /\ saved' = lastId + 1
      BY <2>3 DEF InsertAlert
    <3> QED BY <2>1, <2>2, <3>1 DEF IInv, Accounting, InHand, Unqueued
  <2>4. CASE InsertAlertFails
    <3>1. UNCHANGED <<cpc, lastId, saved>>
      BY <2>4 DEF InsertAlertFails
    <3> QED BY <2>2, <3>1 DEF IInv, Accounting, InHand, Unqueued
  <2> QED BY <2>3, <2>4
<1>3. NoMissedAlert' /\ SendsUnlocked'
  BY <1>0 DEF InsertAlert, InsertAlertFails, workerVars, IInv, NoMissedAlert, SendsUnlocked
<1>4. SentInOrder' /\ SmsCount'
  BY DEF InsertAlert, InsertAlertFails, workerVars, IInv, SentInOrder, SmsCount
<1> QED BY <1>1, <1>2, <1>3, <1>4 DEF IInv

LEMMA EnqueueIInv ==
    ASSUME IInv, Enqueue
    PROVE  IInv'
<1>0. /\ alert_queue \in Seq(Nat) /\ saved \in Nat /\ lastId \in Nat /\ finished \in Nat
      /\ cpc = "enqueue" /\ mutex = "free"
      /\ alert_queue' = Append(alert_queue, saved) /\ cpc' = "notify" /\ saved' = 0
      /\ UNCHANGED <<running, mutex, wpc, current, finished, sms, ws, rest, todo, lastId,
                     reports, spc>>
  BY DEF Enqueue, IInv, TypeOK, workerVars
<1>00. /\ alert_queue' \in Seq(Nat)
       /\ Len(alert_queue) \in Nat
       /\ Len(alert_queue') = Len(alert_queue) + 1
       /\ \A i \in 1..Len(alert_queue) : alert_queue'[i] = alert_queue[i]
       /\ alert_queue'[Len(alert_queue) + 1] = saved
  BY <1>0, AppendFacts
<1>1. TypeOK'
  BY <1>0, <1>00 DEF IInv, TypeOK
<1>2. Accounting'
  <2>1. /\ finished + InHand + Len(alert_queue) + 1 = lastId /\ saved = lastId
        /\ InHand \in {0, 1} /\ InHand' = InHand /\ Unqueued' = 0
        /\ InHand = 1 => current = finished + 1
        /\ \A i \in 1..Len(alert_queue) : alert_queue[i] = finished + InHand + i
    BY <1>0 DEF IInv, Accounting, InHand, Unqueued
  <2>2. \A i \in 1..(Len(alert_queue) + 1) : alert_queue'[i] = finished + InHand + i
    <3> TAKE i \in 1..(Len(alert_queue) + 1)
    <3>1. CASE i \in 1..Len(alert_queue)
      BY <1>00, <2>1, <3>1
    <3>2. CASE i = Len(alert_queue) + 1
      BY <1>0, <1>00, <2>1, <3>2
    <3> QED BY <1>00, <3>1, <3>2
  <2> QED BY <1>0, <1>00, <2>1, <2>2 DEF Accounting
<1>3. NoMissedAlert' /\ SendsUnlocked'
  BY <1>0 DEF IInv, NoMissedAlert, SendsUnlocked
<1>4. SentInOrder' /\ SmsCount'
  BY <1>0 DEF IInv, SentInOrder, SmsCount
<1> QED BY <1>1, <1>2, <1>3, <1>4 DEF IInv

\* Waking the worker, by NotifyOne, StopNotify or for no reason.
LEMMA WakeIInv ==
    ASSUME IInv, NotifyOne \/ StopNotify \/ SpuriousWakeup
    PROVE  IInv'
<1>1. /\ wpc' = wpc \/ (wpc = "blocked" /\ wpc' = "woken")
      /\ wpc = "blocked" => wpc' = "woken"
      /\ UNCHANGED <<running, mutex, alert_queue, current, finished, sms, ws, rest, todo,
                     saved, lastId, reports>>
      /\ cpc' = cpc \/ (cpc = "notify" /\ cpc' = "check")
      /\ spc' \in {spc, "join"}
  BY DEF NotifyOne, StopNotify, SpuriousWakeup, Notify, WorkerUnchanged, callerVars
<1>2. TypeOK'
  BY <1>1 DEF IInv, TypeOK
<1>3. Accounting' /\ NoMissedAlert' /\ SendsUnlocked'
  BY <1>1 DEF IInv, Accounting, NoMissedAlert, SendsUnlocked, InHand, Unqueued
<1>4. SentInOrder' /\ SmsCount'
  BY <1>1 DEF IInv, SentInOrder, SmsCount
<1> QED BY <1>2, <1>3, <1>4 DEF IInv

-----------------------------------------------------------------------------
(* The worker *)

\* Steps that move the worker and the mutex only.
LEMMA MoveIInv ==
    ASSUME IInv,
           \/ Start \/ TestRunning \/ LockQueue \/ EvaluatePredicate \/ Block \/ Drained
           \/ StopStore \/ StopJoin
    PROVE  IInv'
<1>1. UNCHANGED <<alert_queue, current, finished, sms, ws, callerVars>>
  BY DEF Start, TestRunning, LockQueue, EvaluatePredicate, Block, Drained, StopStore, StopJoin,
         WorkerUnchanged, workerVars
<1>2. TypeOK'
  BY <1>1 DEF Start, TestRunning, LockQueue, EvaluatePredicate, Block, Drained, StopStore,
     StopJoin, WorkerUnchanged, workerVars, callerVars, IInv, TypeOK
<1>3. InHand' = InHand /\ Unqueued' = Unqueued /\ (wpc' = "websocket" <=> wpc = "websocket")
  BY <1>1 DEF Start, TestRunning, LockQueue, EvaluatePredicate, Block, Drained, StopStore,
     StopJoin, workerVars, callerVars, InHand, Unqueued
<1>4. Accounting'
  BY <1>1, <1>3 DEF IInv, Accounting, callerVars
<1>5. SendsUnlocked'
  BY DEF Start, TestRunning, LockQueue, EvaluatePredicate, Block, Drained, StopStore,
     StopJoin, workerVars, IInv, TypeOK, SendsUnlocked
<1>6. NoMissedAlert'
  BY <1>1 DEF Start, TestRunning, LockQueue, EvaluatePredicate, Block, Drained, StopStore,
     StopJoin, workerVars, callerVars, IInv, NoMissedAlert
<1>7. SentInOrder' /\ SmsCount'
  BY <1>1, <1>3 DEF IInv, SentInOrder, SmsCount
<1> QED BY <1>2, <1>4, <1>5, <1>6, <1>7 DEF IInv

LEMMA PopAlertIInv ==
    ASSUME IInv, PopAlert
    PROVE  IInv'
<1>0. /\ alert_queue \in Seq(Nat) /\ alert_queue # <<>> /\ lastId \in Nat /\ finished \in Nat
      /\ wpc = "drain" /\ wpc' = "sms" /\ mutex' = "free"
      /\ current' = Head(alert_queue) /\ alert_queue' = Tail(alert_queue)
      /\ UNCHANGED <<running, finished, sms, ws, cpc, rest, todo, saved, lastId, reports,
                     spc>>
  BY DEF PopAlert, IInv, TypeOK, WorkerUnchanged, callerVars
<1>00. /\ current' \in Nat /\ alert_queue' \in Seq(Nat)
       /\ Len(alert_queue) \in Nat /\ Len(alert_queue) >= 1
       /\ Len(alert_queue') = Len(alert_queue) - 1
       /\ \A i \in 1..(Len(alert_queue) - 1) : alert_queue'[i] = alert_queue[i + 1]
       /\ current' = alert_queue[1]
  BY <1>0, TailFacts
<1>1. TypeOK'
  BY <1>0, <1>00 DEF IInv, TypeOK
<1>2. Accounting'
  <2>1. /\ finished + Len(alert_queue) + Unqueued = lastId
        /\ Unqueued \in {0, 1} /\ Unqueued' = Unqueued /\ InHand' = 1
        /\ Unqueued = 1 => saved = lastId
        /\ \A i \in 1..Len(alert_queue) : alert_queue[i] = finished + i
    BY <1>0 DEF IInv, Accounting, InHand, Unqueued
  <2>2. \A i \in 1..(Len(alert_queue) - 1) : alert_queue'[i] = finished + 1 + i
    BY <1>0, <1>00, <2>1
  <2>3. current' = finished + 1
    BY <1>00, <2>1
  <2> QED BY <1>0, <1>00, <2>1, <2>2, <2>3, SMTT(30) DEF Accounting
<1>3. NoMissedAlert' /\ SendsUnlocked'
  BY <1>0 DEF NoMissedAlert, SendsUnlocked
<1>4. SentInOrder' /\ SmsCount'
  BY <1>0 DEF IInv, SentInOrder, SmsCount
<1> QED BY <1>1, <1>2, <1>3, <1>4 DEF IInv

LEMMA SendSmsIInv ==
    ASSUME IInv, SendSms
    PROVE  IInv'
<1>0. /\ wpc = "sms" /\ wpc' = "websocket"
      /\ sms' = IF SmsEnabled THEN Append(sms, current) ELSE sms
      /\ sms \in Seq(Nat) /\ current \in Nat /\ finished \in Nat
      /\ UNCHANGED <<running, mutex, alert_queue, current, finished, ws, cpc, rest, todo,
                     saved, lastId, reports, spc>>
  BY DEF SendSms, IInv, TypeOK, WorkerUnchanged, callerVars
<1>1. TypeOK'
  <2>1. sms' \in Seq(Nat)
    BY <1>0, AppendFacts
  <2> QED BY <1>0, <2>1 DEF IInv, TypeOK
<1>2. Accounting' /\ NoMissedAlert' /\ SendsUnlocked'
  BY <1>0 DEF IInv, Accounting, InHand, Unqueued, NoMissedAlert, SendsUnlocked
<1>3. ASSUME SmsEnabled
      PROVE  sms' = [i \in 1..Len(sms') |-> i] /\ Len(sms') = finished + 1
  <2>1. /\ sms' = Append(sms, current) /\ current = finished + 1 /\ Len(sms) = finished
        /\ sms = [i \in 1..Len(sms) |-> i]
    <3>1. sms' = Append(sms, current)
      BY <1>0, <1>3, Zenon
    <3>2. current = finished + 1
      BY <1>0 DEF IInv, Accounting, InHand
    <3>3. Len(sms) = finished + 0 /\ finished + 0 = finished
      BY <1>0, <1>3 DEF IInv, SmsCount
    <3>4. sms = [i \in 1..Len(sms) |-> i]
      BY <1>3, Zenon DEF IInv, SentInOrder
    <3> QED BY <3>1, <3>2, <3>3, <3>4
  <2>2. /\ sms' \in Seq(Nat) /\ Len(sms') = finished + 1
        /\ \A i \in 1..finished : sms'[i] = sms[i]
        /\ sms'[finished + 1] = finished + 1
    BY <1>0, <2>1, AppendFacts
  <2>3. \A i \in 1..finished : sms[i] = i
    BY <1>0, <2>1
  <2>4. \A i \in 1..(finished + 1) : sms'[i] = i
    BY <1>0, <2>2, <2>3
  <2>5. sms' \in [1..Len(sms') -> Nat]
    BY <2>2, LenProperties
  <2> QED BY <2>2, <2>4, <2>5
<1>4. SentInOrder' /\ SmsCount'
  BY <1>0, <1>3 DEF IInv, SentInOrder, SmsCount
<1> QED BY <1>1, <1>2, <1>4 DEF IInv

LEMMA SendWebsocketIInv ==
    ASSUME IInv, SendWebsocket \/ SendWebsocketThrows
    PROVE  IInv'
<1>0. /\ wpc = "websocket" /\ wpc' = "relock"
      /\ finished' = finished + 1 /\ current' = 0
      /\ ws' \in {ws, Append(ws, current)}
      /\ finished \in Nat /\ current \in Nat /\ ws \in Seq(Nat) /\ lastId \in Nat
      /\ alert_queue \in Seq(Nat)
      /\ UNCHANGED <<running, mutex, alert_queue, sms, cpc, rest, todo, saved, lastId,
                     reports, spc>>
  BY DEF SendWebsocket, SendWebsocketThrows, Finish, IInv, TypeOK, WorkerUnchanged, callerVars
<1>1. TypeOK'
  <2>1. ws' \in Seq(Nat)
    <3>1. ws \in Seq(Nat) /\ current \in Nat
      BY <1>0
    <3>2. Append(ws, current) \in Seq(Nat)
      BY <3>1, AppendFacts
    <3> QED BY <1>0, <3>1, <3>2
  <2> QED BY <1>0, <2>1 DEF IInv, TypeOK
<1>2. current = finished + 1
  BY <1>0 DEF IInv, Accounting, InHand
<1>3. Accounting'
  <2>1. /\ finished + 1 + Len(alert_queue) + Unqueued = lastId
        /\ Unqueued \in {0, 1} /\ Unqueued' = Unqueued /\ InHand' = 0
        /\ Unqueued = 1 => saved = lastId
        /\ \A i \in 1..Len(alert_queue) : alert_queue[i] = finished + 1 + i
    BY <1>0 DEF IInv, Accounting, InHand, Unqueued
  <2>2. Len(alert_queue) \in Nat
    BY <1>0, LenProperties
  <2> QED BY <1>0, <2>1, <2>2 DEF Accounting
<1>4. NoMissedAlert' /\ SendsUnlocked'
  BY <1>0 DEF IInv, NoMissedAlert, SendsUnlocked
<1>5. SmsCount'
  BY <1>0 DEF IInv, SmsCount
<1>6. SentInOrder'
  <2>1. SmsEnabled => sms' = [i \in 1..Len(sms') |-> i] /\ Len(sms') = finished'
    BY <1>0, <1>5 DEF IInv, SentInOrder, SmsCount
  <2>2. /\ Len(ws) \in Nat
        /\ \A i \in 1..Len(ws) : ws[i] \in Nat /\ ws[i] <= finished
        /\ \A i, j \in 1..Len(ws) : i < j => ws[i] < ws[j]
    BY <1>0, LenProperties, ElementOfSeq DEF IInv, SentInOrder
  <2>3. CASE ws' = ws
    <3>1. \A i \in 1..Len(ws') : ws'[i] <= finished'
      BY <1>0, <2>2, <2>3
    <3> QED BY <2>1, <2>2, <2>3, <3>1 DEF SentInOrder
  <2>4. CASE ws' = Append(ws, current)
    <3>1. /\ Len(ws') = Len(ws) + 1
          /\ \A i \in 1..Len(ws) : ws'[i] = ws[i]
          /\ ws'[Len(ws) + 1] = finished + 1
      BY <1>0, <1>2, <2>4, AppendFacts
    <3>2. \A i, j \in 1..Len(ws') : i < j => ws'[i] < ws'[j]
      <4> SUFFICES ASSUME NEW i \in 1..Len(ws'), NEW j \in 1..Len(ws'), i < j
                   PROVE  ws'[i] < ws'[j]
        OBVIOUS
      <4>1. i \in 1..Len(ws)
        BY <2>2, <3>1
      <4>2. CASE j \in 1..Len(ws)
        BY <2>2, <3>1, <4>1, <4>2
      <4>3. CASE j = Len(ws) + 1
        BY <1>0, <2>2, <3>1, <4>1, <4>3
      <4> QED BY <2>2, <3>1, <4>2, <4>3
    <3>3. \A i \in 1..Len(ws') : ws'[i] <= finished'
      BY <1>0, <2>2, <3>1
    <3> QED BY <2>1, <3>2, <3>3 DEF SentInOrder
  <2> QED BY <1>0, <2>3, <2>4
<1> QED BY <1>1, <1>3, <1>4, <1>5, <1>6 DEF IInv

-----------------------------------------------------------------------------

LEMMA NextIInv == IInv /\ [Next]_vars => IInv'
<1> SUFFICES ASSUME IInv, [Next]_vars PROVE IInv'
  OBVIOUS
<1>1. CASE \E r \in Report : BeginReport(r)
  BY <1>1, BeginReportIInv
<1>2. CASE CallerStep
  BY <1>2, CheckCrackIInv, InsertAlertIInv, EnqueueIInv, WakeIInv DEF CallerStep
<1>3. CASE WorkerStep
  BY <1>3, MoveIInv, PopAlertIInv, SendSmsIInv, SendWebsocketIInv DEF WorkerStep
<1>4. CASE Start \/ SpuriousWakeup \/ StopStore \/ StopStep
  BY <1>4, MoveIInv, WakeIInv DEF StopStep
<1>5. CASE UNCHANGED vars
  <2>1. TypeOK'
    BY <1>5 DEF vars, workerVars, callerVars, IInv, TypeOK
  <2>2. Accounting' /\ NoMissedAlert' /\ SendsUnlocked'
    BY <1>5 DEF vars, workerVars, callerVars, IInv, Accounting, NoMissedAlert, SendsUnlocked,
       InHand, Unqueued
  <2>3. SentInOrder' /\ SmsCount'
    BY <1>5 DEF vars, workerVars, IInv, SentInOrder, SmsCount
  <2> QED BY <2>1, <2>2, <2>3 DEF IInv
<1> QED BY <1>1, <1>2, <1>3, <1>4, <1>5 DEF Next

(* The inductive invariant holds in every reachable state.                 *)
THEOREM Invariance == Spec => []IInv
  BY InitIInv, NextIInv, PTL DEF Spec

(* The variables of AlertManager keep their types.                         *)
THEOREM TypeCorrect == Spec => []TypeOK
<1>1. IInv => TypeOK
  BY DEF IInv
<1> QED BY <1>1, Invariance, PTL

(* Every stored alert is in exactly one place on its way to be sent        *)
(* (alert_manager.cpp l.44-50, 199-222), however many there are.           *)
THEOREM EveryAlertAccounted == Spec => []Accounting
<1>1. IInv => Accounting
  BY DEF IInv
<1> QED BY <1>1, Invariance, PTL

(* Alerts are sent once each and in order (l.204-219).                     *)
THEOREM AlertsSentInOrder == Spec => []SentInOrder
<1>1. IInv => SentInOrder
  BY DEF IInv
<1> QED BY <1>1, Invariance, PTL

(* No enqueue falls between the worker's test and its wait (l.46-49,       *)
(* 196-197), so the worker never sleeps through an alert.                  *)
THEOREM NoAlertMissed == Spec => []NoMissedAlert
<1>1. IInv => NoMissedAlert
  BY DEF IInv
<1> QED BY <1>1, Invariance, PTL

(* The mutex is never held while an alert is being sent (l.202, 220).      *)
THEOREM SendsAreUnlocked == Spec => []SendsUnlocked
<1>1. IInv => SendsUnlocked
  BY DEF IInv
<1> QED BY <1>1, Invariance, PTL

=============================================================================
