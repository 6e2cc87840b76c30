---------------------------- MODULE AlertManager ----------------------------
(***************************************************************************)
(* backend/src/alert_manager.cpp: reports are checked against thresholds   *)
(* by the thread of AlertWsModule (the caller), each exceedance is stored  *)
(* in the alerts table and, if that succeeded, queued for a worker thread  *)
(* that sends it out.  The queue is protected by a mutex and signalled by  *)
(* a condition variable; stop() is called once the caller has been joined. *)
(***************************************************************************)
EXTENDS Integers, Sequences

CONSTANTS
    Report,             \* what the caller may be given to check
    DepthThreshold,     \* depth_threshold_
    WidthThreshold,     \* width_threshold_
    SmsEnabled,         \* sms_enabled_
    WebsocketEnabled,   \* websocket_enabled_
    MaxReports          \* bound: reports checked in a run

ASSUME ThresholdAssumption == DepthThreshold \in Nat /\ WidthThreshold \in Nat
ASSUME EnabledAssumption == SmsEnabled \in BOOLEAN /\ WebsocketEnabled \in BOOLEAN

VARIABLES
    running,            \* running_
    mutex,              \* holder of queue_mutex_
    alert_queue,        \* alert_queue_, alerts by the id of their row
    wpc,                \* the worker, in process_alerts
    current,            \* alert: the one popped last, 0 if none
    cpc,                \* the caller, in one of the check_* functions
    rest,               \* cracks of the report still to be checked
    todo,               \* alerts found and not yet stored
    saved,              \* saved_alert.id
    spc,                \* the thread that calls stop()
    lastId,             \* rows in the alerts table
    reports,            \* reports begun
    finished,           \* history: how many alerts the worker is done with
    sms,                \* history: ids sent by send_sms
    ws                  \* history: ids sent by send_websocket

workerVars == <<wpc, current, finished, sms, ws>>
callerVars == <<cpc, rest, todo, saved, lastId, reports>>
vars == <<running, mutex, alert_queue, workerVars, callerVars, spc>>

AlertType == {"CRACK_DEPTH_EXCEEDED", "CRACK_WIDTH_EXCEEDED",
              "VIBRATION_ANOMALY", "CRACK_PROPAGATION_RISK"}

\* check_vibration_data's constants, in units of 1.0e-7 m/s2.
VIBRATION_RMS_THRESHOLD == 10
VIBRATION_PEAK_THRESHOLD == 50

Init ==
    /\ running = FALSE
    /\ mutex = "free"
    /\ alert_queue = <<>>
    /\ wpc = "none"
    /\ current = 0
    /\ cpc = "idle"
    /\ rest = <<>>
    /\ todo = <<>>
    /\ saved = 0
    /\ spc = "idle"
    /\ lastId = 0
    /\ reports = 0
    /\ finished = 0
    /\ sms = <<>>
    /\ ws = <<>>

\* start(): the worker thread begins its loop.
Start ==
    /\ wpc = "none"
    /\ running' = TRUE
    /\ wpc' = "test"
    /\ UNCHANGED <<mutex, alert_queue, current, finished, sms, ws, callerVars, spc>>

-----------------------------------------------------------------------------
(* The caller *)

CheckCrackThresholds(crack) ==
    (IF crack.max_depth > DepthThreshold THEN <<"CRACK_DEPTH_EXCEEDED">> ELSE <<>>)
    \o (IF crack.max_width > WidthThreshold THEN <<"CRACK_WIDTH_EXCEEDED">> ELSE <<>>)

CheckVibration(r) ==
    IF r.rms_value > VIBRATION_RMS_THRESHOLD \/ r.peak_value > VIBRATION_PEAK_THRESHOLD
    THEN <<"VIBRATION_ANOMALY">> ELSE <<>>

CheckPrediction(r) ==
    IF r.risk_level \in {"HIGH", "CRITICAL"} THEN <<"CRACK_PROPAGATION_RISK">> ELSE <<>>

\* check_laser_data, check_vibration_data or check_prediction is entered.
BeginReport(r) ==
    /\ wpc # "none"
    /\ spc = "idle"
    /\ cpc = "idle"
    /\ reports < MaxReports
    /\ reports' = reports + 1
    /\ cpc' = "check"
    /\ \/ /\ r.kind = "laser"
          /\ rest' = IF r.crack_detected THEN r.cracks ELSE <<>>
          /\ todo' = <<>>
       \/ /\ r.kind = "vibration"
          /\ rest' = <<>>
          /\ todo' = CheckVibration(r)
       \/ /\ r.kind = "prediction"
          /\ rest' = <<>>
          /\ todo' = CheckPrediction(r)
    /\ UNCHANGED <<running, mutex, alert_queue, workerVars, saved, lastId, spc>>

\* The next crack of a laser report.
CheckCrack ==
    /\ cpc = "check"
    /\ todo = <<>>
    /\ rest # <<>>
    /\ todo' = CheckCrackThresholds(Head(rest))
    /\ rest' = Tail(rest)
    /\ UNCHANGED <<running, mutex, alert_queue, workerVars, cpc, saved, lastId,
                   reports, spc>>

EndReport ==
    /\ cpc = "check"
    /\ todo = <<>>
    /\ rest = <<>>
    /\ cpc' = "idle"
    /\ UNCHANGED <<running, mutex, alert_queue, workerVars, rest, todo, saved, lastId,
                   reports, spc>>

\* insert_alert returns the id of the new row
InsertAlert ==
    /\ cpc = "check"
    /\ todo # <<>>
    /\ todo' = Tail(todo)
    /\ lastId' = lastId + 1
    /\ saved' = lastId + 1
    /\ cpc' = "enqueue"
    /\ UNCHANGED <<running, mutex, alert_queue, workerVars, rest, reports, spc>>

\* ... or -1: no connection, or a foreign key that no row matches.  The
\* alert is not queued.
InsertAlertFails ==
    /\ cpc = "check"
    /\ todo # <<>>
    /\ todo' = Tail(todo)
    /\ UNCHANGED <<running, mutex, alert_queue, workerVars, cpc, rest, saved, lastId,
                   reports, spc>>

\* Mutant: the push does not take queue_mutex_.
EnqueueUnlocked ==
    /\ cpc = "enqueue"
    /\ alert_queue' = Append(alert_queue, saved)
    /\ saved' = 0
    /\ cpc' = "notify"
    /\ UNCHANGED <<running, mutex, workerVars, rest, todo, lastId, reports, spc>>

\* enqueue_alert: lock, push, unlock
Enqueue ==
    /\ cpc = "enqueue"
    /\ mutex = "free"
    /\ alert_queue' = Append(alert_queue, saved)
    /\ saved' = 0
    /\ cpc' = "notify"
    /\ UNCHANGED <<running, mutex, workerVars, rest, todo, lastId, reports, spc>>

\* cv_.notify_one() and notify_all(): there is one waiter
Notify == wpc' = IF wpc = "blocked" THEN "woken" ELSE wpc

\* Mutant: cv_.notify_one() is forgotten.
NotifyNobody ==
    /\ cpc = "notify"
    /\ wpc' = wpc
    /\ cpc' = "check"
    /\ UNCHANGED <<running, mutex, alert_queue, current, finished, sms, ws, rest, todo,
                   saved, lastId, reports, spc>>

NotifyOne ==
    /\ cpc = "notify"
    /\ Notify
    /\ cpc' = "check"
    /\ UNCHANGED <<running, mutex, alert_queue, current, finished, sms, ws, rest, todo,
                   saved, lastId, reports, spc>>

-----------------------------------------------------------------------------
(* The worker: process_alerts *)

WorkerUnchanged == UNCHANGED <<running, callerVars, spc>>

\* while (running_)
TestRunning ==
    /\ wpc = "test"
    /\ wpc' = IF running THEN "lock" ELSE "exited"
    /\ UNCHANGED <<mutex, alert_queue, current, finished, sms, ws>> /\ WorkerUnchanged

\* The lock of the loop body, of a wait that returns, or after a send.
LockQueue ==
    /\ wpc \in {"lock", "woken", "relock"}
    /\ mutex = "free"
    /\ mutex' = "worker"
    /\ wpc' = IF wpc = "relock" THEN "drain" ELSE "predicate"
    /\ UNCHANGED <<alert_queue, current, finished, sms, ws>> /\ WorkerUnchanged

\* cv_.wait evaluates its predicate, with the mutex held,
EvaluatePredicate ==
    /\ wpc = "predicate"
    /\ wpc' = IF alert_queue # <<>> \/ ~running THEN "drain" ELSE "block"
    /\ UNCHANGED <<mutex, alert_queue, current, finished, sms, ws>> /\ WorkerUnchanged

\* ... and then releases it and blocks in one step.
Block ==
    /\ wpc = "block"
    /\ mutex' = "free"
    /\ wpc' = "blocked"
    /\ UNCHANGED <<alert_queue, current, finished, sms, ws>> /\ WorkerUnchanged

SpuriousWakeup ==
    /\ wpc = "blocked"
    /\ wpc' = "woken"
    /\ UNCHANGED <<mutex, alert_queue, current, finished, sms, ws>> /\ WorkerUnchanged

\* Mutant: the newest alert is popped first.
PopAlertLast ==
    /\ wpc = "drain"
    /\ alert_queue # <<>>
    /\ current' = alert_queue[Len(alert_queue)]
    /\ alert_queue' = SubSeq(alert_queue, 1, Len(alert_queue) - 1)
    /\ mutex' = "free"
    /\ wpc' = "sms"
    /\ UNCHANGED <<finished, sms, ws>> /\ WorkerUnchanged

\* Mutant: front() without pop().
PopAlertKeeps ==
    /\ wpc = "drain"
    /\ alert_queue # <<>>
    /\ current' = Head(alert_queue)
    /\ alert_queue' = alert_queue
    /\ mutex' = "free"
    /\ wpc' = "sms"
    /\ UNCHANGED <<finished, sms, ws>> /\ WorkerUnchanged

\* while (!alert_queue_.empty()): pop one and unlock
PopAlert ==
    /\ wpc = "drain"
    /\ alert_queue # <<>>
    /\ current' = Head(alert_queue)
    /\ alert_queue' = Tail(alert_queue)
    /\ mutex' = "free"
    /\ wpc' = "sms"
    /\ UNCHANGED <<finished, sms, ws>> /\ WorkerUnchanged

\* The queue is empty: the lock goes out of scope.
Drained ==
    /\ wpc = "drain"
    /\ alert_queue = <<>>
    /\ mutex' = "free"
    /\ wpc' = "test"
    /\ UNCHANGED <<alert_queue, current, finished, sms, ws>> /\ WorkerUnchanged

SendSms ==
    /\ wpc = "sms"
    /\ sms' = IF SmsEnabled THEN Append(sms, current) ELSE sms
    /\ wpc' = "websocket"
    /\ UNCHANGED <<mutex, alert_queue, current, finished, ws>> /\ WorkerUnchanged

\* The alert leaves the worker's hands.
Finish ==
    /\ finished' = finished + 1
    /\ current' = 0
    /\ wpc' = "relock"

SendWebsocket ==
    /\ wpc = "websocket"
    /\ ws' = IF WebsocketEnabled THEN Append(ws, current) ELSE ws
    /\ Finish
    /\ UNCHANGED <<mutex, alert_queue, sms>> /\ WorkerUnchanged

\* The broadcast throws: the handler logs it and goes on.
SendWebsocketThrows ==
    /\ wpc = "websocket"
    /\ WebsocketEnabled
    /\ Finish
    /\ UNCHANGED <<mutex, alert_queue, sms, ws>> /\ WorkerUnchanged

-----------------------------------------------------------------------------
(* stop(), after AlertWsModule::stop has joined the caller *)

\* running_ = false
StopStore ==
    /\ wpc # "none"
    /\ spc = "idle"
    /\ cpc = "idle"
    /\ running' = FALSE
    /\ spc' = "notify"
    /\ UNCHANGED <<mutex, alert_queue, workerVars, callerVars>>

\* Mutant: cv_.notify_all() is forgotten.
StopNotifyNobody ==
    /\ spc = "notify"
    /\ wpc' = wpc
    /\ spc' = "join"
    /\ UNCHANGED <<running, mutex, alert_queue, current, finished, sms, ws, callerVars>>

\* cv_.notify_all(), without the mutex
StopNotify ==
    /\ spc = "notify"
    /\ Notify
    /\ spc' = "join"
    /\ UNCHANGED <<running, mutex, alert_queue, current, finished, sms, ws, callerVars>>

\* worker_thread_.join()
StopJoin ==
    /\ spc = "join"
    /\ wpc = "exited"
    /\ spc' = "done"
    /\ UNCHANGED <<running, mutex, alert_queue, workerVars, callerVars>>

CallerStep == CheckCrack \/ EndReport \/ InsertAlert \/ InsertAlertFails \/ Enqueue \/ NotifyOne
WorkerStep ==
    TestRunning \/ LockQueue \/ EvaluatePredicate \/ Block \/ PopAlert \/ Drained
    \/ SendSms \/ SendWebsocket \/ SendWebsocketThrows
StopStep == StopNotify \/ StopJoin

Next ==
    \/ Start
    \/ \E r \in Report : BeginReport(r)
    \/ CallerStep
    \/ WorkerStep
    \/ SpuriousWakeup
    \/ StopStore
    \/ StopStep

Spec == Init /\ [][Next]_vars

(* Threads that can run are scheduled, and a thread that finds the mutex   *)
(* free again and again gets it in the end.  Spurious wakeups may never    *)
(* come, and nobody is forced to report anything or to stop.               *)
FairSpec ==
    /\ Spec
    /\ WF_vars(CallerStep) /\ SF_vars(Enqueue)
    /\ WF_vars(WorkerStep)
    /\ WF_vars(StopStep)

-----------------------------------------------------------------------------
(* Properties *)

TypeOK ==
    /\ running \in BOOLEAN
    /\ mutex \in {"free", "worker"}
    /\ alert_queue \in Seq(Nat)
    /\ wpc \in {"none", "test", "lock", "predicate", "block", "blocked", "woken", "drain",
                "sms", "websocket", "relock", "exited"}
    /\ current \in Nat
    /\ cpc \in {"idle", "check", "enqueue", "notify"}
    /\ todo \in Seq(AlertType)
    /\ saved \in Nat
    /\ spc \in {"idle", "notify", "join", "done"}
    /\ lastId \in Nat
    /\ reports \in Nat
    /\ finished \in Nat
    /\ sms \in Seq(Nat)
    /\ ws \in Seq(Nat)

InHand == IF wpc \in {"sms", "websocket"} THEN 1 ELSE 0
Unqueued == IF cpc = "enqueue" THEN 1 ELSE 0

(* Every stored alert is in exactly one place on its way: sent, in the     *)
(* worker's hands, in the queue or about to be pushed; and they keep the   *)
(* order in which they were stored (alert_manager.cpp l.44-50, 199-222).   *)
Accounting ==
    /\ finished + InHand + Len(alert_queue) + Unqueued = lastId
    /\ InHand = 1 => current = finished + 1
    /\ \A i \in 1..Len(alert_queue) : alert_queue[i] = finished + InHand + i
    /\ Unqueued = 1 => saved = lastId

(* The worker sends each alert once, in the order in which they were       *)
(* stored, and a broadcast that throws costs that alert only its own       *)
(* broadcast (l.204-219).                                                  *)
SentInOrder ==
    /\ SmsEnabled => sms = [i \in 1..Len(sms) |-> i] /\ Len(sms) \in {finished, finished + 1}
    /\ \A i, j \in 1..Len(ws) : i < j => ws[i] < ws[j]
    /\ \A i \in 1..Len(ws) : ws[i] <= finished

(* A worker asleep while alerts are queued is about to be woken: the push  *)
(* and the test of the predicate exclude each other, so no enqueue falls   *)
(* between the test and the wait (l.46-49, 196-197).                       *)
NoMissedAlert ==
    wpc \in {"block", "blocked"} /\ alert_queue # <<>> => wpc = "blocked" /\ cpc = "notify"

(* Slow sends do not hold up the caller: the mutex is released while the   *)
(* worker sends, so whoever reports an alert only waits for steps of the   *)
(* queue (l.202, 220).                                                     *)
SendsUnlocked == mutex = "worker" <=> wpc \in {"predicate", "block", "drain"}

\* How many alerts send_sms has been called for.
SmsCount == SmsEnabled => Len(sms) = finished + (IF wpc = "websocket" THEN 1 ELSE 0)

(* The inductive invariant behind the four.                                *)
IInv == TypeOK /\ Accounting /\ SentInOrder /\ NoMissedAlert /\ SendsUnlocked /\ SmsCount

(* As long as nobody stops the server, a stored alert gets sent.           *)
StoredIsSent ==
    \A n \in 1..(2 * MaxReports) : lastId >= n ~> finished >= n \/ spc # "idle"

(* main.cpp l.238 "Press Ctrl+C to stop...": stop() returns, unless it is  *)
(* called while the worker is between the test of its predicate and its    *)
(* wait: running_ is cleared without queue_mutex_ (l.37-38), and that      *)
(* notification wakes nobody.                                              *)
StopReturns == spc = "notify" /\ wpc # "block" ~> spc = "done"

=============================================================================
