---------------------------- MODULE SensorClient ----------------------------
(***************************************************************************)
(* simulator/main.cpp l.77-205: a sensor keeps a TCP connection to the     *)
(* server, sends a packet every interval, drops the connection now and     *)
(* then on purpose, and connects again after a failure, at most            *)
(* max_reconnect_attempts_ times in a row.  main() runs the io context on  *)
(* four threads without a strand, so the completion handlers of one client *)
(* may run at the same time; a handler is several steps, one for each      *)
(* access to a member it shares with the others.                           *)
(* Nobody calls stop(), so running_ is true throughout.                    *)
(***************************************************************************)
EXTENDS Naturals, FiniteSets

CONSTANTS
    Worker,         \* threads that run the io context
    MaxReconnect,   \* max_reconnect_attempts_
    MaxWrites       \* bound: writes under way at the same time

ASSUME SensorAssumption == MaxReconnect \in Nat \ {0} /\ MaxWrites \in Nat \ {0}

\* Completion handlers.  Those of a timer that was cancelled, and of a write
\* that succeeded, do nothing and are left out.
Completion == {"send", "writeErr", "disconnect", "reconnect", "connectOk", "connectErr"}

VARIABLES
    sock,           \* socket_: "closed", "connecting", "open", "broken" (by the peer)
    pending,        \* async_writes that are not complete
    connected,      \* connected_
    count,          \* reconnect_count_
    sendTimer,      \* timer_, reconnect_timer_, disconnect_sim_timer_: a wait is pending
    reconnectTimer,
    disconnectTimer,
    ready,          \* how many completions of each kind are waiting for a thread
    step            \* what each thread does next; "run" between handlers

socketVars == <<sock, pending>>
timerVars == <<sendTimer, reconnectTimer, disconnectTimer>>
sensorVars == <<socketVars, connected, count, timerVars, ready, step>>

\* start() has called connect().
SensorInit ==
    /\ sock = "connecting"
    /\ pending = 0
    /\ connected = FALSE
    /\ count = 0
    /\ sendTimer = FALSE
    /\ reconnectTimer = FALSE
    /\ disconnectTimer = FALSE
    /\ ready = [k \in Completion |-> 0]
    /\ step = [t \in Worker |-> "run"]

Go(t, label) == step' = [step EXCEPT ![t] = label]

-----------------------------------------------------------------------------
(* The network and the clock *)

Post(k, n) == ready' = [ready EXCEPT ![k] = @ + n]

ConnectSucceeds ==
    /\ sock = "connecting"
    /\ sock' = "open"
    /\ Post("connectOk", 1)
    /\ UNCHANGED <<pending, connected, count, timerVars, step>>

ConnectFails ==
    /\ sock = "connecting"
    /\ sock' = "closed"
    /\ Post("connectErr", 1)
    /\ UNCHANGED <<pending, connected, count, timerVars, step>>

\* The server closes the connection.
Break ==
    /\ sock = "open"
    /\ sock' = "broken"
    /\ UNCHANGED <<pending, connected, count, timerVars, ready, step>>

WriteDone ==
    /\ sock = "open"
    /\ pending > 0
    /\ pending' = pending - 1
    /\ UNCHANGED <<sock, connected, count, timerVars, ready, step>>

WriteFails ==
    /\ sock = "broken"
    /\ pending > 0
    /\ pending' = pending - 1
    /\ Post("writeErr", 1)
    /\ UNCHANGED <<sock, connected, count, timerVars, step>>

\* Delays are seconds and more (l.52, 134, 149), and no handler waits or works so
\* long: a timer that is set while handlers run goes off after they have ended.
\* Different timers, and what happens on the network, may still coincide: a
\* completion waits for a thread while other things happen.
GoesOff(k) ==
    /\ \A t \in Worker : step[t] = "run"
    /\ \A l \in {k, "writeErr", "connectErr", "connectOk"} : ready[l] = 0

\* A send is due once earlier writes have come to an end.
SendDue ==
    /\ sendTimer
    /\ GoesOff("send")
    /\ pending + ready["writeErr"] < MaxWrites
    /\ sendTimer' = FALSE
    /\ Post("send", 1)
    /\ UNCHANGED <<socketVars, connected, count, reconnectTimer, disconnectTimer, step>>

ReconnectDue ==
    /\ reconnectTimer
    /\ GoesOff("reconnect")
    /\ reconnectTimer' = FALSE
    /\ Post("reconnect", 1)
    /\ UNCHANGED <<socketVars, connected, count, sendTimer, disconnectTimer, step>>

DisconnectDue ==
    /\ disconnectTimer
    /\ GoesOff("disconnect")
    /\ disconnectTimer' = FALSE
    /\ Post("disconnect", 1)
    /\ UNCHANGED <<socketVars, connected, count, sendTimer, reconnectTimer, step>>

-----------------------------------------------------------------------------
(* Handlers *)

FirstStep == [send |-> "send", writeErr |-> "lost", connectErr |-> "lost",
              disconnect |-> "drop", reconnect |-> "close", connectOk |-> "up"]

TakeCompletion(t, k) ==
    /\ step[t] = "run"
    /\ ready[k] > 0
    /\ ready' = [ready EXCEPT ![k] = @ - 1]
    /\ Go(t, FirstStep[k])
    /\ UNCHANGED <<socketVars, connected, count, timerVars>>

\* socket_.close(): what is under way on it fails.
Close ==
    /\ sock' = "closed"
    /\ pending' = 0
    /\ ready' = [ready EXCEPT !["writeErr"] = @ + pending,
                              !["connectErr"] = @ + IF sock = "connecting" THEN 1 ELSE 0]

\* send_data
SendData(t) ==
    /\ step[t] = "send"
    /\ IF sock \in {"open", "broken"}
       THEN pending' = pending + 1 /\ UNCHANGED ready
       ELSE Post("writeErr", 1) /\ UNCHANGED pending
    /\ Go(t, "next")
    /\ UNCHANGED <<sock, connected, count, timerVars>>

\* schedule_next_send
ScheduleNextSend(t) ==
    /\ step[t] = "next"
    /\ sendTimer' = TRUE
    /\ Go(t, "run")
    /\ UNCHANGED <<socketVars, connected, count, reconnectTimer, disconnectTimer, ready>>

\* Mutant: a failed write is not followed by a reconnect.
LostOnly(t) ==
    /\ step[t] = "lost"
    /\ connected' = FALSE
    /\ Go(t, "run")
    /\ UNCHANGED <<socketVars, count, timerVars, ready>>

\* a write or a connect failed
Lost(t) ==
    /\ step[t] = "lost"
    /\ connected' = FALSE
    /\ Go(t, "test")
    /\ UNCHANGED <<socketVars, count, timerVars, ready>>

\* schedule_reconnect: the attempts are used up
GiveUp(t) ==
    /\ step[t] = "test"
    /\ count >= MaxReconnect
    /\ Go(t, "run")
    /\ UNCHANGED <<socketVars, connected, count, timerVars, ready>>

\* ... or not: reconnect_count_++ and a new wait in place of a pending one
TestCount(t) ==
    /\ step[t] = "test"
    /\ count < MaxReconnect
    /\ Go(t, "arm")
    /\ UNCHANGED <<socketVars, connected, count, timerVars, ready>>

ArmReconnect(t) ==
    /\ step[t] = "arm"
    /\ count' = count + 1
    /\ reconnectTimer' = TRUE
    /\ Go(t, "run")
    /\ UNCHANGED <<socketVars, connected, sendTimer, disconnectTimer, ready>>

\* schedule_random_disconnect's handler
Disconnect(t) ==
    /\ step[t] = "drop"
    /\ connected' = FALSE
    /\ Go(t, IF connected THEN "dropClose" ELSE "run")
    /\ UNCHANGED <<socketVars, count, timerVars, ready>>

DisconnectClose(t) ==
    /\ step[t] = "dropClose"
    /\ Close
    /\ Go(t, "dropCancel")
    /\ UNCHANGED <<connected, count, timerVars>>

\* Mutant: the connection is dropped for good.
DisconnectCancelEnds(t) ==
    /\ step[t] = "dropCancel"
    /\ sendTimer' = FALSE
    /\ Go(t, "run")
    /\ UNCHANGED <<socketVars, connected, count, reconnectTimer, disconnectTimer, ready>>

DisconnectCancel(t) ==
    /\ step[t] = "dropCancel"
    /\ sendTimer' = FALSE
    /\ Go(t, "test")
    /\ UNCHANGED <<socketVars, connected, count, reconnectTimer, disconnectTimer, ready>>

\* schedule_reconnect's handler
ReconnectClose(t) ==
    /\ step[t] = "close"
    /\ Close
    /\ Go(t, "connect")
    /\ UNCHANGED <<connected, count, timerVars>>

\* connect(); it fails at once if another handler is connecting the socket
Connect(t) ==
    /\ step[t] = "connect"
    /\ IF sock = "closed"
       THEN sock' = "connecting" /\ UNCHANGED ready
       ELSE Post("connectErr", 1) /\ UNCHANGED sock
    /\ Go(t, "run")
    /\ UNCHANGED <<pending, connected, count, timerVars>>

\* connect's handler
Up(t) ==
    /\ step[t] = "up"
    /\ connected' = TRUE
    /\ Go(t, "reset")
    /\ UNCHANGED <<socketVars, count, timerVars, ready>>

Reset(t) ==
    /\ step[t] = "reset"
    /\ count' = 0
    /\ Go(t, "startSending")
    /\ UNCHANGED <<socketVars, connected, timerVars, ready>>

\* start_sending: a new timer, which cancels what waits for the old one
StartSending(t) ==
    /\ step[t] = "startSending"
    /\ sendTimer' = TRUE
    /\ Go(t, "scheduleDisconnect")
    /\ UNCHANGED <<socketVars, connected, count, reconnectTimer, disconnectTimer, ready>>

\* schedule_random_disconnect
ScheduleDisconnect(t) ==
    /\ step[t] = "scheduleDisconnect"
    /\ disconnectTimer' = TRUE
    /\ Go(t, "run")
    /\ UNCHANGED <<socketVars, connected, count, sendTimer, reconnectTimer, ready>>

CompletionStep(t) ==
    \/ SendData(t) \/ ScheduleNextSend(t)
    \/ Lost(t) \/ GiveUp(t) \/ TestCount(t) \/ ArmReconnect(t)
    \/ Disconnect(t) \/ DisconnectClose(t) \/ DisconnectCancel(t)
    \/ ReconnectClose(t) \/ Connect(t)
    \/ Up(t) \/ Reset(t) \/ StartSending(t) \/ ScheduleDisconnect(t)

NetworkAnswers == ConnectSucceeds \/ ConnectFails

SensorNext ==
    \/ NetworkAnswers \/ Break \/ WriteDone \/ WriteFails
    \/ SendDue \/ ReconnectDue \/ DisconnectDue
    \/ \E t \in Worker : CompletionStep(t) \/ \E k \in Completion : TakeCompletion(t, k)

SensorSpec == SensorInit /\ [][SensorNext]_sensorVars

(* Threads are scheduled, completions are taken in the order they come, a  *)
(* connect or a write on a broken connection comes to an end, and timers   *)
(* go off.  Nothing says that a connect succeeds.                          *)
SensorFairSpec ==
    /\ SensorSpec
    /\ WF_sensorVars(NetworkAnswers) /\ WF_sensorVars(WriteFails)
    /\ WF_sensorVars(SendDue) /\ WF_sensorVars(ReconnectDue)
    /\ \A t \in Worker : WF_sensorVars(CompletionStep(t))
    /\ \A k \in Completion \ {"disconnect"} :
        SF_sensorVars(\E t \in Worker : TakeCompletion(t, k))

-----------------------------------------------------------------------------
(* Properties *)

SensorTypeOK ==
    /\ sock \in {"closed", "connecting", "open", "broken"}
    /\ pending \in Nat
    /\ connected \in BOOLEAN
    /\ count \in Nat
    /\ sendTimer \in BOOLEAN /\ reconnectTimer \in BOOLEAN /\ disconnectTimer \in BOOLEAN
    /\ ready \in [Completion -> Nat]
    /\ step \in [Worker -> {"run", "send", "next", "lost", "test", "arm", "drop", "dropClose",
                            "dropCancel", "close", "connect", "up", "reset",
                            "startSending", "scheduleDisconnect"}]

\* A handler other than that of the deliberate disconnect is waiting or at work.
HandlerDue ==
    \/ \E k \in Completion \ {"disconnect"} : ready[k] > 0
    \/ \E t \in Worker : step[t] \notin {"run", "drop"}

(* However the handlers of sends, failed writes, deliberate disconnects    *)
(* and reconnects overlap, a sensor is never left idle: without a          *)
(* connection something is under way that will bring it back, unless its   *)
(* attempts are used up, and over an open one packets go on being sent, or *)
(* it is about to be made anew.                                            *)
NeverStuck ==
    \/ sendTimer \/ reconnectTimer \/ HandlerDue
    \/ sock \in {"closed", "broken"} /\ count >= MaxReconnect
    \/ sock = "connecting"

(* A sensor that has lost its connection gets another one or has used up   *)
(* its attempts.                                                           *)
Reconnects == sock \in {"closed", "broken"} ~> sock = "open" \/ count >= MaxReconnect

-----------------------------------------------------------------------------
(* The inductive invariant *)

\* A handler that waits or works will do more than schedule the next deliberate
\* disconnect: what it does last keeps the sensor going.
StepDue ==
    \/ \E k \in Completion \ {"disconnect"} : ready[k] > 0
    \/ \E t \in Worker : step[t] \notin {"run", "drop", "scheduleDisconnect"}

KeepsGoing ==
    \/ sendTimer \/ reconnectTimer \/ StepDue
    \/ sock \in {"closed", "broken"} /\ count >= MaxReconnect
    \/ sock = "connecting"

\* connect's handler will set reconnect_count_ to zero; the socket will be closed
\* by the handler of schedule_reconnect.
ResetDue == ready["connectOk"] > 0 \/ \E t \in Worker : step[t] \in {"up", "reset"}
CloseDue == reconnectTimer \/ ready["reconnect"] > 0 \/ \E t \in Worker : step[t] = "close"

\* Attempts that look used up while the connection stands will not stay so.
OpenIsCounted == sock = "open" /\ count >= MaxReconnect => ResetDue \/ CloseDue

SensorIInv == SensorTypeOK /\ KeepsGoing /\ OpenIsCounted

=============================================================================
