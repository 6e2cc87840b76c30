------------------------------ MODULE Pipeline ------------------------------
(***************************************************************************)
(* The modules of the server and the queues between them, as MonitorServer *)
(* wires, starts and stops them (backend/src/main.cpp, module_base.h and   *)
(* backend/include/modules/).  Every module is a thread that polls its     *)
(* input queue; the frames come from callbacks on the io threads.  The     *)
(* queues are the atomic queues that LockFreeQueue implements.             *)
(***************************************************************************)
EXTENDS Naturals, Sequences, FiniteSets

CONSTANTS
    LaserFrame,       \* laser frames the plant may send
    VibrationFrame,   \* vibration frames
    Cracks,           \* how many cracks each laser frame reports
    Unwired,          \* modules whose set_input was not called
    MayThrow,         \* modules whose process() may throw
    NotUtf8,          \* frames whose payload dump() refuses
    PoolSize          \* connections in the database pool

ASSUME FrameAssumption == LaserFrame \intersect VibrationFrame = {}
ASSUME CracksAssumption == Cracks \in [LaserFrame -> Nat]
ASSUME PoolAssumption == PoolSize \in Nat

Frame == LaserFrame \union VibrationFrame

\* The threads derived from ModuleBase; AlertWsModule has its own loop.
Stage == {"LaserFanOut", "CrackRouter", "CrackFanOut", "FatiguePredictor", "DemSimulator"}
Module == Stage \union {"AlertWs"}

Queue == {"laser_in", "laser_q_alert", "laser_q_router", "crack_in", "crack_q_fatigue",
          "crack_q_dem", "prediction_q", "dem_q", "vibration_q"}

\* wire_pipeline: the input of each module
Input == [m \in Stage |->
    CASE m = "LaserFanOut" -> "laser_in"
      [] m = "CrackRouter" -> "laser_q_router"
      [] m = "CrackFanOut" -> "crack_in"
      [] m = "FatiguePredictor" -> "crack_q_fatigue"
      [] m = "DemSimulator" -> "crack_q_dem"]

\* AlertWsModule::start tries its inputs in this order.
AlertInput == <<"laser_q_alert", "vibration_q", "prediction_q", "dem_q">>

\* MonitorServer::stop stops and joins the modules in this order.
StopOrder == <<"LaserFanOut", "CrackRouter", "CrackFanOut", "FatiguePredictor",
               "DemSimulator", "AlertWs">>

VARIABLES
    queue,        \* contents of every queue
    running,      \* running_ of each module
    pc,           \* where each module's thread is
    hand,         \* the message a module is processing
    emitted,      \* how many of its outputs it has pushed
    trying,       \* which of its inputs AlertWsModule tries next
    accepted,     \* frames whose callback has run, in that order
    handled,      \* <<queue, message>> in the order AlertWsModule took them up
    abandoned,    \* outputs given up because process() threw
    mpc,          \* the main thread: "init", "up"; in stop() "stop" and "join" for each
                  \* module, then "alerts", "missed" or "threads", and "stopped"
    stopping,     \* index in StopOrder of the module being stopped
    crashed       \* the process has died

threadVars == <<running, pc, hand, emitted, trying>>
vars == <<queue, threadVars, accepted, handled, abandoned, mpc, stopping, crashed>>

\* A message is its frame and, when it is about one crack, that crack.
NoMessage == <<>>

Init ==
    /\ queue = [q \in Queue |-> <<>>]
    /\ running = [m \in Module |-> FALSE]
    /\ pc = [m \in Module |-> "off"]
    /\ hand = [m \in Module |-> NoMessage]
    /\ emitted = [m \in Module |-> 0]
    /\ trying = 1
    /\ accepted = <<>>
    /\ handled = <<>>
    /\ abandoned = {}
    /\ mpc = "init"
    /\ stopping = 1
    /\ crashed = FALSE

\* MonitorServer::start
StartAll ==
    /\ mpc = "init"
    /\ running' = [m \in Module |-> TRUE]
    /\ pc' = [m \in Module |-> "poll"]
    /\ mpc' = "up"
    /\ UNCHANGED <<queue, hand, emitted, trying, accepted, handled, abandoned, stopping, crashed>>

-----------------------------------------------------------------------------
(* Frames.  The callbacks run until the io context is stopped and the io   *)
(* threads are joined: closing the acceptor ends no session.               *)

Accept(f) ==
    /\ ~crashed
    /\ mpc \notin {"init", "stopped"}
    /\ f \notin {accepted[i] : i \in 1..Len(accepted)}
    /\ accepted' = Append(accepted, f)
    /\ UNCHANGED <<threadVars, handled, abandoned, mpc, stopping>>

\* laser_out_->push: wire_pipeline has replaced laser_out_ by the input
\* queue of LaserFanOut, a null pointer unless somebody called set_input.
LaserCallback(f) ==
    /\ Accept(f)
    /\ IF "LaserFanOut" \in Unwired
       THEN crashed' = TRUE /\ queue' = queue
       ELSE /\ queue' = [queue EXCEPT !["laser_in"] = Append(@, <<f>>)]
            /\ crashed' = crashed

VibrationCallback(f) ==
    /\ Accept(f)
    /\ queue' = [queue EXCEPT !["vibration_q"] = Append(@, <<f>>)]
    /\ crashed' = crashed

-----------------------------------------------------------------------------
(* ModuleBase::run_loop *)

\* FanOutModule::process: the output, then the extra output
FanOut(primary_out, extra_output, msg) == <<<<primary_out, msg>>, <<extra_output, msg>>>>

\* CrackRouterModule::process: nothing for a frame without cracks, or when
\* its output, the input of CrackFanOut, is a null pointer
CrackRouter(msg) ==
    IF Cracks[msg[1]] = 0 \/ "CrackFanOut" \in Unwired THEN <<>> ELSE <<<<"crack_in", msg>>>>

\* FatiguePredictorModule::process: a prediction per crack
FatiguePredictor(msg) == [k \in 1..Cracks[msg[1]] |-> <<"prediction_q", <<msg[1], k>>>>]

\* DemSimulatorModule::process: a simulation per crack
DemSimulator(msg) == [k \in 1..Cracks[msg[1]] |-> <<"dem_q", <<msg[1], k>>>>]

\* Mutant: wire_pipeline forgets the second add_output.
OutputsFirstOnly(m, msg) ==
    CASE m = "LaserFanOut" -> FanOut("laser_q_alert", "laser_q_router", msg)
      [] m = "CrackRouter" -> CrackRouter(msg)
      [] m = "CrackFanOut" -> <<<<"crack_q_fatigue", msg>>>>
      [] m = "FatiguePredictor" -> FatiguePredictor(msg)
      [] m = "DemSimulator" -> DemSimulator(msg)

\* wire_pipeline: what process() pushes for a message, in order
Outputs(m, msg) ==
    CASE m = "LaserFanOut" -> FanOut("laser_q_alert", "laser_q_router", msg)
      [] m = "CrackRouter" -> CrackRouter(msg)
      [] m = "CrackFanOut" -> FanOut("crack_q_fatigue", "crack_q_dem", msg)
      [] m = "FatiguePredictor" -> FatiguePredictor(msg)
      [] m = "DemSimulator" -> DemSimulator(msg)

\* A thread at "poll" is between its last look at running_ and a successful
\* try_pop: finding its queue empty, it sleeps and polls again.  It leaves
\* the loop the first time it looks at running_ after stop() cleared it, which
\* may be before or after it takes one more message.
Loop(m) == pc' = [pc EXCEPT ![m] = IF running[m] THEN "poll" ELSE "exited"]

\* Mutant: a thread leaves in the middle of process().
ExitMidway(m) ==
    /\ ~crashed
    /\ pc[m] \in {"poll", "process"}
    /\ ~running[m]
    /\ m = "AlertWs" => trying = 1
    /\ pc' = [pc EXCEPT ![m] = "exited"]
    /\ UNCHANGED <<queue, running, hand, emitted, trying, accepted, handled, abandoned, mpc,
                   stopping, crashed>>

\* while (running_) ends
Exit(m) ==
    /\ ~crashed
    /\ pc[m] = "poll"
    /\ ~running[m]
    /\ m = "AlertWs" => trying = 1
    /\ pc' = [pc EXCEPT ![m] = "exited"]
    /\ UNCHANGED <<queue, running, hand, emitted, trying, accepted, handled, abandoned, mpc,
                   stopping, crashed>>

\* input_ && input_->try_pop(msg)
Pop(m) ==
    /\ ~crashed
    /\ pc[m] = "poll"
    /\ m \notin Unwired
    /\ queue[Input[m]] # <<>>
    /\ hand' = [hand EXCEPT ![m] = Head(queue[Input[m]])]
    /\ queue' = [queue EXCEPT ![Input[m]] = Tail(@)]
    /\ emitted' = [emitted EXCEPT ![m] = 0]
    /\ pc' = [pc EXCEPT ![m] = "process"]
    /\ UNCHANGED <<running, trying, accepted, handled, abandoned, mpc, stopping, crashed>>

\* process() pushes its next output
Emit(m) ==
    /\ ~crashed
    /\ pc[m] = "process"
    /\ emitted[m] < Len(Outputs(m, hand[m]))
    /\ LET out == Outputs(m, hand[m])[emitted[m] + 1] IN
        queue' = [queue EXCEPT ![out[1]] = Append(@, out[2])]
    /\ emitted' = [emitted EXCEPT ![m] = @ + 1]
    /\ UNCHANGED <<running, pc, hand, trying, accepted, handled, abandoned, mpc, stopping, crashed>>

\* process() returns
Processed(m) ==
    /\ ~crashed
    /\ pc[m] = "process"
    /\ emitted[m] = Len(Outputs(m, hand[m]))
    /\ Loop(m)
    /\ hand' = [hand EXCEPT ![m] = NoMessage]
    /\ UNCHANGED <<queue, running, emitted, trying, accepted, handled, abandoned, mpc, stopping,
                   crashed>>

\* process() throws before its next output: the loop logs it and goes on
Throws(m) ==
    /\ ~crashed
    /\ m \in MayThrow
    /\ pc[m] = "process"
    /\ emitted[m] < Len(Outputs(m, hand[m]))
    /\ abandoned' = abandoned \union
         {Outputs(m, hand[m])[k] : k \in (emitted[m] + 1)..Len(Outputs(m, hand[m]))}
    /\ Loop(m)
    /\ hand' = [hand EXCEPT ![m] = NoMessage]
    /\ UNCHANGED <<queue, running, emitted, trying, accepted, handled, mpc, stopping, crashed>>

-----------------------------------------------------------------------------
(* AlertWsModule *)

\* The connections lost so far: handle_laser and handle_vibration begin with
\* log_profinet_packet, which never gives its connection back when dump()
\* throws; nothing else loses one.
Lost == Cardinality({i \in 1..Len(handled) :
                        /\ handled[i][1] \in {"laser_q_alert", "vibration_q"}
                        /\ handled[i][2][1] \in NotUtf8})

\* The end of handling a message of q: the loop starts over, whatever was
\* thrown, unless the handler asks for a connection when all are lost and
\* waits in acquire() for ever.  handle_prediction asks for one only when
\* the prediction raises an alert, handle_dem never does.
AfterHandler(q) ==
    \/ /\ Lost < PoolSize \/ q \in {"prediction_q", "dem_q"}
       /\ Loop("AlertWs")
    \/ /\ Lost >= PoolSize
       /\ q # "dem_q"
       /\ pc' = [pc EXCEPT !["AlertWs"] = "blocked"]

\* try_pop of one input finds nothing: go on to the next, or sleep
TryNext ==
    /\ ~crashed
    /\ pc["AlertWs"] = "poll"
    /\ queue[AlertInput[trying]] = <<>>
    /\ IF trying < Len(AlertInput)
       THEN trying' = trying + 1 /\ pc' = pc
       ELSE trying' = 1 /\ Loop("AlertWs")
    /\ UNCHANGED <<queue, running, hand, emitted, accepted, handled, abandoned, mpc,
                   stopping, crashed>>

\* Mutant: the newest message is handled first.
HandleNewest ==
    /\ ~crashed
    /\ pc["AlertWs"] = "poll"
    /\ LET q == AlertInput[trying] IN
        /\ queue[q] # <<>>
        /\ handled' = Append(handled, <<q, queue[q][Len(queue[q])]>>)
        /\ queue' = [queue EXCEPT ![q] = SubSeq(@, 1, Len(@) - 1)]
        /\ AfterHandler(q)
    /\ trying' = 1
    /\ UNCHANGED <<running, hand, emitted, accepted, abandoned, mpc, stopping, crashed>>

\* try_pop succeeds and the handler is called
HandleMessage ==
    /\ ~crashed
    /\ pc["AlertWs"] = "poll"
    /\ LET q == AlertInput[trying] IN
        /\ queue[q] # <<>>
        /\ handled' = Append(handled, <<q, Head(queue[q])>>)
        /\ queue' = [queue EXCEPT ![q] = Tail(@)]
        /\ AfterHandler(q)
    /\ trying' = 1
    /\ UNCHANGED <<running, hand, emitted, accepted, abandoned, mpc, stopping, crashed>>

-----------------------------------------------------------------------------
(* MonitorServer::stop *)

\* Mutant: running_ is not cleared.
StopModuleRunning ==
    /\ ~crashed
    /\ mpc \in {"up", "stop"}
    /\ running' = running
    /\ mpc' = "join"
    /\ UNCHANGED <<queue, pc, hand, emitted, trying, accepted, handled, abandoned, stopping, crashed>>

\* running_.store(false)
StopModule ==
    /\ ~crashed
    /\ mpc \in {"up", "stop"}
    /\ running' = [running EXCEPT ![StopOrder[stopping]] = FALSE]
    /\ mpc' = "join"
    /\ UNCHANGED <<queue, pc, hand, emitted, trying, accepted, handled, abandoned, stopping, crashed>>

\* Mutant: stop() does not join the thread.
JoinModuleUnwaited ==
    /\ ~crashed
    /\ mpc = "join"
    /\ mpc' = IF stopping = Len(StopOrder) THEN "alerts" ELSE "stop"
    /\ stopping' = IF stopping = Len(StopOrder) THEN stopping ELSE stopping + 1
    /\ UNCHANGED <<queue, threadVars, accepted, handled, abandoned, crashed>>

\* thread_.join(); AlertWsModule::stop goes on in alert_manager_->stop()
JoinModule ==
    /\ ~crashed
    /\ mpc = "join"
    /\ pc[StopOrder[stopping]] = "exited"
    /\ mpc' = IF stopping = Len(StopOrder) THEN "alerts" ELSE "stop"
    /\ stopping' = IF stopping = Len(StopOrder) THEN stopping ELSE stopping + 1
    /\ UNCHANGED <<queue, threadVars, accepted, handled, abandoned, crashed>>

\* alert_manager_->stop() returns; then ws_server_->stop() and
\* http_server_->stop() close their acceptors and the io context is stopped.
StopAlerts ==
    /\ ~crashed
    /\ mpc = "alerts"
    /\ mpc' = "threads"
    /\ UNCHANGED <<queue, threadVars, accepted, handled, abandoned, stopping, crashed>>

\* The alert worker misses the notification, and its join never returns (how
\* that comes about is in AlertManager).
MissNotify ==
    /\ ~crashed
    /\ mpc = "alerts"
    /\ mpc' = "missed"
    /\ UNCHANGED <<queue, threadVars, accepted, handled, abandoned, stopping, crashed>>

\* Every io thread has left ioc_.run() and is joined.  One of them may be
\* waiting in acquire() for a connection that is lost: see FairSpec.
JoinThreads ==
    /\ ~crashed
    /\ mpc = "threads"
    /\ mpc' = "stopped"
    /\ UNCHANGED <<queue, threadVars, accepted, handled, abandoned, stopping, crashed>>

StageStep(m) == Pop(m) \/ Emit(m) \/ Processed(m) \/ Throws(m)
ModuleStep(m) ==
    \/ Exit(m)
    \/ m # "AlertWs" /\ StageStep(m)
    \/ m = "AlertWs" /\ (TryNext \/ HandleMessage)

Next ==
    \/ StartAll
    \/ \E f \in LaserFrame : LaserCallback(f)
    \/ \E f \in VibrationFrame : VibrationCallback(f)
    \/ \E m \in Module : ModuleStep(m)
    \/ StopModule
    \/ JoinModule
    \/ StopAlerts
    \/ MissNotify
    \/ JoinThreads

Spec == Init /\ [][Next]_vars

(* Every module has a thread of its own that the system schedules; once    *)
(* stop() has begun, the main thread goes on with it.  The io threads end  *)
(* when the io context is stopped as long as connections are left: their   *)
(* handlers wait for nothing else that could be gone.  (on_write takes its *)
(* own lock again only after a write that succeeded, and without the       *)
(* handshake none does, websocket_server.cpp l.66, 138.)                   *)
FairSpec ==
    /\ Spec
    /\ \A m \in Module : WF_vars(ModuleStep(m))
    /\ WF_vars(mpc = "stop" /\ StopModule)
    /\ WF_vars(JoinModule)
    /\ WF_vars(StopAlerts \/ MissNotify)
    /\ WF_vars(Lost < PoolSize /\ JoinThreads)

-----------------------------------------------------------------------------
(* Properties *)

\* The messages that travel through a queue.
Carried(q) ==
    CASE q = "vibration_q" -> {<<f>> : f \in VibrationFrame}
      [] q \in {"prediction_q", "dem_q"} ->
             UNION {{<<f, k>> : k \in 1..Cracks[f]} : f \in LaserFrame}
      [] OTHER -> {<<f>> : f \in LaserFrame}

\* A message with the queue it goes through
Output == UNION {{<<q, x>> : x \in Carried(q)} : q \in Queue}

TypeOK ==
    /\ DOMAIN queue = Queue /\ \A q \in Queue : queue[q] \in Seq(Carried(q))
    /\ running \in [Module -> BOOLEAN]
    /\ pc \in [Module -> {"off", "poll", "process", "blocked", "exited"}]
    /\ hand \in [Module -> {NoMessage} \union UNION {Carried(q) : q \in Queue}]
    /\ emitted \in [Module -> Nat]
    /\ \A m \in Module : pc[m] = "process" => m \in Stage /\ hand[m] \in Carried(Input[m])
    /\ trying \in 1..Len(AlertInput)
    /\ accepted \in Seq(Frame)
    /\ handled \in Seq({o \in Output : \E i \in 1..Len(AlertInput) : o[1] = AlertInput[i]})
    /\ abandoned \subseteq Output
    /\ mpc \in {"init", "up", "stop", "join", "alerts", "missed", "threads", "stopped"}
    /\ stopping \in 1..Len(StopOrder)
    /\ crashed \in BOOLEAN

\* The outputs AlertWsModule owes for a frame.
Due(f) ==
    IF f \in VibrationFrame THEN {<<"vibration_q", <<f>>>>}
    ELSE {<<"laser_q_alert", <<f>>>>}
         \union {<<q, <<f, k>>>> : q \in {"prediction_q", "dem_q"}, k \in 1..Cracks[f]}

Elements(s) == {s[i] : i \in 1..Len(s)}

(* Seen from outside, the pipeline handles what accepted frames make due,  *)
(* nothing twice, and each kind of output in the order in which the frames *)
(* were accepted and crack by crack within a frame, although each frame is *)
(* copied by two fan-outs and travels through up to five threads.          *)
Service == INSTANCE MonitoringService WITH done <- handled

ImplementsService == Service!Spec

\* The places an output can be in before it is handled: the queues on its way
\* and the hands of the modules that still have to emit it.
Path(o) ==
    CASE o[1] = "vibration_q" -> {}
      [] o[1] = "laser_q_alert" -> {"LaserFanOut"}
      [] o[1] = "prediction_q" -> {"LaserFanOut", "CrackRouter", "CrackFanOut", "FatiguePredictor"}
      [] o[1] = "dem_q" -> {"LaserFanOut", "CrackRouter", "CrackFanOut", "DemSimulator"}

\* Of the outputs of m, the one that carries o on.
Carries(m, o, out) ==
    \/ out = o
    \/ \E n \in Path(o) : m \in Path(o) /\ out[1] = Input[n] /\ out[2] = <<o[2][1]>>

\* A module threw before it pushed o, or what o would have been made from.
GivenUp(o) ==
    \E out \in abandoned :
        out = o \/ \E n \in Path(o) : out[1] = Input[n] /\ out[2] = <<o[2][1]>>

\* The queues an output passes, and the message that stands for it there
PathQueues(o) == {Input[m] : m \in Path(o)} \union {o[1]}
Message(o, q) == IF q = o[1] THEN o[2] ELSE <<o[2][1]>>

\* The outputs that m has not pushed yet
Unpushed(m) ==
    IF pc[m] = "process"
    THEN {Outputs(m, hand[m])[k] : k \in (emitted[m] + 1)..Len(Outputs(m, hand[m]))}
    ELSE {}

InQueues(o) ==
    UNION {{<<q, i>> : i \in {j \in 1..Len(queue[q]) : queue[q][j] = Message(o, q)}} : q \in PathQueues(o)}
InHands(o) == {m \in Path(o) : \E out \in Unpushed(m) : Carries(m, o, out)}
WhenHandled(o) == {<<"handled", i>> : i \in {j \in 1..Len(handled) : handled[j] = o}}

Places(o) == InQueues(o) \union InHands(o) \union WhenHandled(o)

(* Nothing gets lost or doubled on the way: an output that is due is in    *)
(* exactly one place, from the callback to AlertWsModule and also while    *)
(* the server is being stopped, unless a module threw before emitting it   *)
(* or what it is made from.                                                *)
ExactlyOnePlace ==
    (~crashed /\ Unwired = {}) =>
        \A f \in Elements(accepted) : \A o \in Due(f) :
            Cardinality(Places(o)) = IF GivenUp(o) THEN 0 ELSE 1

(* When stop() is past a module, that module's thread is gone, and no      *)
(* module downstream of the one being stopped has been told to stop; the   *)
(* alert manager and the io threads are stopped after the last of them.    *)
StoppedInOrder ==
    mpc # "init" =>
        \A i \in 1..Len(StopOrder) :
            /\ i < stopping \/ mpc \in {"alerts", "missed", "threads", "stopped"}
                   => pc[StopOrder[i]] = "exited"
            /\ i > stopping => running[StopOrder[i]]

(* main.cpp l.166 "All modules stopped": stop() gets that far, past every  *)
(* join on the way, with whatever is in the queues and in hand, unless the *)
(* alert worker misses its notification (alert_manager.cpp l.37) or every  *)
(* connection is lost (database.cpp l.407).                                *)
StopCompletes == mpc = "join" ~> mpc \in {"stopped", "missed"} \/ Lost >= PoolSize

(* While the server runs, every output that is due gets handled, or was    *)
(* given up by a module that threw, although frames cost connections that  *)
(* never come back: only when the last one is lost does AlertWsModule wait *)
(* for ever.  The plant sends finitely many frames here; an endless stream *)
(* of laser frames would keep the other inputs waiting (alert_ws_module.h  *)
(* l.58), about which this says nothing.                                   *)
DueIsHandled ==
    \A f \in Frame :
        f \in Elements(accepted) ~>
            \/ \A o \in Due(f) : o \in Elements(handled) \/ GivenUp(o)
            \/ mpc # "up"
            \/ Lost >= PoolSize

(* main.cpp l.198 "ProfinetParser -> LaserFanOut -+-> AlertWsModule": a    *)
(* laser frame reaches AlertWsModule.                                      *)
LaserReachesAlertWs ==
    \A f \in LaserFrame :
        f \in Elements(accepted) ~> <<"laser_q_alert", <<f>>>> \in Elements(handled) \/ mpc # "up"

-----------------------------------------------------------------------------
(* The inductive invariant *)

\* In a sequence without repetitions: f stands before g.
Earlier(s, f, g) == \E i, j \in 1..Len(s) : i < j /\ s[i] = f /\ s[j] = g

\* The order in which messages of one kind go, when their frames came as in s
Precedes(s, x, y) ==
    \/ Earlier(s, x[1], y[1])
    \/ x[1] = y[1] /\ Len(x) = 2 /\ Len(y) = 2 /\ x[2] < y[2]

\* The queues that messages reach from q on
Beyond(q) ==
    CASE q = "laser_in" -> Queue \ {"laser_in", "vibration_q"}
      [] q = "laser_q_router" -> {"crack_in", "crack_q_fatigue", "crack_q_dem", "prediction_q", "dem_q"}
      [] q = "crack_in" -> {"crack_q_fatigue", "crack_q_dem", "prediction_q", "dem_q"}
      [] q = "crack_q_fatigue" -> {"prediction_q"}
      [] q = "crack_q_dem" -> {"dem_q"}
      [] OTHER -> {}

\* What has been taken from q: what its module is at work on, and what was handled
Taken(q) ==
    {hand[m] : m \in {n \in Stage : pc[n] = "process" /\ Input[n] = q}}
    \union {handled[i][2] : i \in {j \in 1..Len(handled) : handled[j][1] = q}}

GivenUpAt(q) == {x \in Carried(q) : <<q, x>> \in abandoned}

\* What has got as far as q, or would have
At(q) == Elements(queue[q]) \union Taken(q) \union GivenUpAt(q)

(* A frame is accepted once, and what travels is made from accepted frames. *)
AcceptedOnce ==
    /\ \A i, j \in 1..Len(accepted) : accepted[i] = accepted[j] => i = j
    /\ \A q \in Queue : \A x \in At(q) : x[1] \in Elements(accepted)

(* A queue is in order, behind what was taken from it; and what is further *)
(* down the pipeline was made from earlier frames.                         *)
QueueOrder ==
    \A q \in Queue : \A i \in 1..Len(queue[q]) :
        /\ \A j \in 1..Len(queue[q]) : i < j => Precedes(accepted, queue[q][i], queue[q][j])
        /\ \A x \in Taken(q) : Precedes(accepted, x, queue[q][i])
        /\ \A p \in Beyond(q) : \A x \in At(p) : Earlier(accepted, x[1], queue[q][i][1])

(* So is what a module still has to push, seen from where it will go.      *)
HandOrder ==
    \A m \in Stage : \A out \in Unpushed(m) :
        /\ \A x \in At(out[1]) : Precedes(accepted, x, out[2])
        /\ \A p \in Beyond(out[1]) : \A x \in At(p) : Earlier(accepted, x[1], out[2][1])

HandledOrder ==
    \A i, j \in 1..Len(handled) :
        i < j /\ handled[i][1] = handled[j][1] => Precedes(accepted, handled[i][2], handled[j][2])

(* What was given up has got nowhere, nor has what would be made from it.  *)
AbandonedApart ==
    \A q \in Queue : \A x \in GivenUpAt(q) :
        /\ x \notin Elements(queue[q]) \union Taken(q)
        /\ \A p \in Beyond(q) : \A y \in At(p) : y[1] # x[1]

OrderInv == AcceptedOnce /\ QueueOrder /\ HandOrder /\ HandledOrder /\ AbandonedApart

\* An output that is somewhere
Somewhere(o) ==
    \/ \E q \in PathQueues(o) : Message(o, q) \in Elements(queue[q])
    \/ \E m \in Path(o) : \E out \in Unpushed(m) : Carries(m, o, out)
    \/ o \in Elements(handled)

(* An output that is due is somewhere or was given up.                     *)
NothingLost ==
    (~crashed /\ Unwired = {}) =>
        \A f \in Elements(accepted) : \A o \in Due(f) : GivenUp(o) \/ Somewhere(o)

(* The modules from the one being stopped on run.                          *)
StopInv ==
    /\ mpc = "init" => \A m \in Module : pc[m] = "off"
    /\ mpc \in {"init", "up"} => stopping = 1
    /\ mpc \in {"up", "stop"} => running[StopOrder[stopping]]

IInv == TypeOK /\ StopInv /\ StoppedInOrder /\ OrderInv /\ NothingLost

=============================================================================
