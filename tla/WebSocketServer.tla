-------------------------- MODULE WebSocketServer --------------------------
(***************************************************************************)
(* backend/src/websocket_server.cpp: the sessions of the browsers, and     *)
(* broadcast, which the thread of AlertWsModule and the worker of          *)
(* AlertManager call.  Handlers of one session run one after the other on  *)
(* its strand, each on whichever io thread is idle; send_queue_ is guarded *)
(* by mutex_, which is not recursive.                                      *)
(*                                                                         *)
(* Handshake is the set of sessions that perform the WebSocket handshake.  *)
(* handle_accept, which accepts every connection, never calls run(): the   *)
(* empty set is the program as written.  The others do what                *)
(* handle_http_request, which nothing calls, does with a session.  What is *)
(* asked of both is safety alone: no fairness is assumed, so the behaviour *)
(* may stop anywhere, as it does when the io context is stopped.           *)
(***************************************************************************)
EXTENDS Naturals, Sequences, FiniteSets

CONSTANTS
    Session,        \* connections that browsers make
    IoThread,       \* io_threads_
    Handshake,      \* the sessions that run()
    MaxBroadcast    \* bound: messages broadcast in a run

Free == "free"

ASSUME HandshakeAssumption == Handshake \subseteq Session /\ MaxBroadcast \in Nat
ASSUME ThreadAssumption == Free \notin IoThread

VARIABLES
    listening,      \* the acceptor is open
    sessions,       \* sessions_
    link,           \* the connection of each session: "none", "tcp", "open", "gone"
    strand,         \* handlers waiting on each session's strand
    task,           \* the handler each io thread is running
    mutex,          \* holder of each session's mutex_
    send_queue,     \* send_queue_ of each session
    writing,        \* whether an async_write of a session is outstanding
    delivered,      \* messages each browser got
    broadcasts,     \* messages broadcast
    sent,           \* history: messages broadcast while the session was in sessions_
    popped          \* history: messages taken out of send_queue_

sessionVars == <<listening, sessions, link>>
queueVars == <<strand, send_queue, writing>>
historyVars == <<broadcasts, sent, popped>>
vars == <<sessionVars, queueVars, task, mutex, delivered, historyVars>>

Idle == [run |-> "idle"]
DoSendOf(m) == [run |-> "do_send", message |-> m]
OnWriteOf(ec) == [run |-> "on_write", ec |-> ec]

Init ==
    /\ listening = TRUE
    /\ sessions = {}
    /\ link = [s \in Session |-> "none"]
    /\ strand = [s \in Session |-> <<>>]
    /\ task = [t \in IoThread |-> Idle]
    /\ mutex = [s \in Session |-> Free]
    /\ send_queue = [s \in Session |-> <<>>]
    /\ writing = [s \in Session |-> FALSE]
    /\ delivered = [s \in Session |-> <<>>]
    /\ broadcasts = 0
    /\ sent = [s \in Session |-> <<>>]
    /\ popped = [s \in Session |-> <<>>]

-----------------------------------------------------------------------------
(* The server *)

\* handle_accept, on an idle io thread: push_back(session)
Accept(s) ==
    /\ listening
    /\ link[s] = "none"
    /\ \E t \in IoThread : task[t] = Idle
    /\ sessions' = sessions \union {s}
    /\ link' = [link EXCEPT ![s] = "tcp"]
    /\ UNCHANGED <<listening, queueVars, task, mutex, delivered, historyVars>>

\* run() and on_accept
OnAccept(s) ==
    /\ s \in Handshake
    /\ link[s] = "tcp"
    /\ \E t \in IoThread : task[t] = Idle
    /\ link' = [link EXCEPT ![s] = "open"]
    /\ UNCHANGED <<listening, sessions, queueVars, task, mutex, delivered, historyVars>>

\* The browser goes away; the session stays in sessions_.
Disconnect(s) ==
    /\ link[s] \in {"tcp", "open"}
    /\ link' = [link EXCEPT ![s] = "gone"]
    /\ UNCHANGED <<listening, sessions, queueVars, task, mutex, delivered, historyVars>>

\* broadcast: send() posts do_send to the strand of every session
Broadcast ==
    /\ broadcasts < MaxBroadcast
    /\ broadcasts' = broadcasts + 1
    /\ strand' = [s \in Session |->
         IF s \in sessions THEN Append(strand[s], DoSendOf(broadcasts + 1)) ELSE strand[s]]
    /\ sent' = [s \in Session |->
         IF s \in sessions THEN Append(sent[s], broadcasts + 1) ELSE sent[s]]
    /\ UNCHANGED <<sessionVars, task, mutex, send_queue, writing, delivered, popped>>

\* stop(): handlers that are under way go on
Stop ==
    /\ listening
    /\ listening' = FALSE
    /\ sessions' = {}
    /\ UNCHANGED <<link, queueVars, task, mutex, delivered, historyVars>>

-----------------------------------------------------------------------------
(* The handlers of a session *)

Serves(t, s) == task[t] # Idle /\ task[t].session = s

\* An idle io thread takes the next handler of a strand that nobody runs.
RunHandler(t, s) ==
    /\ task[t] = Idle
    /\ strand[s] # <<>>
    /\ \A u \in IoThread : ~Serves(u, s)
    /\ task' = [task EXCEPT ![t] = [run |-> "handler", session |-> s, handler |-> Head(strand[s])]]
    /\ strand' = [strand EXCEPT ![s] = Tail(@)]
    /\ UNCHANGED <<sessionVars, mutex, send_queue, writing, delivered, historyVars>>

Runs(t, s, name) ==
    task[t].run = "handler" /\ task[t].session = s /\ task[t].handler.run = name

\* Mutant: a write is started although one is under way.
DoSendAlways(t, s) ==
    /\ Runs(t, s, "do_send")
    /\ mutex[s] = Free
    /\ send_queue' = [send_queue EXCEPT ![s] = Append(@, task[t].handler.message)]
    /\ writing' = [writing EXCEPT ![s] = TRUE]
    /\ task' = [task EXCEPT ![t] = Idle]
    /\ UNCHANGED <<sessionVars, strand, mutex, delivered, historyVars>>

\* Mutant: a message that comes during a write is dropped.
DoSendDrops(t, s) ==
    /\ Runs(t, s, "do_send")
    /\ mutex[s] = Free
    /\ send_queue' = [send_queue EXCEPT ![s] = IF @ = <<>> THEN Append(@, task[t].handler.message) ELSE @]
    /\ writing' = [writing EXCEPT ![s] = @ \/ send_queue[s] = <<>>]
    /\ task' = [task EXCEPT ![t] = Idle]
    /\ UNCHANGED <<sessionVars, strand, mutex, delivered, historyVars>>

\* do_send: lock_guard, push, and async_write unless one is under way
DoSend(t, s) ==
    /\ Runs(t, s, "do_send")
    /\ mutex[s] = Free
    /\ send_queue' = [send_queue EXCEPT ![s] = Append(@, task[t].handler.message)]
    /\ writing' = [writing EXCEPT ![s] = @ \/ send_queue[s] = <<>>]
    /\ task' = [task EXCEPT ![t] = Idle]
    /\ UNCHANGED <<sessionVars, strand, mutex, delivered, historyVars>>

\* on_write(error): return, the message stays in the queue
OnWriteError(t, s) ==
    /\ Runs(t, s, "on_write")
    /\ task[t].handler.ec = "error"
    /\ task' = [task EXCEPT ![t] = Idle]
    /\ UNCHANGED <<sessionVars, queueVars, mutex, delivered, historyVars>>

\* on_write: lock_guard, pop; with more to send, call do_send with the lock
\* still held
OnWrite(t, s) ==
    /\ Runs(t, s, "on_write")
    /\ task[t].handler.ec = "ok"
    /\ mutex[s] = Free
    /\ send_queue' = [send_queue EXCEPT ![s] = Tail(@)]
    /\ popped' = [popped EXCEPT ![s] = Append(@, Head(send_queue[s]))]
    /\ IF Tail(send_queue[s]) = <<>>
       THEN task' = [task EXCEPT ![t] = Idle] /\ mutex' = mutex
       ELSE /\ task' = [task EXCEPT ![t].handler = DoSendOf(send_queue[s][2])]
            /\ mutex' = [mutex EXCEPT ![s] = t]
    /\ UNCHANGED <<sessionVars, strand, writing, delivered, broadcasts, sent>>

\* async_write completes; on a stream that is not open it fails.
WriteCompletes(s) ==
    /\ writing[s]
    /\ link[s] = "open"
    /\ delivered' = [delivered EXCEPT ![s] = Append(@, Head(send_queue[s]))]
    /\ writing' = [writing EXCEPT ![s] = FALSE]
    /\ strand' = [strand EXCEPT ![s] = Append(@, OnWriteOf("ok"))]
    /\ UNCHANGED <<sessionVars, task, mutex, send_queue, historyVars>>

WriteFails(s) ==
    /\ writing[s]
    /\ link[s] # "open"
    /\ writing' = [writing EXCEPT ![s] = FALSE]
    /\ strand' = [strand EXCEPT ![s] = Append(@, OnWriteOf("error"))]
    /\ UNCHANGED <<sessionVars, task, mutex, send_queue, delivered, historyVars>>

HandlerStep(s) ==
    \/ \E t \in IoThread :
        RunHandler(t, s) \/ DoSend(t, s) \/ OnWriteError(t, s) \/ OnWrite(t, s)
    \/ WriteCompletes(s)
    \/ WriteFails(s)

Next ==
    \/ \E s \in Session : Accept(s) \/ OnAccept(s) \/ Disconnect(s) \/ HandlerStep(s)
    \/ Broadcast
    \/ Stop

Spec == Init /\ [][Next]_vars

-----------------------------------------------------------------------------
(* Properties *)

Handler == {DoSendOf(m) : m \in 1..MaxBroadcast} \union {OnWriteOf(ec) : ec \in {"ok", "error"}}
Task == [run : {"handler"}, session : Session, handler : Handler]

TypeOK ==
    /\ listening \in BOOLEAN
    /\ sessions \subseteq Session
    /\ link \in [Session -> {"none", "tcp", "open", "gone"}]
    /\ strand \in [Session -> Seq(Handler)]
    /\ task \in [IoThread -> {Idle} \union Task]
    /\ mutex \in [Session -> IoThread \union {Free}]
    /\ send_queue \in [Session -> Seq(1..MaxBroadcast)]
    /\ writing \in [Session -> BOOLEAN]
    /\ delivered \in [Session -> Seq(1..MaxBroadcast)]
    /\ broadcasts \in 0..MaxBroadcast
    /\ sent \in [Session -> Seq(1..MaxBroadcast)]
    /\ popped \in [Session -> Seq(1..MaxBroadcast)]

\* Where on_write waits among the handlers of a strand, and who is running it.
OnWrites(q) == {i \in 1..Len(q) : q[i].run = "on_write"}
Waiting(s) == OnWrites(strand[s])
Running(s) == {t \in IoThread : Runs(t, s, "on_write")}

(* One message of a session is under way at a time: being written, or      *)
(* written and waiting for on_write; and while it is written, the front of *)
(* send_queue_, whose memory the write uses, stays (l.61, 86-96).          *)
OneWrite ==
    \A s \in Session :
        /\ Cardinality(Waiting(s)) + Cardinality(Running(s)) + (IF writing[s] THEN 1 ELSE 0) <= 1
        /\ writing[s] \/ Waiting(s) # {} \/ Running(s) # {} => send_queue[s] # <<>>

\* The message that a thread in do_send is going to push, and those of the
\* handlers that wait: a strand without its on_write, of which there is one at
\* most.
InDoSend(s) == {t \in IoThread : Runs(t, s, "do_send") /\ mutex[s] # t}

BeingPushed(s) ==
    IF InDoSend(s) = {} THEN <<>>
    ELSE <<task[CHOOSE t \in InDoSend(s) : TRUE].handler.message>>

Sends(q) ==
    [i \in 1..(Len(q) - Cardinality(OnWrites(q))) |->
        q[IF \E k \in OnWrites(q) : k <= i THEN i + 1 ELSE i].message]

(* What was broadcast to a session is, in this order, popped, queued or    *)
(* about to be queued: two threads broadcast and any io thread runs the    *)
(* handlers, yet the strand loses, doubles and reorders nothing; and the   *)
(* browser has seen what was popped and perhaps the front of the queue.    *)
NothingLost ==
    \A s \in Session :
        /\ sent[s] = (popped[s] \o send_queue[s]) \o (BeingPushed(s) \o Sends(strand[s]))
        /\ \/ delivered[s] = popped[s]
           \/ send_queue[s] # <<>> /\ delivered[s] = Append(popped[s], Head(send_queue[s]))

-----------------------------------------------------------------------------
(* The inductive invariant: who serves a session and what is known while a *)
(* write is outstanding.                                                   *)

\* A strand runs one handler at a time, and only a thread that came to do_send
\* from on_write holds a mutex between two steps.
StrandInv ==
    /\ \A t, u \in IoThread, s \in Session : Serves(t, s) /\ Serves(u, s) => t = u
    /\ \A s \in Session : mutex[s] # Free => Runs(mutex[s], s, "do_send")

\* One at most of: a write, an on_write that waits, an on_write that runs; all
\* of them keep the message at the front of the queue.
WriteInv(s) ==
    /\ \A i, j \in Waiting(s) : i = j
    /\ Waiting(s) # {} => Running(s) = {} /\ ~writing[s]
    /\ Running(s) # {} => ~writing[s]
    /\ writing[s] \/ Waiting(s) # {} \/ Running(s) # {} => send_queue[s] # <<>>

\* What on_write is going to pop was delivered, and all that it popped was.
Written(s) ==
    \/ \E i \in Waiting(s) : strand[s][i].ec = "ok"
    \/ \E t \in Running(s) : task[t].handler.ec = "ok"

DeliveredInv(s) ==
    delivered[s] = IF Written(s) THEN Append(popped[s], Head(send_queue[s])) ELSE popped[s]

SentInv(s) ==
    sent[s] = (popped[s] \o send_queue[s]) \o (BeingPushed(s) \o Sends(strand[s]))

SessionInv(s) == WriteInv(s) /\ DeliveredInv(s) /\ SentInv(s)

IInv == TypeOK /\ StrandInv /\ \A s \in Session : SessionInv(s)

=============================================================================
