--------------------------- MODULE ProfinetServer ---------------------------
(***************************************************************************)
(* UdpServer and ProfinetServer (backend/src/tcp_server.cpp l.89-186):     *)
(* connections are accepted one after another and datagrams received one   *)
(* after another, each by a chain of completion handlers on the io         *)
(* threads, until MonitorServer stops the server and then the io context   *)
(* (backend/src/main.cpp l.119-167).                                       *)
(* What a session reads is the module TcpSession.                          *)
(***************************************************************************)
EXTENDS Integers, Sequences

CONSTANTS
    Connection,   \* TCP connections the plant may open
    Datagram,     \* datagrams it may send ...
    From,         \* ... their senders
    Parses,       \* ... and those that are PROFINET frames
    Room,         \* datagrams the socket's receive buffer holds
    Garbage       \* what an acknowledge says when its buffer is gone

PlantAssumption ==
    /\ Datagram = DOMAIN From
    /\ Parses \subseteq Datagram
    /\ Room \in Nat \ {0}

None == "none"
Failed == "failed"

VARIABLES
    threads,     \* io threads that are not stuck in a handler of another component
    acceptor,    \* tcp_acceptor_: "open" or "closed"
    accept,      \* do_accept: "wait" for a completion, "ready" for a thread, or the handler's next step
    accepted,    \* the connection the handler gets, or Failed
    sessions,    \* sessions_
    connection,  \* where each connection is
    inbox,       \* datagrams in the socket's buffer
    sent,        \* datagrams that were sent, in the order of their arrival
    receiving,   \* async_receive_from is under way
    received,    \* its completion waits for a thread
    recv_buffer, \* recv_buffer_ and remote_endpoint_
    remote_endpoint,
    udp,         \* handle_receive: "off", or its next step
    data,        \* its copy of the buffer
    answers,     \* acknowledges sent: to whom, naming which cycle, and (auxiliary) of which datagram
    server       \* the main thread: "new", "up", "closed" (the acceptor), "cleared", "stopped" (ioc_)

tcpVars == <<acceptor, accept, accepted, sessions, connection>>
socketVars == <<inbox, sent>>
udpVars == <<receiving, received, recv_buffer, remote_endpoint, udp, data, answers>>
vars == <<threads, tcpVars, socketVars, udpVars, server>>

Init ==
    /\ threads = 0
    /\ acceptor = "open"
    /\ accept = "off"
    /\ accepted = None
    /\ sessions = {}
    /\ connection = [c \in Connection |-> "none"]
    /\ inbox = <<>>
    /\ sent = <<>>
    /\ receiving = FALSE
    /\ received = FALSE
    /\ recv_buffer = None
    /\ remote_endpoint = None
    /\ udp = "off"
    /\ data = None
    /\ answers = <<>>
    /\ server = "new"

\* start(), by the main thread, which then makes the io threads, n of them:
\* none if n is not positive
Start(n) ==
    /\ server = "new"
    /\ threads' = IF n > 0 THEN n ELSE 0
    /\ receiving' = TRUE
    /\ accept' = "wait"
    /\ server' = "up"
    /\ UNCHANGED <<acceptor, accepted, sessions, connection, socketVars, received, recv_buffer,
                   remote_endpoint, udp, data, answers>>

-----------------------------------------------------------------------------
(* The plant and the sockets *)

Connect(c) ==
    /\ acceptor = "open"
    /\ connection[c] = "none"
    /\ connection' = [connection EXCEPT ![c] = "backlog"]
    /\ UNCHANGED <<threads, acceptor, accept, accepted, sessions, socketVars, udpVars, server>>

\* The session's last read has failed or met the end of the stream.
Disconnect(c) ==
    /\ connection[c] = "read"
    /\ server # "stopped"
    /\ connection' = [connection EXCEPT ![c] = "ended"]
    /\ UNCHANGED <<threads, acceptor, accept, accepted, sessions, socketVars, udpVars, server>>

\* A datagram that finds no room is lost.
Send(d) ==
    /\ \A i \in 1..Len(sent) : sent[i] # d
    /\ sent' = Append(sent, d)
    /\ inbox' = IF Len(inbox) < Room THEN Append(inbox, d) ELSE inbox
    /\ UNCHANGED <<threads, tcpVars, udpVars, server>>

AcceptSucceeds(c) ==
    /\ accept = "wait"
    /\ acceptor = "open"
    /\ connection[c] = "backlog"
    /\ accepted' = c
    /\ connection' = [connection EXCEPT ![c] = "accepted"]
    /\ accept' = "ready"
    /\ UNCHANGED <<threads, acceptor, sessions, socketVars, udpVars, server>>

\* At any time, as when there are no file descriptors, and always once closed.
AcceptFails ==
    /\ accept = "wait"
    /\ accepted' = Failed
    /\ accept' = "ready"
    /\ UNCHANGED <<threads, acceptor, sessions, connection, socketVars, udpVars, server>>

ReceiveCompletes ==
    /\ receiving
    /\ inbox # <<>>
    /\ recv_buffer' = Head(inbox)
    /\ remote_endpoint' = From[Head(inbox)]
    /\ inbox' = Tail(inbox)
    /\ receiving' = FALSE
    /\ received' = TRUE
    /\ UNCHANGED <<threads, tcpVars, sent, udp, data, answers, server>>

-----------------------------------------------------------------------------
(* Handlers on the io threads *)

Busy == (IF accept \in {"off", "wait", "ready"} THEN 0 ELSE 1) + (IF udp = "off" THEN 0 ELSE 1)
ThreadFree == Busy < threads /\ server # "stopped"

\* The same threads run the handlers of HttpServer and WebSocketServer, of which
\* most only delay the two chains; but one that waits in acquire() for a lost
\* connection, for routes_mutex_ behind it, or for the lock on_write has itself,
\* never gives its thread back.
ThreadSticks ==
    /\ server # "new"
    /\ Busy < threads
    /\ threads' = threads - 1
    /\ UNCHANGED <<tcpVars, socketVars, udpVars, server>>

TakeAccept ==
    /\ accept = "ready"
    /\ ThreadFree
    /\ accept' = IF accepted = Failed THEN "again" ELSE "push"
    /\ UNCHANGED <<threads, acceptor, accepted, sessions, connection, socketVars, udpVars, server>>

\* sessions_.push_back, under mutex_
PushSession ==
    /\ accept = "push"
    /\ sessions' = sessions \union {accepted}
    /\ accept' = "start"
    /\ UNCHANGED <<threads, acceptor, accepted, connection, socketVars, udpVars, server>>

\* session->start(): from here on its pending read keeps the session
StartSession ==
    /\ accept = "start"
    /\ connection' = [connection EXCEPT ![accepted] = "read"]
    /\ accept' = "again"
    /\ UNCHANGED <<threads, acceptor, accepted, sessions, socketVars, udpVars, server>>

\* do_accept(), also after an error and after stop()
AcceptAgain ==
    /\ accept = "again"
    /\ accept' = "wait"
    /\ accepted' = None
    /\ UNCHANGED <<threads, acceptor, sessions, connection, socketVars, udpVars, server>>

\* Mutant: the next receive is begun before this datagram is handled.
HandleReceiveEarly ==
    /\ received
    /\ udp = "off"
    /\ ThreadFree
    /\ received' = FALSE
    /\ receiving' = TRUE
    /\ data' = recv_buffer
    /\ udp' = "parse"
    /\ UNCHANGED <<threads, tcpVars, socketVars, recv_buffer, remote_endpoint, answers, server>>

\* handle_receive copies the buffer
HandleReceive ==
    /\ received
    /\ ThreadFree
    /\ received' = FALSE
    /\ data' = recv_buffer
    /\ udp' = "parse"
    /\ UNCHANGED <<threads, tcpVars, socketVars, receiving, recv_buffer, remote_endpoint, answers,
                   server>>

\* parser_.parse and the callback
ParseDatagram ==
    /\ udp = "parse"
    /\ data \in Parses
    /\ udp' = "answer"
    /\ UNCHANGED <<threads, tcpVars, socketVars, receiving, received, recv_buffer,
                   remote_endpoint, data, answers, server>>

\* Mutant: do_receive() is inside the try block.
ParseThrowsOut ==
    /\ udp = "parse"
    /\ udp' = "off"
    /\ data' = None
    /\ UNCHANGED <<threads, tcpVars, socketVars, receiving, received, recv_buffer,
                   remote_endpoint, answers, server>>

\* An error, no bytes, or no frame; or the callback throws.
ParseThrows ==
    /\ udp = "parse"
    /\ udp' = "again"
    /\ UNCHANGED <<threads, tcpVars, socketVars, receiving, received, recv_buffer,
                   remote_endpoint, data, answers, server>>

\* async_send_to copies the address but not the local ack: a send that does
\* not finish at once reads memory that is gone.
SendAnswer ==
    /\ udp = "answer"
    /\ \E cycle \in {data, Garbage} :
        answers' = Append(answers, [to |-> remote_endpoint, cycle |-> cycle, of |-> data])
    /\ udp' = "again"
    /\ UNCHANGED <<threads, tcpVars, socketVars, receiving, received, recv_buffer,
                   remote_endpoint, data, server>>

\* do_receive()
ReceiveAgain ==
    /\ udp = "again"
    /\ receiving' = TRUE
    /\ udp' = "off"
    /\ data' = None
    /\ UNCHANGED <<threads, tcpVars, socketVars, received, recv_buffer, remote_endpoint, answers,
                   server>>

-----------------------------------------------------------------------------
(* ProfinetServer::stop, and later MonitorServer's ioc_.stop() *)

\* Connections that wait are reset.
CloseAcceptor ==
    /\ server = "up"
    /\ acceptor' = "closed"
    /\ connection' = [c \in Connection |->
                        IF connection[c] = "backlog" THEN "ended" ELSE connection[c]]
    /\ server' = "closed"
    /\ UNCHANGED <<threads, accept, accepted, sessions, socketVars, udpVars>>

ClearSessions ==
    /\ server = "closed"
    /\ sessions' = {}
    /\ server' = "cleared"
    /\ UNCHANGED <<threads, acceptor, accept, accepted, connection, socketVars, udpVars>>

StopContext ==
    /\ server = "cleared"
    /\ server' = "stopped"
    /\ UNCHANGED <<threads, tcpVars, socketVars, udpVars>>

AcceptStep == TakeAccept \/ PushSession \/ StartSession \/ AcceptAgain
UdpStep == HandleReceive \/ ParseDatagram \/ ParseThrows \/ SendAnswer \/ ReceiveAgain
AcceptCompletes == AcceptFails \/ \E c \in Connection : AcceptSucceeds(c)
Plant == (\E c \in Connection : Connect(c) \/ Disconnect(c)) \/ (\E d \in Datagram : Send(d))
Stop == CloseAcceptor \/ ClearSessions \/ StopContext

Next ==
    \/ Plant \/ AcceptCompletes \/ ReceiveCompletes \/ AcceptStep \/ UdpStep \/ Stop
    \/ ThreadSticks

\* The io context hands completions out in order, the kernel does not refuse
\* a waiting connection for ever, and a step of a handler that runs is taken:
\* none of these handlers waits for a lock or a database connection.
Fairness ==
    /\ \A c \in Connection : SF_vars(AcceptSucceeds(c))
    /\ WF_vars(AcceptCompletes)
    /\ WF_vars(ReceiveCompletes)
    /\ SF_vars(TakeAccept)
    /\ WF_vars(PushSession \/ StartSession \/ AcceptAgain)
    /\ SF_vars(HandleReceive)
    /\ WF_vars(ParseDatagram \/ ParseThrows)
    /\ WF_vars(SendAnswer)
    /\ WF_vars(ReceiveAgain)

-----------------------------------------------------------------------------
(* Properties *)

TypeOK ==
    /\ threads \in Nat
    /\ acceptor \in {"open", "closed"}
    /\ accept \in {"off", "wait", "ready", "push", "start", "again"}
    /\ accepted \in Connection \union {None, Failed}
    /\ sessions \subseteq Connection
    /\ connection \in [Connection -> {"none", "backlog", "accepted", "read", "ended"}]
    /\ inbox \in Seq(Datagram) /\ Len(inbox) <= Room
    /\ sent \in Seq(Datagram)
    /\ receiving \in BOOLEAN /\ received \in BOOLEAN
    /\ recv_buffer \in Datagram \union {None}
    /\ remote_endpoint \in {From[d] : d \in Datagram} \union {None}
    /\ udp \in {"off", "parse", "answer", "again"}
    /\ data \in Datagram \union {None}
    /\ answers \in Seq([to : {From[d] : d \in Datagram}, cycle : Datagram \union {Garbage},
                        of : Datagram])
    /\ server \in {"new", "up", "closed", "cleared", "stopped"}

Before(seq, a, b) == \E i, j \in 1..Len(seq) : i < j /\ seq[i] = a /\ seq[j] = b

(* Although every receive overwrites the one buffer and the one endpoint   *)
(* of UdpServer, which the acknowledge is made from, an acknowledge goes   *)
(* to the sender of the datagram it answers; datagrams are answered in the *)
(* order of their arrival, each once, and only those that are frames.      *)
AnswersGoBack ==
    /\ \A i \in 1..Len(answers) :
        /\ answers[i].of \in Parses
        /\ answers[i].to = From[answers[i].of]
        /\ answers[i].cycle \in {answers[i].of, Garbage}
    /\ \A i, j \in 1..Len(answers) : i < j => Before(sent, answers[i].of, answers[j].of)

(* The two chains of handlers go on whatever they meet: while one io       *)
(* thread is left (ThreadSticks may take every one of them) and the server *)
(* is not being stopped, a connection is accepted and its session started, *)
(* and a datagram that found room is handled, also after failed accepts,   *)
(* datagrams that do not parse and callbacks that throw, and with one      *)
(* thread for both chains.                                                 *)
Waiting(c) == connection[c] \in {"backlog", "accepted"}
Unhandled(d) == (\E i \in 1..Len(inbox) : inbox[i] = d) \/ (received /\ recv_buffer = d)

ServedWhileUp ==
    /\ \A c \in Connection : Waiting(c) ~> (~Waiting(c) \/ server # "up" \/ threads = 0)
    /\ \A d \in Datagram :
        Unhandled(d) ~> (data = d \/ server = "stopped" \/ threads = 0)

-----------------------------------------------------------------------------
(* The inductive invariant: one chain of receives, and the order of what   *)
(* was answered, what it has in hand and what waits in the socket.         *)

\* A handler goes on with the connection its completion gave it.
AcceptInv ==
    /\ accept = "ready" => accepted \in Connection \union {Failed}
    /\ accept \in {"push", "start"} => accepted \in Connection

\* The next receive is begun when the handler of the last has ended, so buffer
\* and endpoint stay while a datagram is in hand.
ChainInv ==
    /\ receiving => ~received /\ udp = "off"
    /\ received => udp = "off" /\ recv_buffer \in Datagram /\ remote_endpoint = From[recv_buffer]
    /\ udp \in {"parse", "answer"} => data \in Datagram /\ remote_endpoint = From[data]
    /\ udp = "answer" => data \in Parses
    /\ server = "new" => ~receiving /\ ~received /\ udp = "off"

InHand(d) == (received /\ recv_buffer = d) \/ (udp \in {"parse", "answer"} /\ data = d)

WasSent(d) == \E i \in 1..Len(sent) : sent[i] = d

\* What was answered came before what is in hand, and that before what waits.
ArrivalInv ==
    /\ \A i \in 1..Len(answers) : WasSent(answers[i].of)
    /\ \A d \in Datagram : InHand(d) =>
        /\ WasSent(d)
        /\ \A i \in 1..Len(answers) : Before(sent, answers[i].of, d)
    /\ \A j \in 1..Len(inbox) :
        /\ WasSent(inbox[j])
        /\ \A i \in 1..Len(answers) : Before(sent, answers[i].of, inbox[j])
        /\ \A d \in Datagram : InHand(d) => Before(sent, d, inbox[j])
        /\ \A i \in 1..Len(inbox) : i < j => Before(sent, inbox[i], inbox[j])

IInv == TypeOK /\ AcceptInv /\ ChainInv /\ ArrivalInv /\ AnswersGoBack

=============================================================================
