----------------------------- MODULE HttpServer -----------------------------
(***************************************************************************)
(* backend/src/http_server.cpp: browsers connect, send one request each,   *)
(* and the io threads of MonitorServer route it and run its handler, which *)
(* calls DatabaseManager while routes_mutex_ is held.  The pool is that of *)
(* DatabasePool, reduced to how many of its connections are free: the      *)
(* handlers share it with the other threads of the server.                 *)
(***************************************************************************)
EXTENDS Naturals, Sequences, FiniteSets

CONSTANTS
    Thread,         \* io threads
    Client,         \* browsers, which open one connection each
    Request,        \* requests the browsers may send
    PoolSize,       \* connections of the database pool
    Others,         \* threads outside the io context that use the pool
    Cracks,         \* cracks of a porcelain, each a query of its own
    NoClient,
    NoThread

\* A request: its path as segments, "id" standing for any number; whether a
\* query string follows; whether the numbers fit into an int.
ASSUME HttpAssumption ==
    /\ PoolSize \in Nat \ {0} /\ Cracks \in Nat
    /\ NoClient \notin Client /\ NoThread \notin Thread
    /\ \A r \in Request :
        /\ r.method \in {"GET", "POST", "PUT"}
        /\ r.query \in BOOLEAN /\ r.fits \in BOOLEAN

-----------------------------------------------------------------------------
(* The route table: what is matched, and the operations of DatabaseManager *)
(* that the handler calls, in order.                                       *)

\* DatabaseManager's operations, as far as handlers call them.
Operation == {
    "get_all_porcelains", "get_porcelain", "get_cracks_by_porcelain", "get_crack",
    "get_crack_points", "insert_prediction", "get_repair_materials", "insert_simulation",
    "get_active_alerts", "update_alert_status", "get_laser_data"}

Route(method, path, calls) == [method |-> method, path |-> path, calls |-> calls]

\* main.cpp adds this one before start() registers the others.
MetricsRoute == <<Route("GET", <<"metrics">>, <<>>)>>

PorcelainRoutes == <<
    Route("GET", <<"api", "porcelains">>, <<"get_all_porcelains">>),
    Route("GET", <<"api", "porcelains", "id">>, <<"get_porcelain">>),
    Route("GET", <<"api", "porcelains", "id", "cracks">>,
          <<"get_cracks_by_porcelain">> \o [i \in 1..Cracks |-> "get_crack_points"])>>

CrackRoutes == <<
    Route("GET", <<"api", "cracks", "id", "points">>, <<"get_crack_points">>),
    Route("POST", <<"api", "cracks", "id", "predict">>,
          <<"get_crack", "get_crack_points", "insert_prediction">>),
    Route("POST", <<"api", "cracks", "id", "simulate", "id">>,
          <<"get_crack", "get_crack_points", "get_repair_materials", "insert_simulation">>)>>

AlertRoutes == <<
    Route("GET", <<"api", "alerts">>, <<"get_active_alerts">>),
    Route("POST", <<"api", "alerts", "id", "acknowledge">>, <<"update_alert_status">>)>>

MaterialRoutes == <<
    Route("GET", <<"api", "materials">>, <<"get_repair_materials">>),
    Route("GET", <<"api", "porcelains", "id", "laser-data">>, <<"get_laser_data">>)>>

ApiRoutes == PorcelainRoutes \o CrackRoutes \o AlertRoutes \o MaterialRoutes

\* The files under doc_root_, besides index.html.
File == {<<"js", "app.js">>, <<"css", "style.css">>}

-----------------------------------------------------------------------------

VARIABLES
    phase,          \* "init", "up", "stopping" (ioc_.stop() was called), "stopped"
    routes,         \* routes_
    mutex,          \* the thread that holds routes_mutex_
    client,         \* "away", "open", "ready" (its request is read), "served", "gone"
    request,        \* the request each client sent
    response,       \* the response each client got
    pc,             \* where each io thread is
    serving,        \* the client whose request it handles
    calls,          \* the database operations its handler still has to call
    free,           \* connections in the pool
    other,          \* which of the other threads hold a connection
    lost,           \* connections that nobody will give back
    ok              \* what the last operation of the handler returned

serverVars == <<phase, routes>>
threadVars == <<mutex, pc, serving, calls, ok>>
poolVars == <<free, other, lost>>
httpVars == <<serverVars, threadVars, client, request, response, poolVars>>

NoRequest == [method |-> "GET", path |-> <<>>, query |-> FALSE, fits |-> TRUE]

HttpInit ==
    /\ phase = "init"
    /\ routes = MetricsRoute
    /\ mutex = NoThread
    /\ client = [c \in Client |-> "away"]
    /\ request = [c \in Client |-> NoRequest]
    /\ response = [c \in Client |-> "none"]
    /\ pc = [t \in Thread |-> "idle"]
    /\ serving = [t \in Thread |-> NoClient]
    /\ calls = [t \in Thread |-> <<>>]
    /\ ok = [t \in Thread |-> TRUE]
    /\ free = PoolSize
    /\ other = {}
    /\ lost = 0

\* start(): register_api_routes, do_accept; then the io threads begin to run
Start ==
    /\ phase = "init"
    /\ routes' = routes \o ApiRoutes
    /\ phase' = "up"
    /\ UNCHANGED <<threadVars, client, request, response, poolVars>>

\* MonitorServer::stop: the acceptor is closed and the io context stopped (while
\* the other modules are being stopped, before that, requests are still served)
Stop ==
    /\ phase = "up"
    /\ phase' = "stopping"
    /\ UNCHANGED <<routes, threadVars, client, request, response, poolVars>>

\* ... and its threads are joined once they are done with their handlers
Join ==
    /\ phase = "stopping"
    /\ \A t \in Thread : pc[t] = "idle"
    /\ phase' = "stopped"
    /\ UNCHANGED <<routes, threadVars, client, request, response, poolVars>>

-----------------------------------------------------------------------------
(* Connections *)

\* do_accept, handle_accept: every client gets a Connection that reads, and
\* the next accept is begun.  The handlers are short and are not given to a
\* thread here.
Accept(c) ==
    /\ phase = "up"
    /\ client[c] = "away"
    /\ client' = [client EXCEPT ![c] = "open"]
    /\ UNCHANGED <<serverVars, threadVars, request, response, poolVars>>

\* do_read: the whole request has come
ReadRequest(c, r) ==
    /\ phase = "up"
    /\ client[c] = "open"
    /\ request' = [request EXCEPT ![c] = r]
    /\ client' = [client EXCEPT ![c] = "ready"]
    /\ UNCHANGED <<serverVars, threadVars, response, poolVars>>

\* ... or the read failed: nothing keeps the Connection
ReadFails(c) ==
    /\ phase = "up"
    /\ client[c] = "open"
    /\ client' = [client EXCEPT ![c] = "gone"]
    /\ UNCHANGED <<serverVars, threadVars, request, response, poolVars>>

-----------------------------------------------------------------------------
(* route_request *)

IsApi(r) == Len(r.path) > 1 /\ r.path[1] = "api"

\* serve_file; a path with a query string names no file
ServeFile(r) ==
    IF ~r.query /\ (r.path \in File \/ r.path \in {<<>>, <<"index.html">>})
    THEN "file" ELSE "not found"

\* std::regex_match of the whole target, and the method
Matches(route, r) == ~r.query /\ r.path = route.path /\ r.method = route.method

\* An io thread takes the handler of a request that is read.
Take(t, c) ==
    /\ phase = "up"
    /\ pc[t] = "idle"
    /\ client[c] = "ready"
    /\ \A u \in Thread : serving[u] # c
    /\ serving' = [serving EXCEPT ![t] = c]
    /\ IF IsApi(request[c])
       THEN /\ pc' = [pc EXCEPT ![t] = "lock"]
            /\ response' = response
       ELSE /\ pc' = [pc EXCEPT ![t] = "write"]
            /\ response' = [response EXCEPT ![c] = ServeFile(request[c])]
    /\ UNCHANGED <<serverVars, ok, mutex, calls, client, request, poolVars>>

\* The routes are tried in order; the first one that matches is taken.
Handles(i, r) ==
    /\ Matches(routes[i], r)
    /\ \A j \in 1..(i - 1) : ~Matches(routes[j], r)

\* std::lock_guard, and no route matches: 404
LockNotFound(t) ==
    /\ pc[t] = "lock"
    /\ mutex = NoThread
    /\ \A i \in 1..Len(routes) : ~Matches(routes[i], request[serving[t]])
    /\ response' = [response EXCEPT ![serving[t]] = "not found"]
    /\ pc' = [pc EXCEPT ![t] = "write"]
    /\ UNCHANGED <<serverVars, ok, mutex, serving, calls, client, request, poolVars>>

\* Mutant: the handler runs without the mutex.
LockNothing(t) ==
    /\ pc[t] = "lock"
    /\ mutex = NoThread
    /\ request[serving[t]].fits
    /\ \E i \in 1..Len(routes) :
        /\ Handles(i, request[serving[t]])
        /\ calls' = [calls EXCEPT ![t] = routes[i].calls]
    /\ mutex' = mutex
    /\ pc' = [pc EXCEPT ![t] = "call"]
    /\ UNCHANGED <<serverVars, ok, serving, client, request, response, poolVars>>

\* ... or the handler of the first one begins, the mutex held
Lock(t) ==
    /\ pc[t] = "lock"
    /\ mutex = NoThread
    /\ request[serving[t]].fits
    /\ \E i \in 1..Len(routes) :
        /\ Handles(i, request[serving[t]])
        /\ calls' = [calls EXCEPT ![t] = routes[i].calls]
    /\ mutex' = t
    /\ pc' = [pc EXCEPT ![t] = "call"]
    /\ UNCHANGED <<serverVars, ok, serving, client, request, response, poolVars>>

\* ... or std::stoi throws, out of the handler, of handle_request, which
\* closes the socket, and of ioc_.run(), which the io thread calls again
LockThrows(t) ==
    /\ pc[t] = "lock"
    /\ mutex = NoThread
    /\ ~request[serving[t]].fits
    /\ \E i \in 1..Len(routes) : Handles(i, request[serving[t]])
    /\ client' = [client EXCEPT ![serving[t]] = "gone"]
    /\ pc' = [pc EXCEPT ![t] = "idle"]
    /\ serving' = [serving EXCEPT ![t] = NoClient]
    /\ UNCHANGED <<serverVars, ok, mutex, calls, request, response, poolVars>>

-----------------------------------------------------------------------------
(* The handlers *)

\* the next operation acquires a connection, or waits until there is one
Acquire(t) ==
    /\ pc[t] = "call"
    /\ calls[t] # <<>>
    /\ free > 0
    /\ free' = free - 1
    /\ pc' = [pc EXCEPT ![t] = "execute"]
    /\ UNCHANGED <<serverVars, ok, mutex, serving, calls, client, request, response, other, lost>>

\* Mutant: the operation keeps its connection until the handler ends.
ExecuteKeeps(t) ==
    /\ pc[t] = "execute"
    /\ free' = IF Len(calls[t]) = 1 THEN free + 1 ELSE free
    /\ calls' = [calls EXCEPT ![t] = Tail(@)]
    /\ ok' = [ok EXCEPT ![t] = TRUE]
    /\ pc' = [pc EXCEPT ![t] = "call"]
    /\ UNCHANGED <<serverVars, mutex, serving, client, request, response, other, lost>>

\* ... runs its statement and releases the connection
Execute(t) ==
    /\ pc[t] = "execute"
    /\ free' = free + 1
    /\ calls' = [calls EXCEPT ![t] = Tail(@)]
    /\ ok' = [ok EXCEPT ![t] = TRUE]
    /\ pc' = [pc EXCEPT ![t] = "call"]
    /\ UNCHANGED <<serverVars, mutex, serving, client, request, response, other, lost>>

\* ... or fails to: the operation returns false, -1, nothing found
ExecuteFails(t) ==
    /\ pc[t] = "execute"
    /\ free' = free + 1
    /\ calls' = [calls EXCEPT ![t] = Tail(@)]
    /\ ok' = [ok EXCEPT ![t] = FALSE]
    /\ pc' = [pc EXCEPT ![t] = "call"]
    /\ UNCHANGED <<serverVars, mutex, serving, client, request, response, other, lost>>

\* json_response: only acknowledge looks at what its operation returned.
Answer(t) ==
    LET r == request[serving[t]] IN
    IF r.method = "POST" /\ r.path[2] = "alerts" /\ ~ok[t] THEN "refused" ELSE "result"

\* The handler returns; the lock_guard's scope ends.
Finish(t) ==
    /\ pc[t] = "call"
    /\ calls[t] = <<>>
    /\ response' = [response EXCEPT ![serving[t]] = Answer(t)]
    /\ mutex' = NoThread
    /\ pc' = [pc EXCEPT ![t] = "write"]
    /\ ok' = [ok EXCEPT ![t] = TRUE]
    /\ UNCHANGED <<serverVars, serving, calls, client, request, poolVars>>

\* handle_request: async_write is begun on a socket that is a parameter and
\* is closed when handle_request returns.  What the first write took is sent;
\* if that was not everything the response is cut off.
Write(t) ==
    /\ pc[t] = "write"
    /\ \/ client' = [client EXCEPT ![serving[t]] = "served"]
       \/ client' = [client EXCEPT ![serving[t]] = "gone"]
    /\ pc' = [pc EXCEPT ![t] = "idle"]
    /\ serving' = [serving EXCEPT ![t] = NoClient]
    /\ UNCHANGED <<serverVars, ok, mutex, calls, request, response, poolVars>>

\* The other users of the pool, one connection at a time each.
OtherAcquires(o) ==
    /\ free > 0
    /\ o \notin other
    /\ free' = free - 1
    /\ other' = other \union {o}
    /\ UNCHANGED <<serverVars, threadVars, client, request, response, lost>>

OtherReleases(o) ==
    /\ o \in other
    /\ free' = free + 1
    /\ other' = other \ {o}
    /\ UNCHANGED <<serverVars, threadVars, client, request, response, lost>>

\* ... and in log_profinet_packet dump() may throw on what a frame carried: the
\* thread goes on, its connection never comes back.
OtherLoses(o) ==
    /\ o \in other
    /\ lost' = lost + 1
    /\ other' = other \ {o}
    /\ UNCHANGED <<serverVars, threadVars, client, request, response, free>>

HandlerStep(t) ==
    \/ LockNotFound(t) \/ Lock(t) \/ LockThrows(t)
    \/ Acquire(t) \/ Execute(t) \/ ExecuteFails(t) \/ Finish(t) \/ Write(t)

HttpNext ==
    \/ Start \/ Stop \/ Join
    \/ \E c \in Client : Accept(c) \/ ReadFails(c) \/ \E r \in Request : ReadRequest(c, r)
    \/ \E t \in Thread : HandlerStep(t) \/ \E c \in Client : Take(t, c)
    \/ \E o \in Others : OtherAcquires(o) \/ OtherReleases(o) \/ OtherLoses(o)

HttpSpec == HttpInit /\ [][HttpNext]_httpVars

(* The io threads are scheduled; PostgreSQL answers; a mutex or a          *)
(* connection that is released again and again is got in the end.  Nobody  *)
(* keeps a connection for ever, but it may be lost instead of released.    *)
HttpFairSpec ==
    /\ HttpSpec
    /\ WF_httpVars(Join)
    /\ \A t \in Thread :
        /\ WF_httpVars(HandlerStep(t))
        /\ SF_httpVars(Lock(t) \/ LockNotFound(t) \/ LockThrows(t))
        /\ SF_httpVars(Acquire(t))
    /\ \A c \in Client : SF_httpVars(\E t \in Thread : Take(t, c))
    /\ \A o \in Others : WF_httpVars(OtherReleases(o) \/ OtherLoses(o))

-----------------------------------------------------------------------------
(* Properties *)

HttpTypeOK ==
    /\ phase \in {"init", "up", "stopping", "stopped"}
    /\ routes = IF phase = "init" THEN MetricsRoute ELSE MetricsRoute \o ApiRoutes
    /\ mutex \in Thread \union {NoThread}
    /\ client \in [Client -> {"away", "open", "ready", "served", "gone"}]
    /\ request \in [Client -> Request \union {NoRequest}]
    /\ response \in [Client -> {"none", "file", "not found", "refused", "result"}]
    /\ pc \in [Thread -> {"idle", "lock", "call", "execute", "write"}]
    /\ serving \in [Thread -> Client \union {NoClient}]
    /\ calls \in [Thread -> Seq(Operation)]
    /\ ok \in [Thread -> BOOLEAN]
    /\ free \in 0..PoolSize
    /\ other \subseteq Others
    /\ lost \in 0..PoolSize

(* However many io threads serve requests, their handlers use one          *)
(* connection of the pool at a time, so HTTP never takes the pool from     *)
(* AlertWsModule: routes_mutex_ is held while a handler runs, and each of  *)
(* its operations gives its connection back (l.317-326).  What the pool    *)
(* lacks beyond that is with another thread or was lost by one.            *)
OneConnectionForHttp ==
    /\ PoolSize - free - Cardinality(other) - lost \in {0, 1}
    /\ Cardinality({t \in Thread : pc[t] \in {"call", "execute"}}) <= 1

(* Every request that was read comes to an end, also when all io threads   *)
(* wait for the mutex and its holder waits for a connection, and after a   *)
(* handler that threw; unless the server is stopped before, or the last    *)
(* connection is lost: then the holder of the mutex waits for ever, and    *)
(* with it every API request (database.cpp l.74, 407).                     *)
RequestsEnd ==
    \A c \in Client :
        client[c] = "ready" ~>
            client[c] \in {"served", "gone"} \/ phase # "up" \/ lost = PoolSize

-----------------------------------------------------------------------------
(* The inductive invariant *)

\* A handler runs exactly while its thread holds routes_mutex_.
HandlerHoldsMutex ==
    \A t \in Thread : pc[t] \in {"call", "execute"} <=> mutex = t

\* A thread that executes an operation still has it among its calls.
ExecutesACall == \A t \in Thread : pc[t] = "execute" => calls[t] # <<>>

\* Each connection is in the pool, with another thread, with the one handler, or
\* lost.
PoolIsShared ==
    /\ IsFiniteSet(other)
    /\ free + Cardinality(other) + lost + (IF \E t \in Thread : pc[t] = "execute" THEN 1 ELSE 0)
         = PoolSize

\* A thread at work serves a client; nothing is written, and nobody was served,
\* without an answer.
AnswersComeFirst ==
    /\ \A t \in Thread : pc[t] # "idle" => serving[t] \in Client
    /\ \A t \in Thread : pc[t] = "write" => response[serving[t]] # "none"
    /\ \A c \in Client : client[c] = "served" => response[c] # "none"

HttpIInv ==
    HttpTypeOK /\ HandlerHoldsMutex /\ ExecutesACall /\ PoolIsShared /\ AnswersComeFirst

=============================================================================
