# Verification of the porcelain monitoring system

TLA+ models of the server in `backend/` and of the sensors in `simulator/` that
talk to it, model-checked with TLC on small instances, with theorems proved by
TLAPS for every instance. File names are relative to the repository
root; line numbers are of the sources as they stand beside this directory.

Contents: 1 the system, 2 the modules, 3 what is checked, 4 fairness, 5 what is
proved, 6 disagreements, 7 what is not modelled, 8 the plan.

## 1. The system

Sensors send binary frames over TCP and UDP to one server process. The server
parses them, sends them through a pipeline of threads joined by lock-free
queues, stores everything in PostgreSQL, raises alerts, and pushes results to
browsers over WebSocket; browsers also ask for data over HTTP.

```
 sensors --TCP--> TcpSession --\                      /-> AlertWsModule <------------------\
         --UDP--> UdpServer  ---> ProfinetParser -> LaserFanOut                            |
                    (io threads)  (callbacks)         \-> CrackRouter -> CrackFanOut -> FatiguePredictor
                                                                                   \-> DemSimulator
 AlertWsModule -> DatabaseManager (pool) -> PostgreSQL
               -> AlertManager -> worker thread -> SMS log, WebSocketServer
               -> WebSocketServer.broadcast -> sessions (io threads) -> browsers
 browsers --HTTP--> HttpServer (io threads) -> DatabaseManager (the same pool)
```

| Component | State | Operations | Meets others through | Hard behaviour | Correct when |
|---|---|---|---|---|---|
| `LockFreeQueue` (`include/lockfree_queue.h`) | `head_`, `tail_`, heap nodes | push, try_pop, destructor | shared memory of many producers and one consumer | the list is broken between exchange and link; addresses come back | it is a FIFO queue, no use after delete, no leak |
| `ModuleBase` and the five modules on it (`include/module_base.h`, `include/modules/`) | `running_`, thread, input, outputs | start, run_loop, process, stop | queues | exceptions in the middle of several pushes; stop while messages are in flight | nothing lost, doubled, reordered |
| `MonitorServer` (`src/main.cpp`) | modules, queues, io context | init, wire_pipeline, start, stop | owns all | order of wiring and of stopping; joins of threads that may wait for ever | producers stop before their consumers; stop() ends |
| `AlertWsModule` (`include/modules/alert_ws_module.h`) | four inputs | poll loop, four handlers | queues, database, alerts, broadcast | one input starves another; a handler blocked in the pool | every message is handled when those before it pause |
| `AlertManager` (`src/alert_manager.cpp`) | `alert_queue_`, `running_`, mutex, condition variable | check_*, enqueue, worker loop, stop | AlertWsModule's thread, worker thread | lost wakeups, unlocking around sends, sends that throw | each stored alert is sent once, in order |
| `DatabasePool`, `DatabaseManager` (`src/database.cpp`) | `pool_`, `available_`, transactions | acquire, release, insert_*, get_*, batch_* | AlertWsModule's thread and the io threads | more threads than connections, connections that break, failed statements inside a transaction | connections exclusive and clean, transactions atomic |
| `TcpSession` (`src/tcp_server.cpp`) | `frame_buf_` | do_read, try_parse_frames, send_acknowledge | callbacks into the pipeline | frames cut by reads, frames that do not parse | frames tile the stream |
| `UdpServer`, `ProfinetServer` (`src/tcp_server.cpp`) | receive buffer, remote endpoint, sessions | do_receive, do_accept, stop | the same callbacks | one buffer and one endpoint for all senders, chains of handlers that must go on after errors, accepts after close | an acknowledge goes to whom it answers, once and in order; the chains go on |
| `ProfinetParser` (`src/profinet_parser.cpp`) | none | parse, parse_laser_data, parse_vibration_data, build_acknowledge | called by the sessions | reads past the end throw | total on arbitrary bytes |
| `WebSocketServer`, `WebSocketSession` (`src/websocket_server.cpp`) | `sessions_`, `send_queue_`, strand, mutex | accept, broadcast, do_send, on_write | two broadcasting threads, io threads | concurrent broadcasts, failed writes, a mutex taken twice | one write at a time, nothing lost |
| `HttpServer` (`src/http_server.cpp`) | routes, `routes_mutex_` | accept, route_request, handlers | the pool | a mutex held while a handler waits for a connection | each request is answered |
| `ConfigLoader` (`include/config_loader.h`, `config.h`) | two configurations: `cfg_` and the published one | load_from_file, apply_env | all | a file wrong in the middle; layers applied in two orders | each value comes from the layer it should, up to where the file is wrong |
| `CrackPropagationModel` (`algorithms/crack_propagation.cpp`) | the curve, the result | predict | the predictor module, HTTP | a curve that ends early, any configured horizon | the forecast is a point of the curve, the one for 720 hours |
| `DEMSimulation` (`algorithms/dem_simulation.cpp`) | particles, contacts | generate, run | the simulator module, HTTP | forces summed up and reset in an order | no particle is lost from the crack, the boundary stays |
| `MetricsRegistry`, `Logger` (`include/`) | counters, files | observe, serialize, log | all | cumulative buckets | sums are right |
| Sensor simulator (`simulator/main.cpp`) | socket, timers, reconnect count | connect, send chain, reconnect | TcpSession | several timers and handlers in flight | one send chain, bounded retries |
| Browser (`frontend/js/`) | socket, timers, page | connect, disconnect, heartbeat, reconnect, drawing | WebSocketServer, HttpServer | reconnect racing disconnect | one connection, none after disconnect |

`PROJECT.json` lists under "hazards" each place where these behaviours bite,
with the property that covers it or the reason why none does yet.

## 2. The modules

| Module | Models | Role |
|---|---|---|
| `FifoQueue` | an atomic FIFO queue | abstract specification |
| `LockFreeQueue` | `lockfree_queue.h`, one step per atomic access | implements `FifoQueue` |
| `MonitoringService` | accepted frames make outputs due, each is handled at most once, and those of one kind in the order of their frames | abstract specification |
| `Pipeline` | `main.cpp`, `module_base.h`, `modules/`, over atomic queues | implements `MonitoringService` |
| `MessageJournal` | messages handled one by one, each in one step: all it calls for is asked of the database once, and stored or refused, then it is announced; or it is given up and leaves nothing | abstract specification |
| `AlertHandlers` | the handlers of `alert_ws_module.h`, with the constraints of `database/init.sql` | implements `MessageJournal`, details `Pipeline`'s `HandleMessage` |
| `AlertManager` | `alert_manager.cpp` | details `AlertHandlers`' check functions |
| `TransactionStore` | rows of a transaction stored in one step, before they are reported | abstract specification |
| `DatabasePool` | pool, operations and transactions of `database.cpp` | implements `TransactionStore`, details `AlertHandlers`' database steps |
| `TcpSession` | `TcpSession` and the length logic of `ProfinetParser` | |
| `WebSocketServer` | `websocket_server.cpp` | |
| `HttpServer` | `http_server.cpp`, on a pool reduced to a count | |
| `SensorClient` | the connection of `simulator/main.cpp` | |
| `SensorPayload` | payloads of `simulator/main.cpp`, read by `profinet_parser.cpp` | part of `MonitorServer` |
| `ConfigLoader` | `config.h`, `config_loader.h`, and init in `main.cpp` | part of `MonitorServer` |
| `ProfinetServer` | `UdpServer` and `ProfinetServer` of `tcp_server.cpp`, and the io context | part of `MonitorServer` |
| `CrackPropagation` | predict of `crack_propagation.cpp` | part of `MonitorServer` |
| `DemSimulation` | `dem_simulation.cpp`, generation and run() | part of `MonitorServer` |
| `MonitorServer` | `main.cpp` from the configuration to the parts that run with it | composes the five above |
| `MC*` | constants of the instances (`SensorClient` needs none) | |
| `*_proofs` | theorems | |

The layers meet at abstractions that are themselves checked: `Pipeline` uses
sequences with atomic Append and Head where the code uses `LockFreeQueue`, and
`LockFreeQueue` is shown to implement exactly such a queue. The handling of one message by
`AlertWsModule` is one step of `Pipeline` and a sequence of steps of
`AlertHandlers`. That they amount to one step is what it is shown to implement
(`MessageJournal`), and `EveryMessageEnds` says when that step comes: as long as
dump() has not carried away every connection. Each of those steps is
in turn detailed: a database operation in `DatabasePool` (the handler is one of the threads of
`Thread`), a check function in `AlertManager` (it is the "caller"), a broadcast in
`WebSocketServer` (it is who calls `Broadcast`). `TcpSession`'s handled
frames are what `LaserCallback` and `VibrationCallback` of `Pipeline` accept,
and `SensorPayload` is what `TcpSession` leaves open as `LaserParses` and
`VibrationParses`.

### How state and actions correspond to the code

**LockFreeQueue.** `live`, `next` and `value` are the heap; a freed address
may be returned by the next `new`, so a stale pointer may meet a new node at
its old address. `ppc` and `cpc` are the program counters inside push and
try_pop; the local variables new_node, old_tail, old_head and next are
variables of the model. The code's compare_exchange_weak may fail spuriously
(`CasFail` is always enabled beside `CasOk`). `chain` is auxiliary: the nodes
from `head_` to `tail_` in the order of the exchanges, whether linked or not.
Only one thread pops (each queue is the input of one module), as the wiring
in `main.cpp` l.88-118 has it; each atomic access is one
step, and steps of the threads interleave (sequential consistency). The code's
weaker orders, acquire and release, are not modelled; what they are there for is
that a node's value, written before the exchange and the release store that make
the node reachable, is visible to the consumer that loads the link.

**Pipeline.** A message is a frame, or a frame and the number of one of its
cracks. `Outputs` is `wire_pipeline` together with the `process` functions:
what a module pushes for a message, in order; `Emit` is one push, so other
threads run between two pushes of one `process`, and `Throws` ends it early.
`Unwired` names the modules whose `set_input` was not called, `AsDrawn` is the
wiring that the banner of `main.cpp` prints, `AsBuilt` the one that
`wire_pipeline` makes. The sleep of an idle loop is not a step.
`TryNext` keeps `AlertWsModule`'s order: after each message it begins again at
the first input. A handler that logged a packet of `NotUtf8` has cost a connection (`Lost`), and with `PoolSize`
of them gone the next one that asks for a connection waits for ever (`AfterHandler`, `pc` is "blocked"). stop() is all of
`main.cpp` l.148-166: the modules one after another, the alert manager and the listeners inside AlertWsModule::stop
(`StopAlerts`, or `MissNotify` when the alert worker misses its wakeup, as `AlertManager` has it step by step), and the
joins of the io threads (`JoinThreads`). Where an output that is due can be is spelled out by `PathQueues` (the queues it
passes, under the `Message` that stands for it there), `InHands` (the modules on its `Path` that
have still to push it) and `WhenHandled`; `Places` is their union. `Beyond(q)` is what lies further down the pipeline than
`q`, `At(q)` what has got as far as `q`: the two in which the order of messages is stated.

**AlertManager.** Reports are checked crack by crack, each exceedance is a row
(`lastId`) and then an element of `alert_queue`. The mutex is a variable;
the wait on the condition variable is three steps (predicate, release-and-block,
wake up and lock again), wakeups may be spurious. `stop()` is called after the
caller was joined (`main.cpp` l.152-160).

**AlertHandlers.** `came` is the history of messages, and a message is known by
its number `n`. `ids` is `CrackInfo::id`, which nobody ever sets: it holds any
value of `Id`, the id of a row or not; `crackId` is the local `crack_id`.
`Code` is the code of a crack, its porcelain and the second of the insert, so that two
inserts within one second are refused by the UNIQUE of `init.sql` l.95; `Tick`
lets time pass anywhere. `place` is the crack of either loop over the cracks, that of handle_laser and that of
check_laser_data, where `todo` holds what check_crack_thresholds returned for it. The server refuses what breaks a constraint and may
refuse anything else (`MayRefuse`). The aux variable `refused` remembers it, and
`WholeOrNothing` judges what was announced by it. `MessageJournal` sees a message when its
handler returns: `Owed(m)` is what it calls for, `Stored(i)` and `Refused(i)` are what the database and
`refused` hold of message `i`. The points of a crack are one
row: `DatabasePool` has shown that they are stored together or not at all.

**DatabasePool.** `available` is the stack `available_`, `txn` the state of
each connection at the server. The constructor keeps the connections that could be opened, and
since a connection has no name but the order of opening, those are `1..n`. Six kinds of operation differ in what they
do with the connection they hold: one statement; a query; a statement after
`json::dump()`, which may throw; and three transactions of `Rows` statements,
that of insert_crack_points, which goes on after a failed one, those of the
batch_ functions, which give up and roll back, and that of
batch_insert_crack_detections, which alone looks at the answer of COMMIT and so
promises what it returns (`promised`).
`Break` closes a connection at any moment and nothing opens it again, as in the
code. A statement that fails inside a transaction aborts it, and COMMIT of an
aborted transaction rolls back and reports success, as PostgreSQL does.
`CommittedUnheard` is a commit whose answer is lost.

**TcpSession.** The stream is a sequence of bytes, delivered in reads of any
length up to `ReadSize`. Offsets, sizes and the base of a byte are constants,
so TLC can use bytes of one bit and a header of four while the theorems
hold for the sizes of the code; the ASSUMEs say what the code's numbers satisfy
(for instance that the limit of the buffer is at least the longest frame).
Acknowledges go to a socket with room for `Room` of them; a write that cannot
finish at once keeps a pointer to the local vector `ack`.

**WebSocketServer.** Each session has a strand (a queue of handlers); an idle
io thread takes the next handler of a strand that nobody runs. `do_send` and
`on_write` take `mutex`, and since std::mutex is not recursive a thread that
meets its own lock stays there. `Handshake` is the set of sessions that perform the handshake: empty in the
program as it is written, where nothing calls `run()`; a session in it has what `handle_http_request`, which nothing
calls either, would do. A write before the handshake is over fails.
`Sends` are the messages of the do_send handlers that wait on a strand (all of it but its one on_write, if there is
one) and `BeingPushed` that of the handler a thread is running; with `popped` and `send_queue` they are
what was broadcast, in this order.

**HttpServer.** `routes` is filled by the main thread, the route of `/metrics`
before those of the API; a route is a method, a path and the sequence of
database operations its handler calls. `Take` gives a request that was read to
an idle io thread; `Lock` finds the first route that matches and takes `routes_mutex_`,
which is held until the handler returns; each operation acquires one of the
`free` connections, which the `Others`, threads of AlertWsModule, use as well, and which they lose (`lost`) when
dump() throws (`OtherLoses`). A request has a flag
for a query string, which no regular expression of the routes matches, and one
for a number that std::stoi accepts; if it does not, the exception leaves the
handler and the lock is released.

**SensorClient.** The four threads of `main.cpp` l.494 share the io context, so
completion handlers of one sensor may run at the same time; `step[t]` names the
next access to a shared member within a handler. `ready` counts completions that
wait for a thread. `GoesOff` lets a timer go off only when no handler is running:
the code's timers are set to at least an interval of sending (l.134, 149, 171), its
handlers end in microseconds, so a timer armed by a handler does not fire before that handler is
done. The socket may be broken by the peer at any moment.

**SensorPayload.** Both programs go through a payload in the same nested loops: a head, items (cracks or
amplitudes), the parts of an item (points), a tail. `Writes` and `Reads` are the values that
build_laser_payload and build_vibration_payload append and that parse_laser_data and
parse_vibration_data read, block by block, each with its name and width; they are two
tables, since nothing but the care of their authors makes them agree. `put` and `get` are the places
of the writer and the reader in their loops, `Follow` is how a loop goes on: the writer's with the counts of
what was measured, the reader's with the counts it has read (`items`, `points`). `payload` has the values by the offset
at which they begin. `bytes` is how many bytes of the payload there are, from all down to none. Offsets count from where
the parser takes the payload, byte 20 of the frame: the sensor is one that keeps to the layout in `profinet_parser.h`. The simulator's
own payloads begin at byte 24 (section 6), and what is parsed of its frames is arbitrary, which `TcpSession` has as frames
that parse or do not; so no property says that a sensor is understood, only what the parser makes of a payload
that begins where it looks.

**ConfigLoader.** A file is a function from the keys it gives to values, one of which
may be of a type that get_to refuses. `position` says how far load_from_file has come in the
order of its keys; `Skip` and `Read` are one `if (x.contains(k)) get_to` each, and `Throws` the catch around all of them. Values that something
computes with are numbers: `U16` is the conversion to uint16_t, and `FromEnv` the clamping
of apply_env. `cfg` is the result of load_from_file and later `cfg_`, `global` what get_config()
returns. A missing file and one that does not parse are the file that gives no key.

**ProfinetServer.** `accept` and `udp` are the two chains of completion handlers: waiting for the
kernel, waiting for an io thread, or the handler's next step. They share `threads` threads with
each other and with the handlers of HTTP and of browsers; of those only that they may not come back is modelled
(`ThreadSticks`: a handler waits for a lost connection or for the holder of `routes_mutex_` who does, or for its own lock), at
any time and for any number of the threads. The sessions' handlers, which TcpSession models, do not block. A datagram
is in the socket's buffer (`inbox`, of size `Room`), then in `recv_buffer`, then in the
handler's copy. An accept may fail at any time (no file descriptors) and always does once the
acceptor is closed. What an acknowledge says may be `Garbage`, because the local vector it is sent
from may be gone; its address is copied by async_send_to. `answers` keeps beside each acknowledge
the datagram it was made for (auxiliary). Closing the acceptor while another thread accepts is a
data race of the code on the acceptor; the model takes close() as one step.

**CrackPropagation.** The loop of predict with its early end is kept, one turn a step; the
numbers are integers in the units that the module's head names. The load and the residual stress are the
defaults of `crack_propagation.h` l.29-32, which no caller changes, so that the sign of ΔK,
and with it whether a crack grows at all, follows from the code's own corrections of the stress.
Were ΔK positive, `Growth` would stand for any growth by one unit. `Quotient` is the integer division
of l.207, its comparison as a `size_t` included.

**DemSimulation.** One dimension, the depth, and integers: a step is a unit of time and gravity a
unit of acceleration, so particles fall out of the crack within a few steps, where with the
step of 1e-9 s of the code a crack has to be degenerate or the steps very many for
`ApplyBoundary` to put one back; what the property says does not depend on the scale. The
random generator is a choice among the points of the crack, and a contact pushes or pulls
(`ContactForce`), which stands for Hertz, damping and van der Waals. `contacts` are the first `MAX_CONTACTS` of
the touching pairs in the order of the two loops (`ComesBefore`), and `Push` adds up what they do to a particle. The phases of step() are
actions, since what one leaves the next reads.

**MonitorServer.** Init chooses a file, an environment and one of the parts; the configuration is
loaded and published, then the part runs with the numbers it takes from there: the number of io
threads from `cfg`, the horizon, the particles and the steps from `global`. The parts share nothing
but the published configuration, which nobody changes any more, so one part per behaviour loses no
interleaving that any of them could see. Two acceptors on one port end the process (`BindFails`).

### Readings of code that does not compile as it stands

Several places cannot be compiled literally. The models take the evident reading:
`alert_manager.cpp` l.148 and 152 (a prediction field of another name) only
affects the text of an alert; `alert_ws_module.h` l.105-119 modifies elements
of a const message; `tcp_server.cpp` l.58 and 128 call a private function of the
parser; `websocket_server.cpp` l.139-146 touches private members of the session;
`profinet_parser.cpp` l.141-145 gives an array of three numbers five initializers, two of
them the steps of the offset: read as three reads in order; `dem_simulation.cpp` l.16-17 and 222 concern
data the models abstract from; `UdpServer`'s `recv_buffer_{65536}` holds one
element; `get_laser_data` is declared and never defined.

## 3. What is checked

| Run | Instance | Shows |
|---|---|---|
| `LockFreeQueue` | 2 producers, 2 pushes each, 4 addresses | `NoUseAfterFree`, `NoLeak`, `EmptyAnswer`, refinement of `FifoQueue`, `EveryPushArrives` |
| `AlertManager` | 3 reports out of nine kinds | `Accounting`, `SentInOrder`, `NoMissedAlert`, `StoredIsSent`, `StopReturns` |
| `Pipeline_drawn` | 2 laser frames of 1 crack, `CrackFanOut` may throw | `ExactlyOnePlace`, `StoppedInOrder`, refinement of `MonitoringService`, which says that nothing is handled twice or out of order |
| `Pipeline_live` | 1 laser and 1 vibration frame, the predictor may throw, both frames may cost one of 2 connections | `DueIsHandled`, `StopCompletes` |
| `Pipeline_banner` | wiring as built | violated: a laser frame never reaches AlertWsModule |
| `AlertHandlers` | 2 messages out of six kinds, 2 seconds | `PointsUnderTheirCrack`, `WholeOrNothing`, refinement of `MessageJournal`, `EveryMessageEnds` |
| `DatabasePool` | 3 threads, 2 connections, transactions of 2 rows | `ExclusiveConnection`, `PoolIsClean`, refinement of `TransactionStore`, `OperationsReturn` |
| `TcpSession` | every stream of up to 12 one-bit bytes, every cutting into reads of up to 5 | `FramesTile`, `NoFrameWaits`, `NeverOverflows` |
| `WebSocketServer` | 2 sessions, one of which performs the handshake, 3 io threads, 3 broadcasts | `OneWrite`, `NothingLost` |
| `HttpServer` | 2 clients, 2 io threads, 2 connections, 1 other user of the pool, which may lose them | `OneConnectionForHttp`, `RequestsEnd` |
| `SensorClient` | 2 threads, 2 attempts to reconnect | `NeverStuck`, `Reconnects` |
| `MonitorServer` | files that give any of four keys rightly or wrongly, three environments; 0 to 2 io threads, 2 connections, 2 datagrams, a socket with room for one; six horizons, three cracks; 3 particles and a boundary, 4 steps; scans of up to two cracks of up to two points, spectra of 0 and 2 values, cut off anywhere | `Layered`, `AnswersGoBack`, `ServedWhileUp`, `ForecastAt720`, `HeldByCrack`, `NoPartialMeasurement` |

In `PROJECT.json` every property of a passing run has a mutant: a change of one
definition, as a plausible mistake in the code would make it, under which the
same run finds the property violated.

**Bounds.** `LockFreeQueue`: two producers are what it takes for links to be
stored out of order, two pushes for one producer to overtake itself, and five
nodes on four addresses force an address to come back while
pointers to its former node may be held. `AlertManager`: three reports of up to
four alerts fill the queue while the worker sends; the reports include values on, just
over and far from each threshold. `Pipeline`: two frames are needed for
overtaking, and one of each kind for the order in which AlertWsModule looks at its inputs, and to lose the
second of two connections to the second frame.
Cracks per frame are one; the loop over cracks inside `process` is in the
model and adds interleavings but no new kind of step. `DatabasePool`: three
threads on two connections make one wait while two hold, and make a release
meet a thread that comes late; two points let the first succeed and the second
fail. `TcpSession`: the longest frame is seven bytes and `ReadSize` is five, so
frames are longer and shorter than reads, and twelve bytes hold up to three
frames. `WebSocketServer`: with one session that performs the handshake at most one thread can be
stuck in the relock, so of three threads two keep the rest observable; three
broadcasts make messages wait behind the one that is written, and the other session is the program as written. `AlertHandlers`: two messages
and two seconds let codes collide within a message and between messages, and one
row that a stray id may hit is enough to give an alert to the wrong crack; two
connections let one packet that cannot be logged cost a connection, and two
cost all. `HttpServer`: two threads and two clients let one wait for the mutex of
the other, and the other user of the pool makes the holder wait, or for ever once it has lost
both connections. `SensorClient`: two handlers at a time are what the races
between the send chain, the deliberate disconnect and a reconnect need; two attempts
instead of ten let the client both come back and give up; one write is under way at a time,
since the next is begun seconds later. `MonitorServer`: a key of each section that the server computes with,
among them the first and a later one of a section, so that a file can be wrong before, at and after
each; two datagrams of two senders make the one endpoint stale, with one thread the two chains compete, and
with none nothing is served; the horizons are negative, 0, one whose quotient exceeds the
curve, 720 itself, longer ones, and one so long that the quotient is 0, the cracks unknown, below
and above the critical length; three particles in a crack of five
places touch and leave it within four steps; none, one and several cracks and points are
the cases of the loops over a payload.

`MaxPush`, `MaxReports`, `MaxOps`, `MaxMessages`, `MaxTime`, `MaxId`, `MaxWrites`
and `MaxBroadcast` bound how often the environment acts. The set of frames bounds `Pipeline`, the set of streams
`TcpSession`. All cfgs turn the deadlock check off because in each the program may
rightly come to rest: stopped, destroyed, or out of bounded work.

## 4. Fairness

* Threads: weak fairness of each thread's step. The operating system schedules
  every thread that can run; nothing else is assumed of the order.
* `SF_vars(CasOk)` in `LockFreeQueue`: compare_exchange_weak in a loop does
  not fail spuriously for ever when `head_` has not moved.
* `SF_vars(Enqueue)` in `AlertManager` and `SF_vars(Acquire(t))` in
  `DatabasePool`: a thread that again and again finds a mutex free, or a
  connection available, gets it at last. std::mutex and
  std::condition_variable promise no queue, but no implementation starves a
  waiter for ever on a lock that is released for whole sends or queries.
* `Pipeline`: the thread of AlertWsModule that waits in acquire() has no step, so fairness of
  its steps does not bring it back; the escapes of `DueIsHandled` and `StopCompletes` (`Lost >= PoolSize`) say so. What follows
  the joins of the modules is fair as a choice: `StopAlerts \/ MissNotify`, so the wakeup may be missed. The join of the io threads is
  fair only while connections are left.
* `WebSocketServer` is checked without fairness: after `ioc_.stop()` no strand runs any more, a thread may
  meet its own lock, and no property of it says that something comes about.
* `HttpServer`: strong fairness of taking the mutex, a connection and a
  request, for the same reasons as above, and weak fairness of the other users of the
  pool coming to an end with their connection, which they give back or lose. `SensorClient`: strong fairness of
  `TakeCompletion`, since the io context serves completions in order, and weak fairness
  of timers and of the network's answers (a connect succeeds or fails,
  a write ends).
* `ProfinetServer`: strong fairness of the kernel's handing over a waiting connection (accept does not
  fail for ever), of taking an accept's completion and a datagram's, since the io context serves completions in
  order, and weak fairness of the steps of a handler that runs. Nothing of the sort is said once
  `threads` is 0: then no handler is ever taken. `ThreadSticks` has no fairness, and may come as often as there are threads.
* Not assumed: that sensors send, that browsers connect, that anybody calls
  stop(), that connections break or are kept, that spurious wakeups come.

## 5. What is proved

`tlapm` checks all theorems for arbitrary constants under the named ASSUMEs.

**`LockFreeQueue_proofs`** — for any sets of producers and addresses and
any number of pushes: `TypeCorrect`, `MemorySafe` (`NoUseAfterFree`),
`NothingLeaks`, `EmptyAnswerCorrect` (an action property) and `Refinement`
(`Spec => Fifo!Spec`). None of these is inductive alone: that `oldTail[p]` is
live when a producer stores its link depends on the consumer being unable to
pass a node whose `next` is null. `IInv` says this through `chain`: the list
from `head_` to `tail_` has distinct live nodes, each linked to the next or with
exactly one producer about to link it (`ListInv`, `LinkInv`); a node not yet
exchanged is nobody else's (`HandInv`); the consumer's pointers are the first
two nodes of the chain, or one that just left it (`ConsumerInv`); every node but
the dummy carries a value (`ValueInv`); the destructor is alone (`DestroyInv`).
The refinement then maps exchange to push and a successful compare-and-swap to
pop, and every other step to a stutter.

**`AlertManager_proofs`** — for any reports, thresholds and switches:
`EveryAlertAccounted`, `AlertsSentInOrder`, `NoAlertMissed`, `SendsAreUnlocked`.
The inductive invariant is the conjunction of the four with the types and
`SmsCount`, which ties the length of the SMS log to the worker's place.

**`Connections_proofs`** — the three ends of a connection.
*Sessions of sensors* (`TcpSession`), for any stream, any cutting into reads, any layout
within the assumptions, in particular the sizes of the code:
`FramesTileTheStream`, `AllFramesAreHandled`, `OverflowIsUnreachable`. The
invariant adds `FramesInside`: what was erased was received, and frames lie
within what was erased. That the overflow check is unreachable follows from
`NoFrameWaits` at the end of the loop and the assumption that a 16-bit length
keeps a frame below the limit.
*Requests* (`HttpServer`), for any io threads, browsers, requests, size of the pool and other users of it:
`HttpTakesOneConnection` (`OneConnectionForHttp`). Two facts make it inductive: `mutex` is the thread that is
inside a handler, exactly (`HandlerHoldsMutex`), and the connections of the pool are the free ones, one for each other user
that has one, and one if some thread executes an operation (`PoolIsShared`). With several threads inside
handlers the second would not say how many connections they hold; the first lets there be one.
*Sensors* (`SensorClient`), for any number of threads, limit of reconnects and of writes under way:
`SensorIsNeverStuck` (`NeverStuck`). A completion that waits, or a handler half-way, is not enough to go on: the
handler of the deliberate disconnect ends with nothing but its own timer. `KeepsGoing` therefore
leaves it out (`StepDue`), which is inductive only with `OpenIsCounted`: a sensor whose
connection stands has used up its attempts only while connect's handler is still going to reset the count,
or schedule_reconnect's handler is going to close that connection.

**`DatabasePool_proofs`** — for any threads, any size of the pool, any mix of operations and any
number of rows: `ConnectionsAreExclusive` (`ExclusiveConnection`), `PoolStaysClean` (`PoolIsClean`) and
`StoresWholeTransactions` (`ImplementsStore`). That a connection comes back clean depends on what
its holder knows of the server's side while it holds it, so `IInv` has, beside the types and the two
properties, `HandInv` (a thread holds a connection exactly at the places between acquire and release),
`TransactionInv` (outside its transaction a held connection is clean; inside, its rows are those the
holder has inserted, unless it is aborted, and only insert_crack_points goes on in an aborted one)
and `StoredInv` (nothing of an operation is in the store before its commit, and a batch of detections that is
going to return true has all of its rows there). In the refinement COMMIT of an open transaction with
all of its rows is the store's Commit, the return of such a batch its Promise, and every
other step, a rollback reported as success included, a stutter.

**`WebSocketServer_proofs`** — for any sessions, io threads and broadcasts: `OneWriteAtATime` (`OneWrite`)
and `NoMessageLost` (`NothingLost`). `StrandInv` says that one thread at a time runs the handlers of a session and that
a mutex is held between two steps only by the thread that came from on_write into do_send and
waits for itself; it is what keeps that thread's message from being counted twice. `WriteInv`
makes the write under way, an on_write that waits and one that runs exclude each other,
without which a pop could take a message that nobody wrote. The rest is about sequences: the
messages of a strand without its on_write (`SendsFacts`, `PostSend`, `TakeHandler`).

**`Pipeline_proofs`** — for any frames, any numbers of cracks, any modules that throw or were never wired:
`StopsInOrder` (`StoppedInOrder`), `OnePlaceEach` (`ExactlyOnePlace`) and `PipelineImplementsService`
(`ImplementsService`: nothing that was not due is handled, nothing twice, each kind in order).
That an output is in one place at most is not inductive, and neither is the order of what was handled: both follow
from `OrderInv`, which orders all that is under way by `accepted`. A queue is in order, what was taken from it came
before what is still in it, and whatever has got further down, as an element of a queue, in a module's hand, handled or
given up, was made from strictly earlier frames (`QueueOrder`, `HandOrder`, `HandledOrder`, `AbandonedApart`). Strictness is what
forbids doubles: an output in two places would be made from a frame earlier than itself. `NothingLost`,
that each output that is due is somewhere or was given up, needs that order only where a
module throws. `StoppedInOrder` needs `StopInv`: the module that is being stopped, and all
behind it, have run until now. `GivenUp` and the hands of the modules that are to blame are
excluded from each other by `AbandonedApart`.

**`MonitorServer_proofs`** — for any file and environment whose numbers are integers, any plant, cracks and
boundary points: `LayersHold` (`Layered`), `AnswersReturn` (`AnswersGoBack`), `ForecastHolds` (`ForecastAt720`),
`CrackHolds` (`HeldByCrack`) and
`NothingPartial` (`NoPartialMeasurement`). `IInv` is the conjunction of one invariant for each part, and the types
of the configuration join them: that the horizon or the number of steps a part begins with is an integer is
what `ConfigTypeOK` says of what was published.
For the configuration, `LayerInv` says what `cfg` is at each `position`: the file's value for the keys that
were passed, the environment over the defaults for the others; once the
configuration is published, what was passed is what the property calls reached (`PassedReached`).
For the datagrams, `ChainInv` says that the next receive is begun only when the handler of the last has
ended, so that buffer and endpoint are those of the datagram in hand, and `ArrivalInv` orders what was answered
before what is in hand, and that before what waits in the socket; without it the order of the answers is not inductive.
For the prediction, `CurveInv` gives the curve a point at `(k - 1) * horizon` for each turn, so that the forecast
is about the quotient of two times (`QuotientBounds`); a negative horizon, whose index is larger than every size, is a
case of its own. That nothing grows (`NoGrowth`) is computed from the stresses of the code. For the particles, the places that random_point_in_crack and generate_boundary give are compared with the bound of
apply_boundary_conditions (`PointInReach`, `CrackFacts`): what is generated or put back is within it, and a phase that
leaves the positions and the boundary alone keeps that (`StillHeld`); integrate_positions, the only one that does not, is
followed by apply_boundary_conditions before anything else looks, which the place `at` says.
For the payloads, any scans and spectra and any cut: the values lie one behind the other in the order of the loops
(`OneBehindTheOther`), and the parser stands at a value whose place is its own, with the counts the sensor had (`InStep`); so
the next place of the one is the next place of the other (`NextPlace`). No induction over the length of a payload
is needed, since writer and reader go the same way step by step; that the tables agree up to the
JSON text (`SameTables`), and that a count is the last value of its block (`TableFacts`), is
computed from them. At json_length nothing but the text is left (`TextIsLast`), so that what was cut was the
text alone; and after the unchecked byte of l.122 the offset is past the end, so the next read throws.

**`AlertHandlers_proofs`** — for any messages, pool, ids that were never set and refusals: `PointsStayWithCrack`
(`PointsUnderTheirCrack`) and `HandledWholly` (`WholeOrNothing`). What a handler has done is known only by
where it is, so `IInv` says it place by place: `StoredInv` for the measurement, the cracks and their points before and within the
loop over the cracks, and that between insert_crack and insert_crack_points `crackId` is the row of this
very crack; `RaisedInv` for the alerts, each raised or still in `todo` while its crack is checked; `TraceInv`, that a message
that dump() may still end has left nothing; and `PlaceInv`, which message is in hand and where handlers of its kind
come to. That earlier messages stay handled, and those given up leave nothing, is one lemma for all
steps (`VerdictKept`): a step adds rows of the message in hand only, and takes none away.
`HandlersImplementJournal` (`ImplementsJournal`) is about the converse as well: nothing is tried twice, and nothing
that was not called for. `JournalInvariance` says so by the place of the handler (`Tried`): what was stored and what was refused
for the message in hand are apart, and together they are what it has come past. A step then either
changes neither side of that equation (`TryNothing`) or adds the same thing to both (`TryOne`). That an alert is not raised twice needs that
`todo` names each threshold once (`TodoInv`, `AlertsOfOnce`). A handler's steps change only the entry of its own
message (`StoresOnlyHere`), which the journal does not see before the handler returns; at its return the equation is
the outcome the journal asks for.

**Only model-checked.** Everything temporal under fairness (`EveryPushArrives`,
`StoredIsSent`, `StopReturns`, `DueIsHandled`, `StopCompletes`,
`OperationsReturn`, `EveryMessageEnds`, `RequestsEnd`,
`Reconnects`, `ServedWhileUp`), since the prover has no rules for fairness and ENABLED. Every
invariant, action property and refinement that a run checks is stated by a theorem.

## 6. Disagreements between code and documents

Shown by a run (see "findings" in `PROJECT.json`): the fan-outs are not wired
as the banner of `main.cpp` prints them; the first laser frame is pushed to a
null queue.

Met while modelling. The models follow the code, and the properties are stated so that
they say what holds in spite of these:

*Frames and payloads.* `tcp_server.cpp` l.29 reads the length at offset 12, inside the timestamp,
`profinet_parser.cpp` at 18 with the payload at 20, and the simulator (l.339-357)
puts the payload at 24; `README.md` l.86 says the header has 16 bytes. A sensor's
frame is cut by bits of its timestamp, and no payload of the simulator is understood as it was meant: the parser begins
four bytes too early. No property says otherwise; `NoPartialMeasurement` is about payloads that begin where the parser looks. The acknowledges of `TcpSession` (l.79-81)
and `UdpServer` (l.129-134) are local vectors that are gone when a write that did not
finish at once is carried out; so is the packet in the simulator's
send_data. `main.cpp` of the simulator resolves no names: with
`SIM_SERVER_IP=backend`, as `docker-compose.yml` l.47 and `docker/Dockerfile.simulator` l.15
have it, make_address throws in connect() and the simulator ends.

*Storing.* `profinet_parser.cpp` l.126 leaves `CrackInfo::id` unset, and `alert_ws_module.h`
l.115 does not put there what insert_crack returned: the alert of a crack names any crack
or none, and in the latter case the foreign key of `init.sql` l.225 refuses it, so that nobody is
alerted. Cracks stored within one second have the same code (`alert_ws_module.h` l.110) where
`init.sql` l.95 demands unique ones: of a scan with several cracks usually only
the first is stored, although `README.md` l.90-93 promises the points of each.
insert_crack_points writes numeric arrays into a column that `init.sql` l.115 makes a geometry, so with this
schema every insert of points fails; `AlertHandlers` does not type the columns and lets it succeed as well, and what
`PointsUnderTheirCrack` says concerns the program once the column or the statement is corrected.
After a failed insert insert_crack_points returns an id although its COMMIT
rolled back (`database.cpp` l.272-288); the batch_insert_ functions for scans and vibrations do not
look at COMMIT (l.719-726). log_profinet_packet (l.390-407) makes a
string of raw bytes and dumps it: dump() throws when they are not UTF-8, and the
connection is never released; `pool_size` such packets stop the server, which
`README.md` l.250 rates at more than 1000 packets per second: AlertWsModule waits in acquire(), the first API request that
needs a connection waits with `routes_mutex_` held, those after it wait for the mutex, stop() for AlertWsModule's
thread or the io threads. `DueIsHandled`, `StopCompletes`, `RequestsEnd`, `OperationsReturn` and `EveryMessageEnds` each
hold only up to that point, and say so. `database.cpp` l.107 logs the number of
connections asked for, whatever could be opened.

*Alerts.* `alert_manager.cpp` l.37-38: stop() clears `running_` and notifies
without `queue_mutex_`. If this falls between the worker's test of its predicate
and its wait, the worker sleeps on and the join never returns; `StopReturns` holds
exactly with this case left out (`wpc # "block"`), and in `StopCompletes` it is the end "missed". l.195: the worker tests `running_` before it looks at
the queue; alerts queued at that moment are stored but never sent. l.104-108: an
exceedance whose insert fails is not sent to anybody. l.114: the RMS threshold is
1.0e-6, in `README.md` l.237 it is 5.0e-7.

*Browsers.* `websocket_server.cpp` l.138: handle_accept never calls run(), so no
connection is ever upgraded, every write fails, and none of the messages that `README.md` l.207-212 promises
reaches a browser; no property says that one does. `WebSocketServer` checks the sending side of a session like that beside one
that is upgraded (`Handshake`). l.66: on_write calls do_send with
`mutex_` held, which do_send locks again, so the io thread waits for itself as
soon as two messages are queued. `README.md` l.198 and l.203-205 list requests that have no
route, and `main.cpp` l.195 announces `/metrics`, whose route is not looked at because
route_request tries the routes only for paths below /api/ (`http_server.cpp` l.318-327). A request with a
query string matches no route, also the one of `README.md` l.200 (`?horizon_hours=720`). A handler whose std::stoi throws ends without an
answer. The handlers of predict and simulate do not look at what insert_prediction and insert_simulation
return. The socket of a response is closed while its asynchronous write may be
under way (l.304-309). The page acknowledges an alert with a PUT that no route knows and
reports success all the same.

*Configuration.* load_from_file applies the environment before the file, `main.cpp` l.44-47 once
more after it: what is published has the environment on top, `cfg_` the file. The number of io threads
(l.131) and the ports of the banner come from `cfg_`, so `PM_THREAD_POOL` has no effect where the file gives
`thread_pool_size`, a `thread_pool_size` of 0 in the file, which apply_env would clamp only if
the variable were set, gives a server that accepts and answers nothing, and the banner may name
ports that nobody listens on. `config_loader.h` l.81-83 says of a file that is wrong in the middle that defaults
and environment are used; the values before the wrong one stay.

*Datagrams and connections.* The acceptors accept again after they were closed
(`tcp_server.cpp` l.184) until the io context stops; `sessions_` is never pruned before, and a
connection accepted around stop() is added after it was cleared.

*Numbers.* `prediction_horizon_hours` 0 divides by zero (`crack_propagation.cpp` l.207), which ends the process.
With the default load the residual compression makes ΔK negative for both stresses, so no crack ever grows: one below the critical
length has, after the first hour without growth, a time to failure of one hour and so the risk
CRITICAL, and one that is critical a time to failure of 0 and the risk NEGLIGIBLE, where
`README.md` l.95-99 promises a growth curve and a risk. Its Runge-Kutta steps multiply by dt twice.
integrate_positions of the DEM simulation sets the forces back (`dem_simulation.cpp` l.275) that detect_collisions has
summed up, before integrate_velocities reads them: the contact forces of `README.md` l.103 never act,
and all free particles fall alike. `HeldByCrack` is about what is left, and holds with or without them. A `simulation_steps` of -20 or less makes reserve throw; ModuleBase
catches it and the message is given up. The ids of boundary particles collide. The only metric that is ever set is a gauge, without labels.

## 7. What is not modelled, and why

* Values computed by the crack propagation model and the DEM simulation, and
  the vibration statistics: floating point and random numbers, beyond TLC. Of the
  former their control and the signs it depends on are modelled; depth, width, confidence and
  the XRD and history calibrations, which nobody calls, and the evaluation of a repair (rates,
  porosity, durability) are formulas without state.
* `MetricsRegistry`: the server only sets the gauge `pm_uptime_seconds`; nobody observes a histogram or
  counts, and the route that would serialize the registry is not reachable (section 6).
* The browser: `frontend/js/porcelain-viewer.js` l.86 declares a getter `gradient`
  without a setter and its constructor assigns it (l.7), which throws in a
  class; init() ends there, before the WebSocket client is created, and
  disconnect() of that client is called by nobody. A model of its reconnects
  would speak of states the page does not reach.
* Drawing and page layout, the logger: no behaviour a property is about. Of the database schema
  only the constraints that the handlers meet.
* In the simulator, the random measurements, `ShockVibrationInjector` and the
  configuration; its stop() is called by nobody.
* Functions that nobody calls: `add_callback`, `empty()`. (The batch_ functions,
  also uncalled, are in `DatabasePool`.)
* An endless stream of laser frames, under which AlertWsModule never looks at its other inputs
  (`alert_ws_module.h` l.57-62 begins again at the first after every message): the frames of an instance are finitely many, and
  `DueIsHandled` says that the others are handled when no more laser frames come.
* Signals, and the gauge that the main loop of `main.cpp` updates.

## 8. Plan

Order: what carries all data first, then what loses it, then the ends.

1. Done: the queue (`FifoQueue`, `LockFreeQueue`), the pipeline (`MonitoringService`, `Pipeline`), what handles its
   messages (`AlertHandlers`, `AlertManager`, `DatabasePool`), both ends (`TcpSession`, `ProfinetServer`, `SensorPayload`,
   `SensorClient`, `WebSocketServer`, `HttpServer`), the numerical parts (`CrackPropagation`, `DemSimulation`), and their
   configuration (`ConfigLoader`, `MonitorServer`); proofs of the queue, the pipeline, the handlers of
   messages, the alert manager, the pool, the sessions of sensors and of browsers, requests, sensors and their payloads,
   the configuration, the datagrams and the numerical parts.
2. Abstract specifications: a client that is connected, waiting to retry or has given
   up, implemented by `SensorClient`; a mailbox per session, implemented by
   `WebSocketServer`.
