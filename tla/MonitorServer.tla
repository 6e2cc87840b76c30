---------------------------- MODULE MonitorServer ----------------------------
(***************************************************************************)
(* MonitorServer (backend/src/main.cpp) from its configuration on: init    *)
(* loads and publishes it, the servers bind their ports, and then the      *)
(* parts run with the numbers they find there.  The parts of this module   *)
(* share nothing but the configuration, which nobody writes any more; so a *)
(* behaviour runs one of them, and between them these are all.             *)
(***************************************************************************)
EXTENDS ConfigLoader, SensorPayload, FiniteSets

CONSTANTS
    Setting,      \* which part runs with which contents of the file and which environment
    Connection, Datagram, From, Parses, Room, Garbage,                       \* ProfinetServer
    Crack, time_steps,                                                       \* CrackPropagation
    Half, MaxDist, MinDist, Fixed, ContactForce, MAX_CONTACTS, CheckEvery    \* DemSimulation

Part == {"none", "profinet", "predict", "simulate", "parse"}

ASSUME SettingAssumption ==
    \A s \in Setting : s.part \in Part /\ s.file \in Contents /\ s.env \in Environment

VARIABLES
    part,       \* the part that runs
    outcome,    \* "runs", or "fatal": an exception has left init
    threads, acceptor, accept, accepted, sessions, connection, inbox, sent, receiving, received,
    recv_buffer, remote_endpoint, udp, data, answers, server,
    horizon, initial, turn, length, time_hours, crack_length, time_to_failure, predicted,
    risk_level, phase,
    tries, max_steps, particles, contacts, step, at

Profinet == INSTANCE ProfinetServer
Fatigue == INSTANCE CrackPropagation WITH i <- turn, a <- length
Dem == INSTANCE DemSimulation

ASSUME PartsAssumption ==
    Profinet!PlantAssumption /\ Fatigue!PredictAssumption /\ Dem!CrackAssumption

mainVars == <<part, outcome>>
profinetVars == <<threads, acceptor, accept, accepted, sessions, connection, inbox, sent, receiving,
                  received, recv_buffer, remote_endpoint, udp, data, answers, server>>
fatigueVars == <<horizon, initial, turn, length, time_hours, crack_length, time_to_failure,
                 predicted, risk_level, phase>>
demVars == <<tries, max_steps, particles, contacts, step, at>>
vars == <<mainVars, configVars, profinetVars, fatigueVars, demVars, payloadVars>>

\* No payload, where none is parsed
NoPayload == measured = CHOOSE m \in Measured : TRUE

Init ==
    /\ \E s \in Setting : part = s.part /\ file = s.file /\ env = s.env
    /\ outcome = "runs"
    /\ ConfigInit
    /\ Profinet!Init
    /\ Fatigue!Init
    /\ Dem!Init
    /\ PayloadInit
    /\ part # "parse" => NoPayload

\* MonitorServer::init up to the configuration
LoadConfig ==
    /\ ConfigNext
    /\ UNCHANGED <<mainVars, profinetVars, fatigueVars, demVars, payloadVars>>

\* Two acceptors cannot have one port, unless it is 0 and the system chooses.
Clash ==
    \E k, l \in {"profinet_port", "http_port", "websocket_port"} :
        k # l /\ global[k] = global[l] /\ global[k] # 0

\* The constructor of an acceptor throws, and main returns 1.
BindFails ==
    /\ stage = "ready"
    /\ outcome = "runs"
    /\ Clash
    /\ outcome' = "fatal"
    /\ UNCHANGED <<part, configVars, profinetVars, fatigueVars, demVars, payloadVars>>

Runs(p) == part = p /\ stage = "ready" /\ outcome = "runs" /\ ~Clash

\* start() counts the io threads by cfg_, not by the published configuration.
ProfinetRuns ==
    /\ Runs("profinet")
    /\ Profinet!Start(cfg["thread_pool_size"]) \/ Profinet!Next
    /\ UNCHANGED <<mainVars, configVars, fatigueVars, demVars, payloadVars>>

\* FatiguePredictorModule, for a crack
FatigueRuns ==
    /\ Runs("predict")
    /\ \/ \E l \in Crack : Fatigue!Begin(global["prediction_horizon_hours"], l)
       \/ Fatigue!Next
    /\ UNCHANGED <<mainVars, configVars, profinetVars, demVars, payloadVars>>

\* DemSimulatorModule, for a crack
DemRuns ==
    /\ Runs("simulate")
    /\ Dem!Begin(global["max_particles"], global["simulation_steps"]) \/ Dem!Next
    /\ UNCHANGED <<mainVars, configVars, profinetVars, fatigueVars, payloadVars>>

\* ProfinetParser, for a payload
ParserRuns ==
    /\ Runs("parse")
    /\ ParserNext
    /\ UNCHANGED <<mainVars, configVars, profinetVars, fatigueVars, demVars>>

Next == LoadConfig \/ BindFails \/ ProfinetRuns \/ FatigueRuns \/ DemRuns \/ ParserRuns

Spec == Init /\ [][Next]_vars

FairSpec == Spec /\ Profinet!Fairness

-----------------------------------------------------------------------------
(* Properties: those of the parts, which state them; Layered and           *)
(* NoPartialMeasurement come with their modules.                           *)

TypeOK ==
    /\ part \in Part
    /\ outcome \in {"runs", "fatal"}
    /\ ConfigTypeOK /\ Profinet!TypeOK /\ Fatigue!TypeOK /\ Dem!TypeOK /\ PayloadTypeOK

(* An acknowledge goes to the sender of its datagram, once and in order.   *)
AnswersGoBack == Profinet!AnswersGoBack

(* While one io thread is not stuck in a handler of another component,     *)
(* connections and datagrams are served until stop().                      *)
ServedWhileUp == Profinet!ServedWhileUp

(* For any configured horizon of 720 hours or more the stored forecast is  *)
(* the one for 720 hours, and for a shorter one the last of the curve.     *)
ForecastAt720 == Fatigue!ForecastAt720

(* After every step the particles are where the crack can hold them.       *)
HeldByCrack == Dem!HeldByCrack

\* The inductive invariant is that of the parts.
IInv ==
    TypeOK /\ LayerInv /\ Profinet!IInv /\ Fatigue!IInv /\ Dem!IInv /\ PayloadIInv

=============================================================================
