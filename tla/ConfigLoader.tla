---------------------------- MODULE ConfigLoader ----------------------------
(***************************************************************************)
(* The configuration (backend/include/config.h, config_loader.h) and what  *)
(* MonitorServer::init does with it (backend/src/main.cpp l.39-56): the    *)
(* defaults, under the environment, under the file, read key by key until  *)
(* a value of the wrong type throws; a copy is published with the          *)
(* environment applied once more, and the server keeps the original.       *)
(***************************************************************************)
EXTENDS Integers, Sequences

CONSTANTS
    Contents,     \* contents of the file: functions from some of the keys to values
    Environment,  \* the variables set: functions from some of EnvKey to values
    WrongType     \* a JSON value that get_to refuses

\* load_from_file reads the keys in this order.
DatabaseKeys == <<"host", "port", "name", "user", "password", "pool_size">>
ServerKeys == <<"profinet_port", "http_port", "websocket_port", "bind_address",
                "thread_pool_size">>
AlertKeys == <<"depth_threshold", "width_threshold", "sms_enabled", "websocket_enabled",
               "sms_gateway_url", "alert_phone_number">>
ParisLawKeys == <<"default_C", "default_m", "stress_ratio", "prediction_horizon_hours">>
DemKeys == <<"particle_radius_nm", "youngs_modulus", "poissons_ratio", "density",
             "max_particles", "simulation_steps", "time_step">>
FileKeys == DatabaseKeys \o ServerKeys \o AlertKeys \o ParisLawKeys \o DemKeys

Key == {FileKeys[i] : i \in 1..Len(FileKeys)}

\* apply_env: the keys with an environment variable, PM_DB_HOST to PM_SMS_ENABLED
EnvKey ==
    {"host", "port", "name", "user", "password", "pool_size",
     "profinet_port", "http_port", "websocket_port", "thread_pool_size",
     "depth_threshold", "width_threshold", "sms_enabled"}

Port == {"port", "profinet_port", "http_port", "websocket_port"}

\* The keys of an integer: get_to stores an int or throws, apply_env takes what
\* std::atoi makes of the variable.
IntKey == Port \union {"pool_size", "thread_pool_size", "prediction_horizon_hours",
                       "max_particles", "simulation_steps"}

ASSUME InputAssumption ==
    /\ \A f \in Contents :
        /\ DOMAIN f \subseteq Key
        /\ \A k \in IntKey \intersect DOMAIN f : f[k] # WrongType => f[k] \in Int
    /\ \A e \in Environment :
        /\ DOMAIN e \subseteq EnvKey
        /\ \A k \in IntKey \intersect DOMAIN e : e[k] \in Int

\* What the structs are initialised with; the value of a text or of a number
\* that nothing below computes with stands for itself.
Default == [k \in Key |->
    CASE k = "pool_size" -> 10
      [] k = "port" -> 5432
      [] k = "profinet_port" -> 34964
      [] k = "http_port" -> 8080
      [] k = "websocket_port" -> 8081
      [] k = "thread_pool_size" -> 8
      [] k = "depth_threshold" -> 200
      [] k = "width_threshold" -> 50
      [] k = "prediction_horizon_hours" -> 720
      [] k = "max_particles" -> 10000
      [] k = "simulation_steps" -> 1000
      [] OTHER -> "default"]

max_pool_size == 50

\* A number stored in a uint16_t; % of TLA+ is never negative.
U16(n) == n % 65536

\* get_to
FromFile(k, v) == IF k \in Port THEN U16(v) ELSE v

Least(x, y) == IF x < y THEN x ELSE y
Greatest(x, y) == IF x > y THEN x ELSE y

FromEnv(k, v) ==
    CASE k \in Port -> U16(v)
      [] k = "pool_size" -> Greatest(1, Least(v, max_pool_size))
      [] k = "thread_pool_size" -> Greatest(1, v)
      [] OTHER -> v

VARIABLES
    file,      \* contents of the file; none if it is missing or does not parse
    env,       \* the environment
    cfg,       \* the Config that load_from_file fills; then MonitorServer::cfg_
    position,  \* load_from_file has come to FileKeys[position]
    global,    \* get_config()
    stage      \* "read", "caught" (a wrong value), or "ready": init has published

configVars == <<file, env, cfg, position, global, stage>>

\* Config::apply_env
ApplyEnv(c) == [k \in Key |-> IF k \in DOMAIN env THEN FromEnv(k, env[k]) ELSE c[k]]

\* load_from_file applies the environment, then opens and parses the file.
ConfigInit ==
    /\ file \in Contents
    /\ env \in Environment
    /\ cfg = ApplyEnv(Default)
    /\ position = 1
    /\ global = Default
    /\ stage = "read"

\* if (x.contains(k)), for the next k
LooksAt(k) ==
    /\ stage = "read"
    /\ position <= Len(FileKeys)
    /\ FileKeys[position] = k

Skip ==
    /\ \E k \in Key \ DOMAIN file : LooksAt(k)
    /\ position' = position + 1
    /\ UNCHANGED <<file, env, cfg, global, stage>>

Read ==
    /\ \E k \in DOMAIN file :
        /\ LooksAt(k)
        /\ file[k] # WrongType
        /\ cfg' = [cfg EXCEPT ![k] = FromFile(k, file[k])]
    /\ position' = position + 1
    /\ UNCHANGED <<file, env, global, stage>>

\* The catch is outside the whole sequence: what was read stays, the rest is not read.
Throws ==
    /\ \E k \in DOMAIN file : LooksAt(k) /\ file[k] = WrongType
    /\ stage' = "caught"
    /\ UNCHANGED <<file, env, cfg, position, global>>

\* load_from_file has returned.
Loaded == stage = "caught" \/ (stage = "read" /\ position > Len(FileKeys))

\* Mutant: init publishes what load_from_file returned.
PublishFile ==
    /\ Loaded
    /\ global' = cfg
    /\ stage' = "ready"
    /\ UNCHANGED <<file, env, cfg, position>>

\* MonitorServer::init
Publish ==
    /\ Loaded
    /\ global' = ApplyEnv(cfg)
    /\ stage' = "ready"
    /\ UNCHANGED <<file, env, cfg, position>>

ConfigNext == Skip \/ Read \/ Throws \/ Publish

ConfigSpec == ConfigInit /\ [][ConfigNext]_configVars

-----------------------------------------------------------------------------
(* Properties *)

ConfigTypeOK ==
    /\ file \in Contents
    /\ env \in Environment
    /\ DOMAIN cfg = Key /\ \A k \in IntKey : cfg[k] \in Int
    /\ DOMAIN global = Key /\ \A k \in IntKey : global[k] \in Int
    /\ position \in 1..(Len(FileKeys) + 1)
    /\ stage \in {"read", "caught", "ready"}

\* The file gives k, and no key before it, nor k itself, has a wrong value.
Reached(k) ==
    \E i \in 1..Len(FileKeys) :
        /\ FileKeys[i] = k
        /\ k \in DOMAIN file
        /\ \A j \in 1..i : FileKeys[j] \in DOMAIN file => file[FileKeys[j]] # WrongType

InFile(k) == FromFile(k, file[k])

(* Wherever a broken file ends the reading, the published configuration is *)
(* the environment over what the file says before the break over the       *)
(* defaults (docker-compose.yml l.31-36 counts on it), while cfg_, which   *)
(* decides how many io threads there are and what the banner prints, has   *)
(* the file over the environment.                                          *)
Layered ==
    stage = "ready" =>
        LET reached == {k \in Key : Reached(k)} IN
        \A k \in Key :
            /\ global[k] = CASE k \in DOMAIN env -> FromEnv(k, env[k])
                             [] k \in reached \ DOMAIN env -> InFile(k)
                             [] OTHER -> Default[k]
            /\ cfg[k] = CASE k \in reached -> InFile(k)
                          [] k \in DOMAIN env \ reached -> FromEnv(k, env[k])
                          [] OTHER -> Default[k]

-----------------------------------------------------------------------------
(* The inductive invariant: how far load_from_file has come, and what it   *)
(* has done to the configuration by then.                                  *)

Fine(i) == FileKeys[i] \in DOMAIN file => file[FileKeys[i]] # WrongType

\* load_from_file has gone past k, and the file gives it.
Passed(k) == k \in DOMAIN file /\ \E i \in 1..(position - 1) : FileKeys[i] = k

LayerInv ==
    /\ \A i \in 1..(position - 1) : Fine(i)
    /\ stage # "read" => position = Len(FileKeys) + 1 \/ ~Fine(position)
    /\ \A k \in Key : cfg[k] = IF Passed(k) THEN InFile(k) ELSE ApplyEnv(Default)[k]
    /\ stage = "ready" => global = ApplyEnv(cfg)

=============================================================================
