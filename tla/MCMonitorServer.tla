--------------------------- MODULE MCMonitorServer ---------------------------
(* Small instances of MonitorServer for TLC.                               *)
EXTENDS MonitorServer, TLC

\* For the precedence: a key of each section, given right, wrong or not at all,
\* with the variables of docker-compose.yml, a number that must be clamped, and none
SomeKeys == {"pool_size", "http_port", "sms_enabled", "thread_pool_size"}
Good == [k \in SomeKeys |-> CASE k = "http_port" -> 73616 [] k = "sms_enabled" -> "no"
                               [] OTHER -> 0]
FileOf(some, wrong) == [k \in some |-> IF k \in wrong THEN WrongType ELSE Good[k]]
Files == {FileOf(some, wrong) : some \in SUBSET SomeKeys, wrong \in SUBSET SomeKeys}
Environments == {<<>>, "host" :> "postgres" @@ "pool_size" :> 20,
                 "pool_size" :> 99 @@ "thread_pool_size" :> -1}

Set(p, f) == [part |-> p, file |-> f, env |-> <<>>]

SomeSettings ==
    {[part |-> "none", file |-> f, env |-> e] : f \in Files, e \in Environments}
    \union {Set("profinet", "thread_pool_size" :> n) : n \in 0..2}
    \union {Set("predict", "prediction_horizon_hours" :> h)
                : h \in {-24, 0, 24, 720, 1000, 100000}}
    \union {Set("simulate", "max_particles" :> n @@ "simulation_steps" :> s)
                : n \in {0, 30}, s \in {-20, 4}}
    \union {Set("parse", <<>>), Set("none", "http_port" :> 34964)}

SomeContents == {s.file : s \in SomeSettings}
SomeEnvironments == {s.env : s \in SomeSettings}

FewSenders == "d1" :> "s1" @@ "d2" :> "s2"
FewFixed == {<<>>, <<-1>>}
PullOrPush == {-1, 1}

\* No crack, one, and two, with up to two points.
FewCracks == {<<>>, <<0>>, <<2>>, <<1, 1>>}
=============================================================================
