------------------------ MODULE MonitorServer_proofs ------------------------
(***************************************************************************)
(* Proofs about MonitorServer: the layers of the configuration, and the    *)
(* parts that run with the numbers it gives them, for every file,          *)
(* environment, plant, crack, set of particles and payload.                *)
(***************************************************************************)
EXTENDS MonitorServer, TLAPS, FiniteSetTheorems

(* The configuration.                                                      *)

\* The keys load_from_file goes through are a sequence.
LEMMA KeyFacts ==
    /\ Len(FileKeys) \in Nat
    /\ \A i \in 1..Len(FileKeys) : FileKeys[i] \in Key
    /\ IntKey \subseteq Key
<1>1. Len(FileKeys) = 28
  BY DEF FileKeys, DatabaseKeys, ServerKeys, AlertKeys, ParisLawKeys, DemKeys
<1>2. Key = {"host", "port", "name", "user", "password", "pool_size",
             "profinet_port", "http_port", "websocket_port", "bind_address", "thread_pool_size",
             "depth_threshold", "width_threshold", "sms_enabled", "websocket_enabled",
             "sms_gateway_url", "alert_phone_number",
             "default_C", "default_m", "stress_ratio", "prediction_horizon_hours",
             "particle_radius_nm", "youngs_modulus", "poissons_ratio", "density",
             "max_particles", "simulation_steps", "time_step"}
  BY DEF Key, FileKeys, DatabaseKeys, ServerKeys, AlertKeys, ParisLawKeys, DemKeys
<1>3. IntKey \subseteq Key
  BY <1>2 DEF IntKey, Port
<1> QED BY <1>1, <1>3 DEF Key

\* What the defaults and the environment give for an integer is one.
LEMMA EnvInt ==
    ASSUME ConfigTypeOK, NEW c, \A k \in IntKey : c[k] \in Int
    PROVE  /\ DOMAIN ApplyEnv(c) = Key
           /\ \A k \in IntKey : ApplyEnv(c)[k] \in Int
<1>1. ASSUME NEW k \in IntKey, k \in DOMAIN env PROVE FromEnv(k, env[k]) \in Int
  <2>1. env[k] \in Int
    BY <1>1, InputAssumption DEF ConfigTypeOK
  <2> QED BY <2>1 DEF FromEnv, U16, Least, Greatest, max_pool_size
<1> QED BY <1>1, KeyFacts DEF ApplyEnv

LEMMA DefaultInt == \A k \in IntKey : Default[k] \in Int
BY KeyFacts DEF Default, IntKey, Port

\* So is what the file gives, where it is not wrong.
LEMMA FileInt ==
    ASSUME ConfigTypeOK, NEW k \in IntKey \intersect DOMAIN file, file[k] # WrongType
    PROVE  InFile(k) \in Int
<1>1. file[k] \in Int
  BY InputAssumption DEF ConfigTypeOK
<1> QED BY <1>1 DEF InFile, FromFile, U16

LEMMA ConfigInitInv ==
    ASSUME ConfigInit PROVE ConfigTypeOK /\ LayerInv
<1>1. /\ DOMAIN Default = Key
      /\ file \in Contents
      /\ env \in Environment
  BY DEF ConfigInit, Default
<1>2. ASSUME NEW k \in IntKey, k \in DOMAIN env PROVE FromEnv(k, env[k]) \in Int
  <2>1. env[k] \in Int
    BY <1>1, <1>2, InputAssumption
  <2> QED BY <2>1 DEF FromEnv, U16, Least, Greatest, max_pool_size
<1>3. /\ DOMAIN ApplyEnv(Default) = Key
      /\ \A k \in IntKey : ApplyEnv(Default)[k] \in Int
  BY <1>2, KeyFacts, DefaultInt DEF ApplyEnv
<1>4. ConfigTypeOK
  BY <1>1, <1>3, KeyFacts, DefaultInt DEF ConfigInit, ConfigTypeOK
<1>5. LayerInv
  BY DEF ConfigInit, LayerInv, Passed
<1> QED BY <1>4, <1>5

\* load_from_file goes past a key.
LEMMA SkipInv ==
    ASSUME ConfigTypeOK, LayerInv, Skip PROVE (ConfigTypeOK /\ LayerInv)'
<1>1. PICK k \in Key \ DOMAIN file : LooksAt(k)
  BY DEF Skip
<1>2. /\ stage = "read" /\ position \in 1..Len(FileKeys) /\ FileKeys[position] = k
      /\ position' = position + 1
      /\ UNCHANGED <<file, env, cfg, global, stage>>
  BY <1>1, KeyFacts DEF LooksAt, ConfigTypeOK, Skip
<1>3. ConfigTypeOK'
  BY <1>2, KeyFacts DEF ConfigTypeOK
<1>4. \A i \in 1..(position' - 1) : i \in 1..(position - 1) \/ i = position
  BY <1>2
<1>5. Fine(position)
  BY <1>1, <1>2 DEF Fine
<1>6. \A l \in Key : Passed(l)' <=> Passed(l)
  BY <1>1, <1>2, <1>4 DEF Passed
<1>7. ApplyEnv(Default)' = ApplyEnv(Default) /\ \A l \in Key : InFile(l)' = InFile(l)
  BY <1>2 DEF ApplyEnv, InFile
<1>8. LayerInv'
  BY <1>2, <1>4, <1>5, <1>6, <1>7 DEF LayerInv, Fine
<1> QED BY <1>3, <1>8

LEMMA ReadInv ==
    ASSUME ConfigTypeOK, LayerInv, Read PROVE (ConfigTypeOK /\ LayerInv)'
<1>1. PICK k \in DOMAIN file :
        /\ LooksAt(k)
        /\ file[k] # WrongType
        /\ cfg' = [cfg EXCEPT ![k] = FromFile(k, file[k])]
  BY DEF Read
<1>2. /\ stage = "read" /\ position \in 1..Len(FileKeys) /\ FileKeys[position] = k
      /\ position' = position + 1
      /\ UNCHANGED <<file, env, global, stage>>
  BY <1>1, KeyFacts DEF LooksAt, ConfigTypeOK, Read
<1>3. k \in Key
  BY <1>2, KeyFacts
<1>4. k \in IntKey => InFile(k) \in Int
  BY <1>1, FileInt
<1>5. ConfigTypeOK'
  BY <1>1, <1>2, <1>3, <1>4, KeyFacts DEF ConfigTypeOK, InFile
<1>6. \A i \in 1..(position' - 1) : i \in 1..(position - 1) \/ i = position
  BY <1>2
<1>7. Fine(position)
  BY <1>1, <1>2 DEF Fine
<1>8. /\ position \in 1..(position' - 1)
      /\ 1..(position - 1) \subseteq 1..(position' - 1)
  BY <1>2
<1>9. \A l \in Key : Passed(l)' <=> Passed(l) \/ l = k
  BY <1>1, <1>2, <1>6, <1>8 DEF Passed
<1>10. ApplyEnv(Default)' = ApplyEnv(Default) /\ \A l \in Key : InFile(l)' = InFile(l)
  BY <1>2 DEF ApplyEnv, InFile
<1>11. \A l \in Key : cfg'[l] = IF l = k THEN InFile(k) ELSE cfg[l]
  BY <1>1 DEF ConfigTypeOK, InFile
<1>12. LayerInv'
  BY <1>2, <1>6, <1>7, <1>9, <1>10, <1>11 DEF LayerInv, Fine
<1> QED BY <1>5, <1>12

LEMMA ThrowsInv ==
    ASSUME ConfigTypeOK, LayerInv, Throws PROVE (ConfigTypeOK /\ LayerInv)'
<1>1. ~Fine(position) /\ stage' = "caught" /\ UNCHANGED <<file, env, cfg, position, global>>
  BY DEF Throws, LooksAt, Fine
<1>2. ConfigTypeOK'
  BY <1>1 DEF ConfigTypeOK
<1>3. LayerInv'
  BY <1>1 DEF LayerInv, Fine, Passed, InFile, ApplyEnv
<1> QED BY <1>2, <1>3

LEMMA PublishInv ==
    ASSUME ConfigTypeOK, LayerInv, Publish PROVE (ConfigTypeOK /\ LayerInv)'
<1>1. /\ global' = ApplyEnv(cfg) /\ stage' = "ready" /\ UNCHANGED <<file, env, cfg, position>>
      /\ stage # "read" \/ position = Len(FileKeys) + 1
  BY KeyFacts DEF Publish, Loaded, ConfigTypeOK
<1>2. ConfigTypeOK'
  BY <1>1, EnvInt DEF ConfigTypeOK
<1>3. LayerInv'
  BY <1>1 DEF LayerInv, Fine, Passed, InFile, ApplyEnv
<1> QED BY <1>2, <1>3

LEMMA ConfigNextInv ==
    ASSUME ConfigTypeOK, LayerInv, ConfigNext \/ UNCHANGED configVars
    PROVE  (ConfigTypeOK /\ LayerInv)'
<1>1. CASE UNCHANGED configVars
  BY <1>1 DEF configVars, ConfigTypeOK, LayerInv, Fine, Passed, InFile, ApplyEnv
<1> QED BY <1>1, SkipInv, ReadInv, ThrowsInv, PublishInv DEF ConfigNext

\* Once the configuration is published, what load_from_file went past is what
\* the property says it reached.
LEMMA PassedReached ==
    ASSUME ConfigTypeOK, LayerInv, stage = "ready", NEW k \in Key
    PROVE  Passed(k) <=> Reached(k)
<1>1. ASSUME Passed(k) PROVE Reached(k)
  <2>1. PICK i \in 1..(position - 1) : FileKeys[i] = k
    BY <1>1 DEF Passed
  <2>2. i \in 1..Len(FileKeys) /\ \A j \in 1..i : j \in 1..(position - 1)
    BY <2>1, KeyFacts DEF ConfigTypeOK
  <2> QED BY <1>1, <2>1, <2>2 DEF Passed, Reached, LayerInv, Fine
<1>2. ASSUME Reached(k) PROVE Passed(k)
  <2>1. PICK i \in 1..Len(FileKeys) :
          FileKeys[i] = k /\ k \in DOMAIN file /\ \A j \in 1..i : Fine(j)
    BY <1>2 DEF Reached, Fine
  <2>2. position \notin 1..i
    BY <2>1, KeyFacts DEF LayerInv
  <2>3. i \in 1..(position - 1)
    BY <2>2, KeyFacts DEF ConfigTypeOK
  <2> QED BY <2>1, <2>3 DEF Passed
<1> QED BY <1>1, <1>2

LEMMA LayerInvImplies ==
    ASSUME ConfigTypeOK, LayerInv PROVE Layered
<1> SUFFICES ASSUME stage = "ready", NEW k \in Key
             PROVE  /\ global[k] = CASE k \in DOMAIN env -> FromEnv(k, env[k])
                             [] k \in {l \in Key : Reached(l)} \ DOMAIN env -> InFile(k)
                             [] OTHER -> Default[k]
                    /\ cfg[k] = CASE k \in {l \in Key : Reached(l)} -> InFile(k)
                          [] k \in DOMAIN env \ {l \in Key : Reached(l)} -> FromEnv(k, env[k])
                          [] OTHER -> Default[k]
  BY DEF Layered
<1>1. k \in {l \in Key : Reached(l)} <=> Passed(k)
  BY PassedReached
<1>2. cfg[k] = IF Passed(k) THEN InFile(k) ELSE ApplyEnv(Default)[k]
  BY DEF LayerInv
<1>3. global[k] = ApplyEnv(cfg)[k]
  BY DEF LayerInv
<1>4. /\ ApplyEnv(cfg)[k] = IF k \in DOMAIN env THEN FromEnv(k, env[k]) ELSE cfg[k]
      /\ ApplyEnv(Default)[k] = IF k \in DOMAIN env THEN FromEnv(k, env[k]) ELSE Default[k]
  BY DEF ApplyEnv
<1> QED BY <1>1, <1>2, <1>3, <1>4

-----------------------------------------------------------------------------
(* Connections and datagrams.                                              *)

LEMMA PlantFacts == Profinet!PlantAssumption
BY PartsAssumption

\* What was sent before stays so when another datagram is sent, and all of it
\* before that one.
LEMMA BeforeGrows ==
    ASSUME NEW s \in Seq(Datagram), NEW d \in Datagram
    PROVE  /\ \A a, b : Profinet!Before(s, a, b) => Profinet!Before(Append(s, d), a, b)
           /\ \A i \in 1..Len(s) : Profinet!Before(Append(s, d), s[i], d)
<1>1. /\ Len(Append(s, d)) = Len(s) + 1
      /\ \A i \in 1..Len(s) : Append(s, d)[i] = s[i]
      /\ Append(s, d)[Len(s) + 1] = d
  OBVIOUS
<1>2. Len(s) \in Nat
  OBVIOUS
<1>3. ASSUME NEW a, NEW b, Profinet!Before(s, a, b) PROVE Profinet!Before(Append(s, d), a, b)
  <2>1. PICK i, j \in 1..Len(s) : i < j /\ s[i] = a /\ s[j] = b
    BY <1>3 DEF Profinet!Before
  <2>2. i \in 1..Len(Append(s, d)) /\ j \in 1..Len(Append(s, d))
    BY <1>1, <1>2, <2>1
  <2> QED BY <1>1, <2>1, <2>2 DEF Profinet!Before
<1>4. ASSUME NEW i \in 1..Len(s) PROVE Profinet!Before(Append(s, d), s[i], d)
  <2>1. i \in 1..Len(Append(s, d)) /\ Len(s) + 1 \in 1..Len(Append(s, d)) /\ i < Len(s) + 1
    BY <1>1, <1>2
  <2> QED BY <1>1, <2>1 DEF Profinet!Before
<1> QED BY <1>3, <1>4

LEMMA ProfinetInitInv ==
    ASSUME Profinet!Init PROVE Profinet!IInv
<1>1. /\ Len(answers) = 0 /\ Len(inbox) = 0 /\ answers = <<>> /\ inbox = <<>> /\ sent = <<>>
      /\ udp = "off" /\ received = FALSE /\ receiving = FALSE
  BY DEF Profinet!Init
<1>2. Profinet!TypeOK
  <2>1. /\ inbox \in Seq(Datagram) /\ sent \in Seq(Datagram)
        /\ answers \in Seq([to : {From[d] : d \in Datagram}, cycle : Datagram \union {Garbage},
                            of : Datagram])
    BY <1>1
  <2>2. Len(inbox) <= Room
    BY <1>1, PlantFacts DEF Profinet!PlantAssumption
  <2> HIDE DEF Profinet!None
  <2> QED BY <2>1, <2>2 DEF Profinet!Init, Profinet!TypeOK
<1>3. Profinet!AcceptInv
  BY DEF Profinet!Init, Profinet!AcceptInv
<1>4. Profinet!ChainInv
  BY <1>1 DEF Profinet!ChainInv
<1>5. \A d \in Datagram : ~Profinet!InHand(d)
  BY <1>1 DEF Profinet!InHand
<1>6. 1..Len(answers) = {} /\ 1..Len(inbox) = {}
  BY <1>1
<1>7. Profinet!ArrivalInv
  BY <1>5, <1>6 DEF Profinet!ArrivalInv
<1>8. Profinet!AnswersGoBack
  BY <1>6 DEF Profinet!AnswersGoBack
<1> QED BY <1>2, <1>3, <1>4, <1>7, <1>8 DEF Profinet!IInv

\* Connections, the main thread's start and its stop leave the datagrams alone.
LEMMA DatagramsLeftAlone ==
    ASSUME Profinet!IInv,
           UNCHANGED <<inbox, sent, received, recv_buffer, remote_endpoint, udp, data, answers>>,
           receiving' = receiving \/ (server = "new" /\ receiving' = TRUE),
           server' = "new" => receiving' = receiving /\ server = "new"
    PROVE  /\ (Profinet!ChainInv /\ Profinet!ArrivalInv /\ Profinet!AnswersGoBack)'
           /\ inbox' \in Seq(Datagram) /\ Len(inbox') <= Room
           /\ sent' \in Seq(Datagram)
           /\ receiving' \in BOOLEAN /\ received' \in BOOLEAN
           /\ recv_buffer' \in Datagram \union {Profinet!None}
           /\ remote_endpoint' \in {From[d] : d \in Datagram} \union {Profinet!None}
           /\ udp' \in {"off", "parse", "answer", "again"}
           /\ data' \in Datagram \union {Profinet!None}
           /\ answers' \in Seq([to : {From[d] : d \in Datagram},
                                cycle : Datagram \union {Garbage}, of : Datagram])
<1>1. Profinet!ChainInv'
  BY DEF Profinet!IInv, Profinet!ChainInv, Profinet!TypeOK
<1>2. Profinet!ArrivalInv'
  BY DEF Profinet!IInv, Profinet!ArrivalInv, Profinet!InHand, Profinet!WasSent
<1>3. Profinet!AnswersGoBack'
  BY DEF Profinet!IInv, Profinet!AnswersGoBack
<1> QED BY <1>1, <1>2, <1>3 DEF Profinet!IInv, Profinet!TypeOK

LEMMA TcpInv ==
    ASSUME Profinet!IInv,
           \/ \E n \in Int : Profinet!Start(n)
           \/ \E c \in Connection : Profinet!Connect(c) \/ Profinet!Disconnect(c)
           \/ Profinet!AcceptCompletes \/ Profinet!AcceptStep \/ Profinet!Stop
    PROVE  Profinet!IInv'
<1>1. ASSUME NEW n \in Int, Profinet!Start(n) PROVE Profinet!IInv'
  <2>1. (Profinet!ChainInv /\ Profinet!ArrivalInv /\ Profinet!AnswersGoBack)' /\ Profinet!TypeOK'
    BY <1>1, DatagramsLeftAlone
    DEF Profinet!IInv, Profinet!TypeOK, Profinet!Start, Profinet!socketVars
  <2>2. Profinet!AcceptInv'
    BY <1>1 DEF Profinet!Start, Profinet!AcceptInv
  <2> QED BY <2>1, <2>2 DEF Profinet!IInv
<1>2. ASSUME NEW c \in Connection, Profinet!Connect(c) \/ Profinet!Disconnect(c)
      PROVE  Profinet!IInv'
  <2>1. (Profinet!ChainInv /\ Profinet!ArrivalInv /\ Profinet!AnswersGoBack)' /\ Profinet!TypeOK'
    BY <1>2, DatagramsLeftAlone
    DEF Profinet!IInv, Profinet!TypeOK, Profinet!Connect, Profinet!Disconnect,
        Profinet!socketVars, Profinet!udpVars
  <2>2. Profinet!AcceptInv'
    BY <1>2 DEF Profinet!Connect, Profinet!Disconnect, Profinet!IInv, Profinet!AcceptInv
  <2> QED BY <2>1, <2>2 DEF Profinet!IInv
<1>3. ASSUME Profinet!AcceptCompletes PROVE Profinet!IInv'
  <2>1. (Profinet!ChainInv /\ Profinet!ArrivalInv /\ Profinet!AnswersGoBack)' /\ Profinet!TypeOK'
    BY <1>3, DatagramsLeftAlone
    DEF Profinet!IInv, Profinet!TypeOK, Profinet!AcceptCompletes, Profinet!AcceptSucceeds,
        Profinet!AcceptFails, Profinet!socketVars, Profinet!udpVars
  <2>2. Profinet!AcceptInv'
    BY <1>3 DEF Profinet!AcceptCompletes, Profinet!AcceptSucceeds, Profinet!AcceptFails,
                Profinet!AcceptInv
  <2> QED BY <2>1, <2>2 DEF Profinet!IInv
<1>4. ASSUME Profinet!AcceptStep PROVE Profinet!IInv'
  <2>1. Profinet!AcceptInv'
    BY <1>4 DEF Profinet!AcceptStep, Profinet!TakeAccept, Profinet!PushSession,
                Profinet!StartSession, Profinet!AcceptAgain, Profinet!IInv, Profinet!AcceptInv
  <2>2. (Profinet!ChainInv /\ Profinet!ArrivalInv /\ Profinet!AnswersGoBack)' /\ Profinet!TypeOK'
    BY <1>4, DatagramsLeftAlone
    DEF Profinet!IInv, Profinet!TypeOK, Profinet!AcceptInv, Profinet!AcceptStep,
        Profinet!TakeAccept, Profinet!PushSession, Profinet!StartSession, Profinet!AcceptAgain,
        Profinet!socketVars, Profinet!udpVars
  <2> QED BY <2>1, <2>2 DEF Profinet!IInv
<1>5. ASSUME Profinet!Stop PROVE Profinet!IInv'
  <2>1. (Profinet!ChainInv /\ Profinet!ArrivalInv /\ Profinet!AnswersGoBack)' /\ Profinet!TypeOK'
    BY <1>5, DatagramsLeftAlone
    DEF Profinet!IInv, Profinet!TypeOK, Profinet!Stop, Profinet!CloseAcceptor,
        Profinet!ClearSessions, Profinet!StopContext, Profinet!tcpVars, Profinet!socketVars,
        Profinet!udpVars
  <2>2. Profinet!AcceptInv'
    BY <1>5 DEF Profinet!Stop, Profinet!CloseAcceptor, Profinet!ClearSessions,
                Profinet!StopContext, Profinet!tcpVars, Profinet!IInv, Profinet!AcceptInv
  <2> QED BY <2>1, <2>2 DEF Profinet!IInv
<1> QED BY <1>1, <1>2, <1>3, <1>4, <1>5

LEMMA SendInv ==
    ASSUME Profinet!IInv, NEW d \in Datagram, Profinet!Send(d) PROVE Profinet!IInv'
<1> USE DEF Profinet!socketVars, Profinet!tcpVars, Profinet!udpVars
<1>1. /\ sent \in Seq(Datagram) /\ sent' = Append(sent, d)
      /\ inbox \in Seq(Datagram)
      /\ (inbox' = Append(inbox, d) /\ Len(inbox) < Room) \/ inbox' = inbox
      /\ UNCHANGED <<received, recv_buffer, udp, data, answers>>
  BY DEF Profinet!IInv, Profinet!TypeOK, Profinet!Send
<1>2. Profinet!AcceptInv' /\ Profinet!ChainInv'
  BY DEF Profinet!IInv, Profinet!AcceptInv, Profinet!ChainInv, Profinet!Send
<1>3. inbox' \in Seq(Datagram) /\ Len(inbox') <= Room /\ sent' \in Seq(Datagram)
  <2>1. Room \in Nat /\ Len(inbox) <= Room
    BY PlantFacts DEF Profinet!PlantAssumption, Profinet!IInv, Profinet!TypeOK
  <2> QED BY <1>1, <2>1
<1>4. Profinet!TypeOK'
  BY <1>3 DEF Profinet!IInv, Profinet!TypeOK, Profinet!Send
<1>5. /\ \A a, b : Profinet!Before(sent, a, b) => Profinet!Before(sent', a, b)
      /\ \A a : Profinet!WasSent(a) => Profinet!Before(sent', a, d)
  BY <1>1, BeforeGrows DEF Profinet!WasSent
<1>6. (\A a : Profinet!WasSent(a) => Profinet!WasSent(a)') /\ Profinet!WasSent(d)'
  BY <1>1 DEF Profinet!WasSent
<1>7. \A j \in 1..Len(inbox') : \/ j \in 1..Len(inbox) /\ inbox'[j] = inbox[j]
                                \/ j = Len(inbox) + 1 /\ inbox'[j] = d
  <2>1. CASE inbox' = inbox
    BY <2>1
  <2>2. CASE inbox' = Append(inbox, d)
    <3>1. /\ Len(inbox') = Len(inbox) + 1 /\ Len(inbox) \in Nat
          /\ \A j \in 1..Len(inbox) : inbox'[j] = inbox[j]
          /\ inbox'[Len(inbox) + 1] = d
      BY <1>1, <2>2
    <3>2. \A j \in 1..Len(inbox') : j \in 1..Len(inbox) \/ j = Len(inbox) + 1
      BY <3>1
    <3> QED BY <3>1, <3>2
  <2> QED BY <1>1, <2>1, <2>2
<1>8. Profinet!ArrivalInv'
  <2>1. \A e \in Datagram : Profinet!InHand(e)' <=> Profinet!InHand(e)
    BY <1>1 DEF Profinet!InHand
  <2>2. \A i \in 1..Len(answers') : answers' = answers /\ Profinet!WasSent(answers[i].of)'
    BY <1>1, <1>6 DEF Profinet!IInv, Profinet!ArrivalInv
  <2>3. \A e \in Datagram : Profinet!InHand(e)' =>
          /\ Profinet!WasSent(e)'
          /\ \A i \in 1..Len(answers') : Profinet!Before(sent', answers'[i].of, e)
    BY <1>1, <1>5, <1>6, <2>1 DEF Profinet!IInv, Profinet!ArrivalInv
  <2>4. ASSUME NEW j \in 1..Len(inbox')
        PROVE  /\ Profinet!WasSent(inbox[j])'
               /\ \A i \in 1..Len(answers') : Profinet!Before(sent', answers'[i].of, inbox'[j])
               /\ \A e \in Datagram :
                    Profinet!InHand(e)' => Profinet!Before(sent', e, inbox'[j])
               /\ \A i \in 1..Len(inbox') :
                    i < j => Profinet!Before(sent', inbox'[i], inbox'[j])
    <3>1. CASE j \in 1..Len(inbox) /\ inbox'[j] = inbox[j]
      <4>1. \A i \in 1..Len(inbox') : i < j => i \in 1..Len(inbox) /\ inbox'[i] = inbox[i]
        BY <1>1, <1>7, <3>1
      <4> QED BY <1>1, <1>5, <1>6, <2>1, <3>1, <4>1 DEF Profinet!IInv, Profinet!ArrivalInv
    <3>2. CASE j = Len(inbox) + 1 /\ inbox'[j] = d
      <4>1. \A i \in 1..Len(inbox') : i < j => i \in 1..Len(inbox) /\ inbox'[i] = inbox[i]
        BY <1>1, <1>7, <3>2
      <4> QED BY <1>1, <1>5, <1>6, <2>1, <3>2, <4>1 DEF Profinet!IInv, Profinet!ArrivalInv
    <3> QED BY <1>7, <3>1, <3>2
  <2> QED BY <2>2, <2>3, <2>4 DEF Profinet!ArrivalInv
<1>9. Profinet!AnswersGoBack'
  BY <1>1, <1>5 DEF Profinet!IInv, Profinet!AnswersGoBack
<1> QED BY <1>2, <1>4, <1>8, <1>9 DEF Profinet!IInv

LEMMA ReceiveCompletesInv ==
    ASSUME Profinet!IInv, Profinet!ReceiveCompletes PROVE Profinet!IInv'
<1> USE DEF Profinet!tcpVars
<1>1. /\ inbox \in Seq(Datagram) /\ inbox # <<>> /\ inbox' = Tail(inbox)
      /\ recv_buffer' = inbox[1] /\ remote_endpoint' = From[inbox[1]]
      /\ receiving' = FALSE /\ received' = TRUE /\ received = FALSE /\ udp = "off"
      /\ UNCHANGED <<sent, udp, data, answers, server>>
      /\ server # "new"
  BY DEF Profinet!IInv, Profinet!TypeOK, Profinet!ChainInv, Profinet!ReceiveCompletes
<1>2. /\ inbox[1] \in Datagram /\ 1 \in 1..Len(inbox)
      /\ inbox' \in Seq(Datagram) /\ Len(inbox') = Len(inbox) - 1
      /\ \A j \in 1..Len(inbox') : j + 1 \in 1..Len(inbox) /\ 1 < j + 1 /\ inbox'[j] = inbox[j + 1]
  BY <1>1
<1>3. Profinet!AcceptInv' /\ Profinet!ChainInv'
  BY <1>1, <1>2
  DEF Profinet!IInv, Profinet!AcceptInv, Profinet!ChainInv, Profinet!ReceiveCompletes
<1>4. Profinet!TypeOK'
  <2>1. Len(inbox') <= Room
    BY <1>1, <1>2, PlantFacts DEF Profinet!PlantAssumption, Profinet!IInv, Profinet!TypeOK
  <2> QED BY <1>1, <1>2, <2>1 DEF Profinet!IInv, Profinet!TypeOK, Profinet!ReceiveCompletes
<1>5. \A e \in Datagram : Profinet!InHand(e)' => e = inbox[1]
  BY <1>1 DEF Profinet!InHand
<1>6. Profinet!ArrivalInv'
  <2>1. \A e : Profinet!WasSent(e)' <=> Profinet!WasSent(e)
    BY <1>1 DEF Profinet!WasSent
  <2>2. \A j \in 1..Len(inbox) :
          /\ Profinet!WasSent(inbox[j])
          /\ \A i \in 1..Len(answers) : Profinet!Before(sent, answers[i].of, inbox[j])
          /\ \A i \in 1..Len(inbox) : i < j => Profinet!Before(sent, inbox[i], inbox[j])
    BY DEF Profinet!IInv, Profinet!ArrivalInv
  <2>3. \A e \in Datagram : Profinet!InHand(e)' =>
          /\ Profinet!WasSent(e)'
          /\ \A i \in 1..Len(answers') : Profinet!Before(sent', answers'[i].of, e)
    BY <1>1, <1>2, <1>5, <2>1, <2>2
  <2>4. ASSUME NEW j \in 1..Len(inbox')
        PROVE  /\ Profinet!WasSent(inbox[j])'
               /\ \A i \in 1..Len(answers') : Profinet!Before(sent', answers'[i].of, inbox'[j])
               /\ \A e \in Datagram :
                    Profinet!InHand(e)' => Profinet!Before(sent', e, inbox'[j])
               /\ \A i \in 1..Len(inbox') :
                    i < j => Profinet!Before(sent', inbox'[i], inbox'[j])
    <3>1. j + 1 \in 1..Len(inbox) /\ 1 < j + 1 /\ inbox'[j] = inbox[j + 1]
      BY <1>2
    <3>2. \A i \in 1..Len(inbox') :
            i < j => i + 1 < j + 1 /\ i + 1 \in 1..Len(inbox) /\ inbox'[i] = inbox[i + 1]
      BY <1>2
    <3>3. /\ Profinet!WasSent(inbox[j])'
          /\ \A i \in 1..Len(answers') : Profinet!Before(sent', answers'[i].of, inbox'[j])
      BY <1>1, <2>1, <2>2, <3>1
    <3>4. Profinet!Before(sent', inbox[1], inbox'[j])
      BY <1>1, <1>2, <2>2, <3>1
    <3>5. \A e \in Datagram : Profinet!InHand(e)' => Profinet!Before(sent', e, inbox'[j])
      BY <1>5, <3>4
    <3>6. \A i \in 1..Len(inbox') : i < j => Profinet!Before(sent', inbox'[i], inbox'[j])
      BY <1>1, <2>2, <3>1, <3>2
    <3> QED BY <3>3, <3>5, <3>6
  <2>5. \A i \in 1..Len(answers') : Profinet!WasSent(answers[i].of)'
    BY <1>1, <2>1 DEF Profinet!IInv, Profinet!ArrivalInv
  <2> QED BY <2>3, <2>4, <2>5 DEF Profinet!ArrivalInv
<1>7. Profinet!AnswersGoBack'
  BY <1>1 DEF Profinet!IInv, Profinet!AnswersGoBack
<1> QED BY <1>3, <1>4, <1>6, <1>7 DEF Profinet!IInv

\* The handler goes on with the datagram, or gives it up.
LEMMA HandInv ==
    ASSUME Profinet!IInv,
           \/ Profinet!HandleReceive \/ Profinet!ParseDatagram \/ Profinet!ParseThrows
           \/ Profinet!ReceiveAgain
    PROVE  Profinet!IInv'
<1> USE DEF Profinet!tcpVars, Profinet!socketVars
<1>1. Profinet!TypeOK'
  BY DEF Profinet!IInv, Profinet!TypeOK, Profinet!HandleReceive, Profinet!ParseDatagram,
         Profinet!ParseThrows, Profinet!ReceiveAgain
<1>2. Profinet!AcceptInv'
  BY DEF Profinet!IInv, Profinet!AcceptInv, Profinet!HandleReceive, Profinet!ParseDatagram,
         Profinet!ParseThrows, Profinet!ReceiveAgain
<1>3. Profinet!ChainInv'
  BY DEF Profinet!IInv, Profinet!TypeOK, Profinet!ChainInv, Profinet!HandleReceive,
         Profinet!ParseDatagram, Profinet!ParseThrows, Profinet!ReceiveAgain
<1>4. /\ UNCHANGED <<sent, inbox, answers>>
      /\ \A e \in Datagram : Profinet!InHand(e)' => Profinet!InHand(e)
  BY DEF Profinet!IInv, Profinet!TypeOK, Profinet!ChainInv, Profinet!InHand,
         Profinet!HandleReceive, Profinet!ParseDatagram, Profinet!ParseThrows,
         Profinet!ReceiveAgain
<1>5. Profinet!ArrivalInv'
  BY <1>4 DEF Profinet!IInv, Profinet!ArrivalInv, Profinet!WasSent
<1>6. Profinet!AnswersGoBack'
  BY <1>4 DEF Profinet!IInv, Profinet!AnswersGoBack
<1> QED BY <1>1, <1>2, <1>3, <1>5, <1>6 DEF Profinet!IInv

LEMMA SendAnswerInv ==
    ASSUME Profinet!IInv, Profinet!SendAnswer PROVE Profinet!IInv'
<1> USE DEF Profinet!tcpVars, Profinet!socketVars
<1>1. PICK cycle \in {data, Garbage} :
        answers' = Append(answers, [to |-> remote_endpoint, cycle |-> cycle, of |-> data])
  BY DEF Profinet!SendAnswer
<1> DEFINE ack == [to |-> remote_endpoint, cycle |-> cycle, of |-> data]
           Ack == [to : {From[d] : d \in Datagram}, cycle : Datagram \union {Garbage},
                   of : Datagram]
<1>2. /\ udp = "answer" /\ udp' = "again"
      /\ data \in Datagram /\ data \in Parses /\ remote_endpoint = From[data] /\ ~received
      /\ UNCHANGED <<inbox, sent, received, recv_buffer, data>>
      /\ answers \in Seq(Ack)
  BY DEF Profinet!SendAnswer, Profinet!IInv, Profinet!TypeOK, Profinet!ChainInv
<1>3. ack \in Ack
  BY <1>2
<1>4. /\ answers' \in Seq(Ack) /\ Len(answers') = Len(answers) + 1
      /\ \A i \in 1..Len(answers') : \/ i \in 1..Len(answers) /\ answers'[i] = answers[i]
                                     \/ i = Len(answers) + 1 /\ answers'[i] = ack
  BY <1>1, <1>2, <1>3
<1>5. ack.of = data /\ ack.to = From[data] /\ ack.cycle \in {data, Garbage}
  BY <1>2
<1> HIDE DEF ack
<1>6. Profinet!TypeOK' /\ Profinet!AcceptInv' /\ Profinet!ChainInv'
  BY <1>2, <1>4
  DEF Profinet!SendAnswer, Profinet!IInv, Profinet!TypeOK, Profinet!AcceptInv, Profinet!ChainInv
<1>7. /\ Profinet!InHand(data)
      /\ \A e \in Datagram : ~Profinet!InHand(e)'
  BY <1>2 DEF Profinet!InHand
<1>8. Profinet!ArrivalInv'
  <2>1. \A e : Profinet!WasSent(e)' <=> Profinet!WasSent(e)
    BY <1>2 DEF Profinet!WasSent
  <2>2. \A i \in 1..Len(answers') : Profinet!WasSent(answers[i].of)'
    BY <1>2, <1>4, <1>5, <1>7, <2>1 DEF Profinet!IInv, Profinet!ArrivalInv
  <2>3. ASSUME NEW j \in 1..Len(inbox'), NEW i \in 1..Len(answers')
        PROVE  Profinet!Before(sent', answers'[i].of, inbox'[j])
    BY <1>2, <1>4, <1>5, <1>7 DEF Profinet!IInv, Profinet!ArrivalInv
  <2>4. \A j \in 1..Len(inbox') :
          /\ Profinet!WasSent(inbox[j])'
          /\ \A i \in 1..Len(inbox') : i < j => Profinet!Before(sent', inbox'[i], inbox'[j])
    BY <1>2, <2>1 DEF Profinet!IInv, Profinet!ArrivalInv
  <2> QED BY <1>7, <2>2, <2>3, <2>4 DEF Profinet!ArrivalInv
<1>9. Profinet!AnswersGoBack'
  BY <1>2, <1>4, <1>5, <1>7 DEF Profinet!IInv, Profinet!ArrivalInv, Profinet!AnswersGoBack
<1> QED BY <1>6, <1>8, <1>9 DEF Profinet!IInv

LEMMA ThreadSticksInv ==
    ASSUME Profinet!IInv, Profinet!ThreadSticks PROVE Profinet!IInv'
<1>1. threads' \in Nat
  <2>1. threads \in Nat /\ Profinet!Busy \in Nat
    BY DEF Profinet!IInv, Profinet!TypeOK, Profinet!Busy
  <2> QED BY <2>1 DEF Profinet!ThreadSticks
<1>2. (Profinet!ChainInv /\ Profinet!ArrivalInv /\ Profinet!AnswersGoBack)' /\ Profinet!TypeOK'
  BY <1>1, DatagramsLeftAlone
  DEF Profinet!IInv, Profinet!TypeOK, Profinet!ThreadSticks, Profinet!socketVars,
      Profinet!tcpVars, Profinet!udpVars
<1>3. Profinet!AcceptInv'
  BY DEF Profinet!IInv, Profinet!AcceptInv, Profinet!ThreadSticks, Profinet!tcpVars
<1> QED BY <1>2, <1>3 DEF Profinet!IInv

LEMMA ProfinetNextInv ==
    ASSUME Profinet!IInv,
           (\E n \in Int : Profinet!Start(n)) \/ Profinet!Next \/ UNCHANGED Profinet!vars
    PROVE  Profinet!IInv'
<1>1. CASE UNCHANGED Profinet!vars
  BY <1>1
  DEF Profinet!vars, Profinet!tcpVars, Profinet!socketVars, Profinet!udpVars, Profinet!IInv,
      Profinet!TypeOK, Profinet!AcceptInv, Profinet!ChainInv, Profinet!ArrivalInv,
      Profinet!AnswersGoBack, Profinet!InHand, Profinet!WasSent
<1> QED
  BY <1>1, TcpInv, SendInv, ReceiveCompletesInv, HandInv, SendAnswerInv, ThreadSticksInv
  DEF Profinet!Next, Profinet!Plant, Profinet!UdpStep

-----------------------------------------------------------------------------
(* The prediction.                                                         *)

\* What no crack and no horizon changes: on the stresses of the code, nothing
\* grows.
LEMMA NoGrowth == Fatigue!Growth = 0 /\ Fatigue!critical_crack_length = 510
BY DEF Fatigue!Growth, Fatigue!DeltaK, Fatigue!Intensity, Fatigue!EffectiveStress, Fatigue!Sign,
       Fatigue!maximum_stress, Fatigue!minimum_stress, Fatigue!residual_stress_parallel,
       Fatigue!residual_stress_perpendicular, Fatigue!critical_crack_length

\* The quotient of two times is the index of the last point not after the first.
LEMMA QuotientBounds ==
    ASSUME NEW n \in Nat, NEW h \in Nat \ {0}
    PROVE  /\ n \div h \in Nat
           /\ (n \div h) * h <= n
           /\ n < ((n \div h) + 1) * h
OBVIOUS

LEMMA ProductGrows ==
    ASSUME NEW j \in Int, NEW k \in Int, NEW h \in Nat, j <= k
    PROVE  j * h <= k * h
OBVIOUS

LEMMA FatigueInitInv ==
    ASSUME Fatigue!Init PROVE Fatigue!IInv
<1>1. time_hours = <<>> /\ crack_length = <<>> /\ Len(time_hours) = 0 /\ Len(crack_length) = 0
  BY DEF Fatigue!Init
<1>2. time_steps \in Nat \ {0}
  BY PartsAssumption DEF Fatigue!PredictAssumption
<1>3. Fatigue!TypeOK
  BY <1>1, <1>2 DEF Fatigue!Init, Fatigue!TypeOK
<1>4. Fatigue!CurveInv
  BY <1>1 DEF Fatigue!Init, Fatigue!CurveInv
<1>5. Fatigue!ForecastAt720
  BY DEF Fatigue!Init, Fatigue!ForecastAt720
<1> QED BY <1>3, <1>4, <1>5 DEF Fatigue!IInv

LEMMA FatigueBeginInv ==
    ASSUME Fatigue!IInv, NEW h \in Int, NEW l \in Crack, Fatigue!Begin(h, l)
    PROVE  Fatigue!IInv'
<1>1. l \in Int
  BY PartsAssumption DEF Fatigue!PredictAssumption
<1>2. phase = "idle" /\ phase' = "loop" /\ horizon' = h /\ initial' \in Int /\ length' = initial'
      /\ UNCHANGED <<turn, time_hours, crack_length, time_to_failure, predicted, risk_level>>
  BY <1>1 DEF Fatigue!Begin
<1>3. Fatigue!TypeOK'
  BY <1>2 DEF Fatigue!IInv, Fatigue!TypeOK
<1>4. 1..Len(time_hours) = {}
  BY <1>2 DEF Fatigue!IInv, Fatigue!CurveInv
<1>5. Fatigue!CurveInv'
  BY <1>2, <1>4 DEF Fatigue!IInv, Fatigue!CurveInv
<1>6. Fatigue!ForecastAt720'
  BY <1>2 DEF Fatigue!ForecastAt720
<1> QED BY <1>3, <1>5, <1>6 DEF Fatigue!IInv

\* A turn of the loop adds the point for its time.
LEMMA RecordInv ==
    ASSUME Fatigue!IInv, phase = "loop", Fatigue!Record, UNCHANGED horizon
    PROVE  /\ time_hours' \in Seq(Int) /\ crack_length' \in Seq(Int)
           /\ Len(time_hours') = turn + 1 /\ Len(crack_length') = turn + 1
           /\ \A k \in 1..Len(time_hours') : time_hours'[k] = (k - 1) * horizon'
<1>1. /\ time_hours \in Seq(Int) /\ crack_length \in Seq(Int) /\ length \in Int
      /\ turn \in Int /\ horizon \in Int
      /\ Len(time_hours) = turn /\ Len(crack_length) = turn
      /\ \A k \in 1..Len(time_hours) : time_hours[k] = (k - 1) * horizon
  BY DEF Fatigue!IInv, Fatigue!TypeOK, Fatigue!CurveInv
<1>2. /\ time_hours' = Append(time_hours, turn * horizon)
      /\ crack_length' = Append(crack_length, length)
  BY DEF Fatigue!Record
<1>3. turn * horizon \in Int
  BY <1>1
<1>4. /\ time_hours' \in Seq(Int) /\ crack_length' \in Seq(Int)
      /\ Len(time_hours') = turn + 1 /\ Len(crack_length') = turn + 1
  BY <1>1, <1>2, <1>3
<1>5. ASSUME NEW k \in 1..Len(time_hours') PROVE time_hours'[k] = (k - 1) * horizon
  <2>1. CASE k \in 1..Len(time_hours)
    BY <1>1, <1>2, <1>3, <2>1
  <2>2. CASE k = turn + 1
    <3>1. time_hours'[k] = turn * horizon
      BY <1>1, <1>2, <1>3, <2>2
    <3>2. k - 1 = turn
      BY <1>1, <2>2
    <3> QED BY <3>1, <3>2
  <2> QED BY <1>1, <1>4, <2>1, <2>2
<1> QED BY <1>4, <1>5

LEMMA LoopInv ==
    ASSUME Fatigue!IInv, Fatigue!Step \/ Fatigue!Fails \/ Fatigue!LastStep
    PROVE  Fatigue!IInv'
<1>1. /\ phase = "loop" /\ Fatigue!Record /\ UNCHANGED <<horizon, initial, predicted, risk_level>>
      /\ phase' \in {"loop", "read"}
  BY DEF Fatigue!Step, Fatigue!Fails, Fatigue!LastStep
<1>2. /\ time_hours' \in Seq(Int) /\ crack_length' \in Seq(Int)
      /\ Len(time_hours') = turn + 1 /\ Len(crack_length') = turn + 1
      /\ \A k \in 1..Len(time_hours') : time_hours'[k] = (k - 1) * horizon'
  BY <1>1, RecordInv
<1>3. /\ horizon \in Int /\ initial \in Int /\ length = initial /\ turn \in 0..time_steps
      /\ time_to_failure = -1 /\ time_steps \in Nat
  BY <1>1, PartsAssumption
  DEF Fatigue!PredictAssumption, Fatigue!IInv, Fatigue!TypeOK, Fatigue!CurveInv
<1>4. Fatigue!ForecastAt720'
  BY <1>1 DEF Fatigue!ForecastAt720
<1>5. CASE Fatigue!Step
  <2>1. /\ turn' = turn + 1 /\ turn < time_steps /\ length' = length + Fatigue!Growth
        /\ UNCHANGED <<time_to_failure, phase>>
    BY <1>5 DEF Fatigue!Step
  <2>2. length' = length /\ turn' \in 0..time_steps
    BY <1>3, <2>1, NoGrowth
  <2>3. Fatigue!TypeOK'
    BY <1>1, <1>2, <1>3, <2>1, <2>2 DEF Fatigue!IInv, Fatigue!TypeOK
  <2>4. Fatigue!CurveInv'
    BY <1>1, <1>2, <1>3, <2>1, <2>2 DEF Fatigue!CurveInv
  <2> QED BY <1>4, <2>3, <2>4 DEF Fatigue!IInv
<1>6. CASE Fatigue!Fails
  <2>1. /\ UNCHANGED turn /\ length' = length + Fatigue!Growth
        /\ time_to_failure' = turn * horizon /\ phase' = "read"
        /\ length + Fatigue!Growth >= Fatigue!critical_crack_length
    BY <1>6 DEF Fatigue!Fails
  <2>2. length' = length /\ ~(initial < Fatigue!critical_crack_length)
    BY <1>3, <2>1, NoGrowth
  <2>3. time_to_failure' \in Int
    BY <1>3, <2>1
  <2>4. Fatigue!TypeOK'
    BY <1>1, <1>2, <1>3, <2>1, <2>2, <2>3 DEF Fatigue!IInv, Fatigue!TypeOK
  <2>5. Fatigue!CurveInv'
    BY <1>1, <1>2, <2>1, <2>2, NoGrowth DEF Fatigue!CurveInv
  <2> QED BY <1>4, <2>4, <2>5 DEF Fatigue!IInv
<1>7. CASE Fatigue!LastStep
  <2>1. UNCHANGED <<turn, length, time_to_failure>> /\ phase' = "read"
    BY <1>7 DEF Fatigue!LastStep
  <2>2. Fatigue!TypeOK'
    BY <1>1, <1>2, <1>3, <2>1 DEF Fatigue!IInv, Fatigue!TypeOK
  <2>3. Fatigue!CurveInv'
    BY <1>1, <1>2, <1>3, <2>1 DEF Fatigue!CurveInv
  <2> QED BY <1>4, <2>2, <2>3 DEF Fatigue!IInv
<1> QED BY <1>5, <1>6, <1>7

LEMMA ForecastInv ==
    ASSUME Fatigue!IInv, Fatigue!Forecast PROVE Fatigue!IInv'
<1> DEFINE year == 720 * time_steps
           idx_720 == Fatigue!Lesser(time_steps, Fatigue!Quotient(year))
           n == Len(crack_length)
<1>1. /\ time_steps \in Nat \ {0} /\ year \in Nat
  BY PartsAssumption DEF Fatigue!PredictAssumption
<1>2. /\ phase = "read" /\ phase' = "done" /\ horizon # 0
      /\ predicted' = IF idx_720 >= 0 /\ idx_720 < n THEN idx_720 + 1 ELSE n
      /\ time_to_failure' = IF time_to_failure < 0 THEN Fatigue!RemainingLife ELSE time_to_failure
      /\ risk_level' = Fatigue!RiskLevel(time_to_failure')
      /\ UNCHANGED <<horizon, initial, turn, length, time_hours, crack_length>>
  BY DEF Fatigue!Forecast
<1>3. /\ horizon \in Int /\ time_to_failure \in Int /\ turn \in 0..time_steps
      /\ n = Len(time_hours) /\ n = turn + 1
      /\ \A k \in 1..n : time_hours[k] = (k - 1) * horizon
  BY <1>2 DEF Fatigue!IInv, Fatigue!TypeOK, Fatigue!CurveInv
<1>4. Fatigue!Quotient(year) \in Int
  <2>1. CASE horizon > 0
    BY <1>1, <1>3, <2>1 DEF Fatigue!Quotient
  <2>2. CASE horizon < 0
    <3>1. -horizon \in Nat \ {0}
      BY <1>3, <2>2
    <3>2. year \div (-horizon) \in Int
      BY <1>1, <3>1
    <3>3. ~(horizon > 0)
      BY <1>3, <2>2
    <3> HIDE DEF year
    <3> QED BY <3>2, <3>3 DEF Fatigue!Quotient
  <2> QED BY <1>2, <1>3, <2>1, <2>2
<1>5. idx_720 \in Int
  BY <1>1, <1>4 DEF Fatigue!Lesser
<1>6. predicted' \in 1..n
  <2> HIDE DEF idx_720
  <2> QED BY <1>1, <1>2, <1>3, <1>5
<1>7. /\ time_to_failure' \in Int
      /\ initial < Fatigue!critical_crack_length => time_to_failure' > 0
  <2>1. CASE initial < Fatigue!critical_crack_length
    <3>1. time_to_failure = -1
      BY <1>2, <2>1 DEF Fatigue!IInv, Fatigue!CurveInv
    <3>2. ~(initial >= Fatigue!critical_crack_length)
      BY <2>1, NoGrowth DEF Fatigue!IInv, Fatigue!TypeOK
    <3> QED BY <1>1, <1>2, <3>1, <3>2 DEF Fatigue!RemainingLife
  <2>2. CASE ~(initial < Fatigue!critical_crack_length)
    BY <1>1, <1>2, <1>3, <2>2 DEF Fatigue!RemainingLife
  <2> QED BY <2>1, <2>2
<1>8. risk_level' \in {"LOW", "CRITICAL", "HIGH", "NEGLIGIBLE"}
  BY <1>2 DEF Fatigue!RiskLevel
<1>9. Fatigue!TypeOK'
  BY <1>2, <1>6, <1>7, <1>8 DEF Fatigue!IInv, Fatigue!TypeOK
<1>10. Fatigue!CurveInv'
  BY <1>2 DEF Fatigue!IInv, Fatigue!CurveInv
<1>11. ASSUME horizon > 0
       PROVE  /\ time_hours[predicted'] <= year
              /\ predicted' < n => ~(time_hours[predicted' + 1] <= year)
  <2>1. horizon \in Nat \ {0}
    BY <1>3, <1>11
  <2> DEFINE q == year \div horizon
  <2>2. /\ q \in Nat /\ q * horizon <= year /\ year < (q + 1) * horizon
        /\ Fatigue!Quotient(year) = q
    BY <1>1, <1>11, <2>1, QuotientBounds DEF Fatigue!Quotient
  <2> HIDE DEF q, year
  <2>3. /\ idx_720 \in Nat /\ idx_720 <= q /\ (idx_720 = q \/ idx_720 = time_steps)
    BY <1>1, <2>2 DEF Fatigue!Lesser
  <2> HIDE DEF idx_720, n
  <2>4. /\ predicted' - 1 <= q
        /\ predicted' < n => predicted' = q + 1
    BY <1>1, <1>2, <1>3, <2>2, <2>3
  <2>5. time_hours[predicted'] = (predicted' - 1) * horizon
    BY <1>3, <1>6
  <2>6. (predicted' - 1) * horizon <= q * horizon
    <3>1. predicted' - 1 \in Int /\ q \in Int /\ horizon \in Nat
      BY <1>6, <2>1, <2>2
    <3> QED BY <2>4, <3>1, ProductGrows
  <2>7. time_hours[predicted'] <= year
    <3>1. (predicted' - 1) * horizon \in Int /\ q * horizon \in Int
      BY <1>6, <2>1, <2>2
    <3> QED BY <1>1, <2>2, <2>5, <2>6, <3>1
  <2>8. ASSUME predicted' < n PROVE ~(time_hours[predicted' + 1] <= year)
    <3>1. predicted' + 1 \in 1..n /\ (predicted' + 1) - 1 = q + 1
      BY <1>3, <1>6, <2>2, <2>4, <2>8
    <3>2. time_hours[predicted' + 1] = (q + 1) * horizon
      BY <1>3, <3>1
    <3>3. (q + 1) * horizon \in Int
      BY <2>1, <2>2
    <3> QED BY <1>1, <2>2, <3>2, <3>3
  <2> QED BY <2>7, <2>8
<1>12. Fatigue!ForecastAt720'
  BY <1>2, <1>6, <1>7, <1>11, NoGrowth DEF Fatigue!ForecastAt720, Fatigue!InTime
<1> QED BY <1>9, <1>10, <1>12 DEF Fatigue!IInv

LEMMA DividesInv ==
    ASSUME Fatigue!IInv, Fatigue!Divides PROVE Fatigue!IInv'
<1>1. Fatigue!TypeOK' /\ Fatigue!ForecastAt720'
  BY DEF Fatigue!Divides, Fatigue!IInv, Fatigue!TypeOK, Fatigue!ForecastAt720
<1>2. Fatigue!CurveInv'
  BY DEF Fatigue!Divides, Fatigue!IInv, Fatigue!CurveInv
<1> QED BY <1>1, <1>2 DEF Fatigue!IInv

LEMMA FatigueNextInv ==
    ASSUME Fatigue!IInv,
           \/ \E h \in Int, l \in Crack : Fatigue!Begin(h, l)
           \/ Fatigue!Next \/ UNCHANGED Fatigue!vars
    PROVE  Fatigue!IInv'
<1>1. CASE UNCHANGED Fatigue!vars
  BY <1>1
  DEF Fatigue!vars, Fatigue!IInv, Fatigue!TypeOK, Fatigue!CurveInv, Fatigue!ForecastAt720,
      Fatigue!InTime
<1> QED BY <1>1, FatigueBeginInv, LoopInv, ForecastInv, DividesInv DEF Fatigue!Next

-----------------------------------------------------------------------------
(* The particles.                                                          *)

Particle == [z : Int, v : Int, f : Int, is_fixed : BOOLEAN]

LEMMA CrackFacts ==
    /\ Half \in Nat /\ MaxDist \in Nat /\ Half <= MaxDist /\ MinDist \in Nat \ {0}
    /\ Fixed \subseteq Seq(Int)
    /\ Dem!PointInCrack \subseteq Int
    /\ Dem!gravity \in Int
BY PartsAssumption DEF Dem!CrackAssumption, Dem!PointInCrack, Dem!gravity

\* A point in the crack is within its largest extent.
LEMMA PointInReach == \A z \in Dem!PointInCrack : Dem!Abs(z) <= MaxDist
BY CrackFacts DEF Dem!PointInCrack, Dem!Abs

\* A phase of step() that goes through the particles leaves as many.
LEMMA Remade ==
    ASSUME NEW s \in Seq(Particle), NEW t \in [DOMAIN s -> Particle]
    PROVE  t \in Seq(Particle) /\ DOMAIN t = DOMAIN s /\ Len(t) = Len(s)
OBVIOUS

LEMMA ParticleFacts ==
    ASSUME Dem!TypeOK
    PROVE  /\ particles \in Seq(Particle)
           /\ DOMAIN particles = 1..Len(particles)
           /\ \A k \in DOMAIN particles :
                /\ particles[k] \in Particle
                /\ particles[k].z \in Int /\ particles[k].v \in Int /\ particles[k].f \in Int
                /\ particles[k].is_fixed \in BOOLEAN
           /\ Dem!Free \subseteq DOMAIN particles
<1>1. particles \in Seq(Particle)
  BY DEF Dem!TypeOK, Particle
<1>2. DOMAIN particles = 1..Len(particles) /\ \A k \in DOMAIN particles : particles[k] \in Particle
  BY <1>1
<1> QED BY <1>1, <1>2 DEF Particle, Dem!Free

\* The number of contacts that push a particle to one side is a number: there
\* are finitely many pairs of particles.
LEMMA PushInt ==
    ASSUME NEW n \in Nat, NEW C \in SUBSET ((1..n) \X (1..n)), NEW force, DOMAIN force = C, NEW k
    PROVE  Dem!Push(k, force) \in Int
<1> DEFINE pairs(side, f) == {c \in DOMAIN force : c[side] = k /\ force[c] = f}
<1>1. IsFiniteSet((1..n) \X (1..n))
  <2>1. IsFiniteSet(1..n)
    BY FS_Interval
  <2> QED BY <2>1, FS_Product
<1>2. ASSUME NEW side, NEW f PROVE Cardinality(pairs(side, f)) \in Int
  <2>1. pairs(side, f) \in SUBSET ((1..n) \X (1..n))
    OBVIOUS
  <2> HIDE DEF pairs
  <2>2. IsFiniteSet(pairs(side, f))
    BY <1>1, <2>1, FS_Subset
  <2> QED BY <2>2, FS_CardinalityType
<1>3. Dem!Push(k, force) = Cardinality(pairs(2, 1)) - Cardinality(pairs(2, -1))
                             - Cardinality(pairs(1, 1)) + Cardinality(pairs(1, -1))
  BY DEF Dem!Push, Dem!Cardinality, Cardinality
<1> HIDE DEF pairs
<1> QED BY <1>2, <1>3

\* A particle of the crack's wall is where one of the boundary points was.
OnTheWall(p) == p.v = 0 /\ \E zs \in Fixed : \E l \in 1..Len(zs) : p.z = zs[l]

\* The property is kept by a step that leaves every free particle in reach, or
\* comes before apply_boundary_conditions, and keeps those of the wall where
\* they are.
LEMMA StillHeld ==
    ASSUME Dem!HeldByCrack,
           DOMAIN particles' = DOMAIN particles, Dem!Free' = Dem!Free,
           \A k \in DOMAIN particles \ Dem!Free :
               particles'[k].v = particles[k].v /\ particles'[k].z = particles[k].z,
           at' = "boundary" \/ \A k \in Dem!Free : Dem!Abs(particles'[k].z) <= MaxDist
    PROVE  Dem!HeldByCrack'
BY DEF Dem!HeldByCrack

LEMMA DemInitInv ==
    ASSUME Dem!Init PROVE Dem!IInv
<1>1. particles = <<>> /\ DOMAIN particles = {}
  BY DEF Dem!Init
<1>2. Dem!Free = {}
  BY <1>1 DEF Dem!Free
<1>3. Dem!TypeOK
  BY <1>1 DEF Dem!Init, Dem!TypeOK
<1>4. Dem!HeldByCrack
  BY <1>1, <1>2 DEF Dem!HeldByCrack
<1> QED BY <1>3, <1>4 DEF Dem!IInv

\* What leaves the particles alone.
LEMMA DemLeftAlone ==
    ASSUME Dem!IInv, UNCHANGED <<particles, contacts>>,
           tries' \in Nat, max_steps' \in Int, step' \in Nat,
           at # "boundary", at' \in {"generate", "run", "step", "done", "thrown"}
    PROVE  Dem!IInv'
<1>1. Dem!TypeOK'
  BY DEF Dem!IInv, Dem!TypeOK
<1>2. Dem!Free' = Dem!Free
  BY DEF Dem!Free
<1>3. Dem!HeldByCrack'
  BY <1>2 DEF Dem!IInv, Dem!HeldByCrack
<1> QED BY <1>1, <1>3 DEF Dem!IInv

LEMMA DemBeginInv ==
    ASSUME Dem!IInv, NEW m \in Int, NEW n \in Int, Dem!Begin(m, n) PROVE Dem!IInv'
<1>1. m > 0 => m \div 10 \in Nat
  OBVIOUS
<1> QED BY <1>1, DemLeftAlone DEF Dem!Begin, Dem!IInv, Dem!TypeOK

LEMMA RunInv ==
    ASSUME Dem!IInv, Dem!ReserveThrows \/ Dem!Reserve \/ Dem!CheckRest \/ Dem!Finish
    PROVE  Dem!IInv'
<1>1. UNCHANGED <<particles, contacts, tries, max_steps>>
  BY DEF Dem!ReserveThrows, Dem!Reserve, Dem!CheckRest, Dem!Finish
<1>2. at # "boundary" /\ at' \in {"run", "step", "done", "thrown"}
  BY DEF Dem!ReserveThrows, Dem!Reserve, Dem!CheckRest, Dem!Finish
<1>3. tries' \in Nat /\ max_steps' \in Int /\ step' \in Nat
  <2>1. tries \in Nat /\ max_steps \in Int /\ step \in Nat
    BY DEF Dem!IInv, Dem!TypeOK
  <2>2. step' = step \/ step' = step + 1
    BY DEF Dem!ReserveThrows, Dem!Reserve, Dem!CheckRest, Dem!Finish
  <2> QED BY <1>1, <2>1, <2>2
<1> QED BY <1>1, <1>2, <1>3, DemLeftAlone

LEMMA GenerateInv ==
    ASSUME Dem!IInv, Dem!Generate PROVE Dem!IInv'
<1>1. PICK z \in Dem!PointInCrack :
        LET p == [z |-> z, v |-> 0, f |-> Dem!gravity, is_fixed |-> FALSE] IN
        particles' = IF \E k \in 1..Len(particles) : Dem!Distance(p, particles[k]) < MinDist
                     THEN particles ELSE Append(particles, p)
  BY DEF Dem!Generate
<1> DEFINE p == [z |-> z, v |-> 0, f |-> Dem!gravity, is_fixed |-> FALSE]
           n == Len(particles) + 1
<1>2. /\ at = "generate" /\ at' = "generate" /\ tries \in Nat /\ tries > 0 /\ tries' = tries - 1
      /\ UNCHANGED <<max_steps, contacts, step>>
  BY DEF Dem!Generate, Dem!IInv, Dem!TypeOK
<1>3. tries' \in Nat
  BY <1>2
<1>4. CASE particles' = particles
  BY <1>2, <1>3, <1>4, DemLeftAlone DEF Dem!IInv, Dem!TypeOK
<1>5. CASE particles' = Append(particles, p)
  <2>1. p \in Particle /\ p.z = z /\ p.is_fixed = FALSE /\ z \in Int
    BY CrackFacts DEF Particle
  <2>2. particles \in Seq(Particle) /\ DOMAIN particles = 1..Len(particles)
    BY ParticleFacts DEF Dem!IInv
  <2> HIDE DEF p
  <2>3. /\ particles' \in Seq(Particle)
        /\ DOMAIN particles' = DOMAIN particles \union {n} /\ n \notin DOMAIN particles
        /\ \A k \in DOMAIN particles : particles'[k] = particles[k]
        /\ particles'[n] = p
    BY <1>5, <2>1, <2>2
  <2> HIDE DEF n
  <2>4. Dem!Free' = Dem!Free \union {n} /\ Dem!Free \subseteq DOMAIN particles
    BY <2>1, <2>3 DEF Dem!Free
  <2>5. Dem!TypeOK'
    <3>1. (DOMAIN particles) \X (DOMAIN particles)
            \subseteq (DOMAIN particles') \X (DOMAIN particles')
      BY <2>3
    <3> QED BY <1>2, <1>3, <2>3, <3>1 DEF Dem!IInv, Dem!TypeOK, Particle
  <2>6. \A k \in Dem!Free' : Dem!Abs(particles'[k].z) <= MaxDist
    <3>1. Dem!Abs(particles'[n].z) <= MaxDist
      BY <2>1, <2>3, PointInReach
    <3>2. \A k \in Dem!Free : Dem!Abs(particles'[k].z) <= MaxDist
      BY <1>2, <2>3, <2>4 DEF Dem!IInv, Dem!HeldByCrack
    <3> QED BY <2>4, <3>1, <3>2
  <2>7. \A k \in DOMAIN particles' \ Dem!Free' : OnTheWall(particles'[k])
    BY <2>3, <2>4 DEF Dem!IInv, Dem!HeldByCrack, OnTheWall
  <2>8. Dem!HeldByCrack'
    BY <2>6, <2>7 DEF Dem!HeldByCrack, OnTheWall
  <2> QED BY <2>5, <2>8 DEF Dem!IInv
<1> QED BY <1>1, <1>4, <1>5

LEMMA BoundaryInv ==
    ASSUME Dem!IInv, Dem!Boundary PROVE Dem!IInv'
<1>1. PICK zs \in Fixed :
        particles' = particles \o
            [k \in 1..Len(zs) |-> [z |-> zs[k], v |-> 0, f |-> 0, is_fixed |-> TRUE]]
  BY DEF Dem!Boundary
<1> DEFINE fixed == [k \in 1..Len(zs) |-> [z |-> zs[k], v |-> 0, f |-> 0, is_fixed |-> TRUE]]
           n == Len(particles)
<1>2. /\ at = "generate" /\ at' = "run" /\ UNCHANGED <<tries, max_steps, contacts, step>>
  BY DEF Dem!Boundary
<1>3. /\ zs \in Seq(Int) /\ Len(zs) \in Nat
  BY CrackFacts
<1>4. \A k \in 1..Len(zs) :
        /\ fixed[k] \in Particle /\ fixed[k].is_fixed = TRUE
        /\ fixed[k].v = 0 /\ fixed[k].z = zs[k]
  BY <1>3 DEF Particle
<1>5. fixed \in Seq(Particle) /\ Len(fixed) = Len(zs) /\ DOMAIN fixed = 1..Len(zs)
  BY <1>3, <1>4
<1>6. particles \in Seq(Particle) /\ n \in Nat /\ DOMAIN particles = 1..n
  BY ParticleFacts DEF Dem!IInv
<1> HIDE DEF fixed
<1>7. /\ particles' \in Seq(Particle) /\ DOMAIN particles' = 1..(n + Len(zs))
      /\ \A k \in 1..n : particles'[k] = particles[k]
      /\ \A k \in 1..(n + Len(zs)) : k > n => particles'[k] = fixed[k - n] /\ k - n \in 1..Len(zs)
  BY <1>1, <1>3, <1>5, <1>6 DEF fixed
<1>8. DOMAIN particles \subseteq DOMAIN particles'
  BY <1>3, <1>6, <1>7
<1>9. ASSUME NEW k \in DOMAIN particles', k \notin DOMAIN particles
      PROVE  particles'[k].is_fixed /\ OnTheWall(particles'[k])
  <2>1. k > n /\ k - n \in 1..Len(zs) /\ particles'[k] = fixed[k - n]
    BY <1>3, <1>6, <1>7, <1>9
  <2> QED BY <1>4, <2>1 DEF OnTheWall
<1>10. \A k \in DOMAIN particles : particles'[k] = particles[k]
  BY <1>6, <1>7
<1>11. Dem!Free' = Dem!Free /\ Dem!Free \subseteq DOMAIN particles
  BY <1>8, <1>9, <1>10 DEF Dem!Free
<1>12. Dem!TypeOK'
  <2>1. (DOMAIN particles) \X (DOMAIN particles)
          \subseteq (DOMAIN particles') \X (DOMAIN particles')
    BY <1>8
  <2> QED BY <1>2, <1>7, <1>8, <2>1 DEF Dem!IInv, Dem!TypeOK, Particle
<1>13. \A k \in Dem!Free' : Dem!Abs(particles'[k].z) <= MaxDist
  BY <1>2, <1>10, <1>11 DEF Dem!IInv, Dem!HeldByCrack
<1>14. \A k \in DOMAIN particles' \ Dem!Free' : OnTheWall(particles'[k])
  <2> SUFFICES ASSUME NEW k \in DOMAIN particles' \ Dem!Free' PROVE OnTheWall(particles'[k])
    OBVIOUS
  <2>1. CASE k \in DOMAIN particles
    BY <1>10, <1>11, <2>1 DEF Dem!IInv, Dem!HeldByCrack, OnTheWall
  <2> QED BY <1>9, <2>1
<1>15. Dem!HeldByCrack'
  BY <1>13, <1>14 DEF Dem!HeldByCrack, OnTheWall
<1> QED BY <1>12, <1>15 DEF Dem!IInv

LEMMA VelocitiesInv ==
    ASSUME Dem!IInv, Dem!IntegrateVelocities PROVE Dem!IInv'
<1>1. /\ at = "step" /\ at' = "collide" /\ UNCHANGED <<tries, max_steps, contacts, step>>
      /\ particles' = [k \in DOMAIN particles |->
            [particles[k] EXCEPT !.v = @ + IF k \in Dem!Free THEN particles[k].f ELSE 0]]
  BY DEF Dem!IntegrateVelocities
<1>2. Dem!TypeOK
  BY DEF Dem!IInv
<1>3. /\ DOMAIN particles' = DOMAIN particles
      /\ \A k \in DOMAIN particles :
            /\ particles'[k] \in Particle
            /\ particles'[k].z = particles[k].z
            /\ particles'[k].is_fixed = particles[k].is_fixed
            /\ k \notin Dem!Free => particles'[k].v = particles[k].v
  BY <1>1, <1>2, ParticleFacts DEF Particle
<1>4. particles' \in [DOMAIN particles -> Particle]
  BY <1>1, <1>3
<1>5. particles' \in Seq(Particle)
  BY <1>2, <1>4, ParticleFacts, Remade
<1>6. Dem!Free' = Dem!Free /\ Dem!Free \subseteq DOMAIN particles
  BY <1>3 DEF Dem!Free
<1>7. Dem!TypeOK'
  BY <1>1, <1>3, <1>5 DEF Dem!IInv, Dem!TypeOK, Particle
<1>8. \A k \in Dem!Free : Dem!Abs(particles'[k].z) <= MaxDist
  BY <1>1, <1>3, <1>6 DEF Dem!IInv, Dem!HeldByCrack
<1>9. Dem!HeldByCrack'
  BY <1>3, <1>6, <1>8, StillHeld DEF Dem!IInv
<1> QED BY <1>7, <1>9 DEF Dem!IInv

LEMMA CollisionsInv ==
    ASSUME Dem!IInv, Dem!DetectCollisions PROVE Dem!IInv'
<1>1. /\ at = "collide" /\ at' = "move" /\ UNCHANGED <<tries, max_steps, step>>
      /\ contacts' \subseteq Dem!TouchingPairs
  BY DEF Dem!DetectCollisions
<1>2. PICK force \in [contacts' -> ContactForce] :
        particles' = [k \in DOMAIN particles |->
                        [particles[k] EXCEPT !.f = @ + Dem!Push(k, force)]]
  BY DEF Dem!DetectCollisions
<1>3. Dem!TypeOK
  BY DEF Dem!IInv
<1>4. contacts' \subseteq (DOMAIN particles) \X (DOMAIN particles)
  BY <1>1 DEF Dem!TouchingPairs
<1>5. ASSUME NEW k PROVE Dem!Push(k, force) \in Int
  <2>1. DOMAIN particles = 1..Len(particles) /\ Len(particles) \in Nat
    BY <1>3, ParticleFacts
  <2>2. /\ contacts' \in SUBSET ((1..Len(particles)) \X (1..Len(particles)))
        /\ DOMAIN force = contacts'
    BY <1>2, <1>4, <2>1
  <2> QED BY <2>1, <2>2, PushInt
<1>6. /\ DOMAIN particles' = DOMAIN particles
      /\ \A k \in DOMAIN particles :
            /\ particles'[k] \in Particle
            /\ particles'[k].z = particles[k].z /\ particles'[k].v = particles[k].v
            /\ particles'[k].is_fixed = particles[k].is_fixed
  BY <1>2, <1>3, <1>5, ParticleFacts DEF Particle
<1>7. particles' \in [DOMAIN particles -> Particle]
  BY <1>2, <1>6
<1>8. particles' \in Seq(Particle)
  BY <1>3, <1>7, ParticleFacts, Remade
<1>9. Dem!Free' = Dem!Free /\ Dem!Free \subseteq DOMAIN particles
  BY <1>6 DEF Dem!Free
<1>10. Dem!TypeOK'
  BY <1>1, <1>4, <1>6, <1>8 DEF Dem!IInv, Dem!TypeOK, Particle
<1>11. \A k \in Dem!Free : Dem!Abs(particles'[k].z) <= MaxDist
  BY <1>1, <1>6, <1>9 DEF Dem!IInv, Dem!HeldByCrack
<1>12. Dem!HeldByCrack'
  BY <1>6, <1>9, <1>11, StillHeld DEF Dem!IInv
<1> QED BY <1>10, <1>12 DEF Dem!IInv

LEMMA PositionsInv ==
    ASSUME Dem!IInv, Dem!IntegratePositions PROVE Dem!IInv'
<1>1. /\ at = "move" /\ at' = "boundary" /\ UNCHANGED <<tries, max_steps, contacts, step>>
      /\ particles' = [k \in DOMAIN particles |->
            IF k \in Dem!Free
            THEN [particles[k] EXCEPT !.z = @ + particles[k].v, !.f = Dem!gravity]
            ELSE particles[k]]
  BY DEF Dem!IntegratePositions
<1>2. Dem!TypeOK
  BY DEF Dem!IInv
<1>3. DOMAIN particles' = DOMAIN particles
  BY <1>1
<1>4. ASSUME NEW k \in DOMAIN particles
      PROVE  /\ particles'[k] \in Particle
             /\ particles'[k].is_fixed = particles[k].is_fixed
             /\ k \notin Dem!Free => particles'[k] = particles[k]
  <2>1. /\ particles[k] \in Particle /\ particles[k].z \in Int /\ particles[k].v \in Int
        /\ particles[k].z + particles[k].v \in Int /\ Dem!gravity \in Int
    BY <1>2, ParticleFacts, CrackFacts
  <2>2. CASE k \notin Dem!Free
    <3>1. particles'[k] = particles[k]
      BY <1>1, <2>2
    <3> QED BY <2>1, <3>1
  <2>3. CASE k \in Dem!Free
    <3>1. particles'[k] = [particles[k] EXCEPT !.z = @ + particles[k].v, !.f = Dem!gravity]
      BY <1>1, <2>3
    <3> QED BY <2>1, <2>3, <3>1 DEF Particle
  <2> QED BY <2>2, <2>3
<1>5. particles' \in [DOMAIN particles -> Particle]
  BY <1>1, <1>4
<1>6. particles' \in Seq(Particle)
  BY <1>2, <1>5, ParticleFacts, Remade
<1>7. Dem!Free' = Dem!Free
  BY <1>3, <1>4 DEF Dem!Free
<1>8. Dem!TypeOK'
  BY <1>1, <1>3, <1>6 DEF Dem!IInv, Dem!TypeOK, Particle
<1>9. Dem!HeldByCrack'
  BY <1>1, <1>3, <1>4, <1>7, StillHeld DEF Dem!IInv
<1> QED BY <1>8, <1>9 DEF Dem!IInv

\* What apply_boundary_conditions does to a particle outside and to a fixed one
PutBack(p, x) == [p EXCEPT !.v = 0, !.z = x]
HeldFast(p) == [p EXCEPT !.v = 0, !.f = 0]

LEMMA PutBackFacts ==
    ASSUME NEW p \in Particle, NEW x \in Int
    PROVE  /\ PutBack(p, x) \in Particle
           /\ PutBack(p, x).z = x /\ PutBack(p, x).is_fixed = p.is_fixed
<1>1. ASSUME NEW v \in Int PROVE [p EXCEPT !.v = v, !.z = x] \in Particle
  BY DEF Particle
<1>2. 0 \in Int
  OBVIOUS
<1>3. PutBack(p, x) \in Particle
  BY <1>1, <1>2, Zenon DEF PutBack
<1> QED BY <1>3 DEF PutBack, Particle

LEMMA HeldFastFacts ==
    ASSUME NEW p \in Particle
    PROVE  /\ HeldFast(p) \in Particle
           /\ HeldFast(p).v = 0 /\ HeldFast(p).z = p.z /\ HeldFast(p).is_fixed = p.is_fixed
<1>1. ASSUME NEW v \in Int, NEW f \in Int PROVE [p EXCEPT !.v = v, !.f = f] \in Particle
  BY DEF Particle
<1>2. 0 \in Int
  OBVIOUS
<1>3. HeldFast(p) \in Particle
  BY <1>1, <1>2, Zenon DEF HeldFast
<1> QED BY <1>3 DEF HeldFast, Particle

LEMMA ApplyBoundaryInv ==
    ASSUME Dem!IInv, Dem!ApplyBoundary PROVE Dem!IInv'
<1> DEFINE out == {k \in Dem!Free : Dem!Abs(particles[k].z) > MaxDist}
<1>1. at = "boundary" /\ at' = "check" /\ UNCHANGED <<tries, max_steps, contacts, step>>
  BY DEF Dem!ApplyBoundary
<1>2. PICK point \in [out -> Dem!PointInCrack] :
        particles' = [k \in DOMAIN particles |->
            CASE k \in out -> PutBack(particles[k], point[k])
              [] k \notin Dem!Free -> HeldFast(particles[k])
              [] OTHER -> particles[k]]
  BY DEF Dem!ApplyBoundary, PutBack, HeldFast
<1>3. Dem!TypeOK
  BY DEF Dem!IInv
<1>4. out \subseteq Dem!Free
  OBVIOUS
<1>5. \A k \in out : point[k] \in Int /\ Dem!Abs(point[k]) <= MaxDist
  BY CrackFacts, PointInReach
<1>6. \A k \in Dem!Free \ out : Dem!Abs(particles[k].z) <= MaxDist
  <2> SUFFICES ASSUME NEW k \in Dem!Free, ~(Dem!Abs(particles[k].z) > MaxDist)
               PROVE  Dem!Abs(particles[k].z) <= MaxDist
    OBVIOUS
  <2>1. particles[k].z \in Int
    BY <1>3, ParticleFacts
  <2>2. Dem!Abs(particles[k].z) \in Int
    BY <2>1 DEF Dem!Abs
  <2> QED BY <2>2, CrackFacts
<1> HIDE DEF out
<1>7. DOMAIN particles' = DOMAIN particles
  BY <1>2
<1>8. ASSUME NEW k \in DOMAIN particles
      PROVE  /\ particles'[k] \in Particle
             /\ particles'[k].is_fixed = particles[k].is_fixed
             /\ k \in Dem!Free => Dem!Abs(particles'[k].z) <= MaxDist
             /\ k \notin Dem!Free => particles'[k].v = 0 /\ particles'[k].z = particles[k].z
  <2>1. particles[k] \in Particle
    BY <1>3, ParticleFacts
  <2>2. CASE k \in out
    <3>1. point[k] \in Int /\ Dem!Abs(point[k]) <= MaxDist /\ k \in Dem!Free
          /\ particles'[k] = PutBack(particles[k], point[k])
      BY <1>2, <1>4, <1>5, <2>2
    <3>2. /\ PutBack(particles[k], point[k]) \in Particle
          /\ PutBack(particles[k], point[k]).z = point[k]
          /\ PutBack(particles[k], point[k]).is_fixed = particles[k].is_fixed
      BY <2>1, <3>1, PutBackFacts
    <3> QED BY <3>1, <3>2
  <2>3. CASE k \notin Dem!Free
    <3>1. particles'[k] = HeldFast(particles[k])
      BY <1>2, <1>4, <2>3
    <3> QED BY <2>1, <2>3, <3>1, HeldFastFacts
  <2>4. CASE k \in Dem!Free \ out
    <3>1. particles'[k] = particles[k]
      BY <1>2, <2>4
    <3> QED BY <1>6, <2>1, <2>4, <3>1
  <2> QED BY <2>2, <2>3, <2>4
<1>9. particles' \in [DOMAIN particles -> Particle]
  BY <1>2, <1>8
<1>10. particles' \in Seq(Particle)
  BY <1>3, <1>9, ParticleFacts, Remade
<1>11. Dem!Free' = Dem!Free /\ Dem!Free \subseteq DOMAIN particles
  BY <1>7, <1>8 DEF Dem!Free
<1>12. Dem!TypeOK'
  BY <1>1, <1>7, <1>10 DEF Dem!IInv, Dem!TypeOK, Particle
<1>13. \A k \in DOMAIN particles \ Dem!Free :
         particles'[k].v = particles[k].v /\ particles'[k].z = particles[k].z
  BY <1>8 DEF Dem!IInv, Dem!HeldByCrack
<1>14. Dem!HeldByCrack'
  BY <1>7, <1>8, <1>11, <1>13, StillHeld DEF Dem!IInv
<1> QED BY <1>12, <1>14 DEF Dem!IInv

LEMMA DemNextInv ==
    ASSUME Dem!IInv,
           (\E m, n \in Int : Dem!Begin(m, n)) \/ Dem!Next \/ UNCHANGED Dem!vars
    PROVE  Dem!IInv'
<1>1. CASE UNCHANGED Dem!vars
  <2>1. UNCHANGED <<tries, max_steps, particles, contacts, step, at>>
    BY <1>1 DEF Dem!vars
  <2>2. Dem!Free' = Dem!Free
    BY <2>1 DEF Dem!Free
  <2> QED BY <2>1, <2>2 DEF Dem!IInv, Dem!TypeOK, Dem!HeldByCrack
<1> QED
  BY <1>1, DemBeginInv, GenerateInv, BoundaryInv, RunInv, VelocitiesInv, CollisionsInv,
     PositionsInv, ApplyBoundaryInv
  DEF Dem!Next

-----------------------------------------------------------------------------
(* The payloads.                                                           *)

BlockName == {"head", "item", "part", "tail"}
CountName == {"crack_count", "amplitude_count"}

\* What the blocks of one kind of payload are like: the last value of the head
\* counts the items, the last one of a laser payload's item counts its parts.
TableFacts(kind) ==
    /\ Len(Writes(kind)["tail"]) = 2 /\ Writes(kind)["tail"][2].width = JsonSize
    /\ \A b \in BlockName : Len(Writes(kind)[b]) \in Nat
    /\ Len(Writes(kind)["head"]) > 0 /\ Len(Writes(kind)["item"]) > 0
    /\ kind = "laser" => Len(Writes(kind)["part"]) > 0
    /\ \A b \in BlockName : \A k \in 1..Len(Writes(kind)[b]) :
         LET v == Writes(kind)[b][k] IN
         /\ v.width \in Nat \ {0}
         /\ v.name \in CountName <=> b = "head" /\ k = Len(Writes(kind)[b])
         /\ v.name = "point_count" <=>
              kind = "laser" /\ b = "item" /\ k = Len(Writes(kind)[b])
         /\ v.name = "json_length" <=> b = "tail" /\ k = 1
         /\ v.name = "crack_detected" => b = "head" /\ k < Len(Writes(kind)[b])

LEMMA Tables == TableFacts("laser") /\ TableFacts("vibration")
<1>1. TableFacts("laser")
  BY PayloadAssumption
  DEF PayloadAssumption, TableFacts, Writes, WriteLaser, WritePoint, Value, U32, U64, Double,
      BlockName, CountName
<1>2. TableFacts("vibration")
  BY PayloadAssumption
  DEF PayloadAssumption, TableFacts, Writes, WriteVibration, Value, U32, U64, Float, Double,
      BlockName, CountName
<1> QED BY <1>1, <1>2

\* The parser's blocks are those of the sensor, but for the text in the tail.
LEMMA SameTables ==
    ASSUME NEW kind
    PROVE  /\ \A b \in BlockName \ {"tail"} : Reads(kind)[b] = Writes(kind)[b]
           /\ Reads(kind)["tail"][1] = Writes(kind)["tail"][1]
<1>1. ASSUME NEW b \in {"head", "item", "part"}
      PROVE  Reads(kind)[b] = Writes(kind)[b]
  BY DEF Writes, Reads, WriteLaser, WriteVibration, ParseLaser, ParseVibration, WritePoint,
         ReadPoint
<1>2. Reads(kind)["tail"][1] = Writes(kind)["tail"][1]
  BY DEF Writes, Reads, WriteLaser, WriteVibration, ParseLaser, ParseVibration
<1> QED BY <1>1, <1>2 DEF BlockName

LEMMA MeasuredFacts ==
    ASSUME measured \in Measured
    PROVE  /\ measured.kind \in {"laser", "vibration"} /\ TableFacts(measured.kind)
           /\ measured.parts \in Seq(Nat) /\ Len(measured.parts) \in Nat
           /\ \A i \in 1..Len(measured.parts) :
                measured.parts[i] \in Nat
                /\ (measured.kind = "vibration" => measured.parts[i] = 0)
<1>1. CASE \E c \in Laser : measured = [kind |-> "laser", parts |-> c]
  <2>1. PICK c \in Laser : measured = [kind |-> "laser", parts |-> c]
    BY <1>1
  <2>2. c \in Seq(Nat) /\ Len(c) \in Nat /\ \A i \in 1..Len(c) : c[i] \in Nat
    BY PayloadAssumption DEF PayloadAssumption
  <2> QED BY <2>1, <2>2, Tables
<1>2. CASE \E n \in Vibration :
             measured = [kind |-> "vibration", parts |-> [i \in 1..n |-> 0]]
  <2>1. PICK n \in Vibration :
          measured = [kind |-> "vibration", parts |-> [i \in 1..n |-> 0]]
    BY <1>2
  <2> DEFINE c == [i \in 1..n |-> 0]
  <2>2. c \in Seq(Nat) /\ Len(c) \in Nat /\ \A i \in 1..Len(c) : c[i] = 0
    BY PayloadAssumption DEF PayloadAssumption
  <2> HIDE DEF c
  <2>3. measured = [kind |-> "vibration", parts |-> c]
    BY <2>1 DEF c
  <2> QED BY <2>2, <2>3, Tables
<1> QED BY <1>1, <1>2 DEF Measured

\* The loops go from place to place; two programs with the same counts go the same
\* way, and a count matters only where its loop begins or goes on.
LEMMA FollowIsPlace ==
    ASSUME measured \in Measured, NEW p, IsPlace(p)
    PROVE  /\ After(p) = End \/ IsPlace(After(p))
           /\ After(p) = End => p.block = "tail" /\ p.k = 2
           /\ p.block = "tail" /\ p.k = 2 => After(p) = End
<1> DEFINE n == Len(Writes(measured.kind)[p.block])
           m == Len(measured.parts)
           q == measured.parts[p.i]
<1>1. /\ TableFacts(measured.kind) /\ m \in Nat
      /\ \A i \in 1..m : measured.parts[i] \in Nat
                         /\ (measured.kind = "vibration" => measured.parts[i] = 0)
      /\ measured.kind \in {"laser", "vibration"}
  BY MeasuredFacts
<1>2. /\ p.block \in BlockName /\ p.k \in 1..n /\ p.i \in Nat /\ p.j \in Nat
      /\ p.block \in {"item", "part"} => p.i \in 1..m
      /\ p.block = "part" => p.j \in 1..q
  BY DEF IsPlace, BlockName
<1>3. n \in Nat
  BY <1>1, <1>2 DEF TableFacts
<1>4. After(p) = Follow(p, n, m, q)
  BY DEF After
<1>5. p.block = "tail" => n = 2
  BY <1>1 DEF TableFacts
<1>6. ASSUME NEW i \in 1..(m + 1)
      PROVE  IsPlace(Item(i, m)) /\ Item(i, m) # End
  BY <1>1, <1>6 DEF Item, IsPlace, Place, End, TableFacts
<1>7. CASE p.k < n
  <2>1. After(p) = Place(p.block, p.k + 1, p.i, p.j)
    BY <1>4, <1>7 DEF Follow
  <2>2. IsPlace(Place(p.block, p.k + 1, p.i, p.j))
    BY <1>2, <1>3, <1>7 DEF IsPlace, Place, BlockName
  <2>3. After(p) # End
    <3>1. After(p).block = p.block /\ End.block = "end"
      BY <2>1 DEF Place, End
    <3> QED BY <1>2, <3>1 DEF BlockName
  <2>4. ~(p.block = "tail" /\ p.k = 2)
    <3>1. p.block = "tail" /\ p.k = 2 => 2 < 2
      BY <1>5, <1>7
    <3> QED BY <3>1
  <2> QED BY <2>1, <2>2, <2>3, <2>4
<1>8. CASE ~(p.k < n)
  <2>1. p.k = n
    BY <1>2, <1>3, <1>8
  <2>2. CASE p.block = "head"
    <3>1. After(p) = Item(1, m)
      BY <1>4, <1>8, <2>2 DEF Follow
    <3> QED BY <1>1, <1>6, <2>2, <3>1
  <2>3. CASE p.block = "item" /\ q > 0
    <3>1. After(p) = Place("part", 1, p.i, 1)
      BY <1>4, <1>8, <2>3 DEF Follow
    <3>2. q \in Nat /\ p.i \in 1..m /\ measured.kind = "laser"
      BY <1>1, <1>2, <2>3
    <3>3. IsPlace(Place("part", 1, p.i, 1))
      BY <1>1, <2>3, <3>2 DEF IsPlace, Place, TableFacts, BlockName
    <3> QED BY <2>3, <3>1, <3>3 DEF Place, End
  <2>4. CASE p.block = "part" /\ p.j < q
    <3>1. After(p) = Place("part", 1, p.i, p.j + 1)
      BY <1>4, <1>8, <2>4 DEF Follow
    <3>2. q \in Nat /\ p.i \in 1..m /\ p.j \in Nat
      BY <1>1, <1>2, <2>4
    <3>3. IsPlace(Place("part", 1, p.i, p.j + 1))
      BY <1>2, <1>3, <2>4, <3>2 DEF IsPlace, Place
    <3> QED BY <2>4, <3>1, <3>3 DEF Place, End
  <2>5. CASE p.block \in {"item", "part"} /\ ~(p.block = "item" /\ q > 0)
               /\ ~(p.block = "part" /\ p.j < q)
    <3>1. After(p) = Item(p.i + 1, m)
      BY <1>4, <1>8, <2>5 DEF Follow
    <3>2. p.i + 1 \in 1..(m + 1)
      BY <1>1, <1>2, <2>5
    <3> QED BY <1>6, <2>5, <3>1, <3>2
  <2>6. CASE p.block = "tail"
    BY <1>4, <1>5, <1>8, <2>1, <2>6 DEF Follow
  <2> QED BY <1>2, <2>2, <2>3, <2>4, <2>5, <2>6 DEF BlockName
<1> QED BY <1>7, <1>8

LEMMA FollowAgrees ==
    ASSUME NEW p, NEW n, NEW c, NEW d, NEW m, NEW q,
           p.k < n \/ p.block = "tail" \/ c = m,
           p.k < n \/ p.block \in {"head", "tail"} \/ d = q
    PROVE  Follow(p, n, c, d) = Follow(p, n, m, q)
  BY DEF Follow

LEMMA WrittenFacts ==
    ASSUME measured \in Measured, NEW p, IsPlace(p)
    PROVE  /\ Written(p).place = p /\ Written(p).width \in Nat \ {0}
           /\ Written(p).name = Writes(measured.kind)[p.block][p.k].name
           /\ Written(p).width = Writes(measured.kind)[p.block][p.k].width
           /\ Written(p).number = Number(Written(p).name, p.i)
           /\ Written(p).number \in Nat
<1>1. /\ TableFacts(measured.kind) /\ Len(measured.parts) \in Nat
      /\ \A i \in 1..Len(measured.parts) : measured.parts[i] \in Nat
  BY MeasuredFacts
<1>2. /\ p.block \in BlockName /\ p.k \in 1..Len(Writes(measured.kind)[p.block])
      /\ p.block \in {"item", "part"} => p.i \in 1..Len(measured.parts)
  BY DEF IsPlace, BlockName
<1>3. /\ Written(p).place = p
      /\ Written(p).name = Writes(measured.kind)[p.block][p.k].name
      /\ Written(p).width = Writes(measured.kind)[p.block][p.k].width
      /\ Written(p).number = Number(Written(p).name, p.i)
  BY DEF Written
<1>4. /\ Written(p).width \in Nat \ {0}
      /\ Written(p).name = "point_count" => p.block = "item"
  BY <1>1, <1>2, <1>3 DEF TableFacts
<1>5. Number(Written(p).name, p.i) \in Nat
  BY <1>1, <1>2, <1>4, PayloadAssumption DEF Number, PayloadAssumption
<1> QED BY <1>3, <1>4, <1>5

LEMMA PayloadInitInv ==
    ASSUME PayloadInit
    PROVE  PayloadIInv
<1>1. measured \in Measured /\ payload = <<>> /\ size = 0 /\ bytes = 0
  BY DEF PayloadInit
<1>2. DOMAIN payload = {}
  BY <1>1
<1>3. IsPlace(First)
  BY <1>1, MeasuredFacts DEF IsPlace, First, Place, TableFacts, BlockName
<1>4. PayloadTypeOK
  <2>1. size \in Nat /\ bytes \in 0..size
    BY <1>1
  <2> QED BY <1>1, <1>2, <1>3, <2>1 DEF PayloadInit, PayloadTypeOK
<1>5. OneBehindTheOther
  BY <1>1, <1>2 DEF PayloadInit, OneBehindTheOther
<1>6. InStep /\ NoPartialMeasurement
  BY DEF PayloadInit, InStep, NoPartialMeasurement
<1> QED BY <1>4, <1>5, <1>6 DEF PayloadIInv

\* While the sensor writes, the new value is behind the last one.
LEMMA WriteValueInv ==
    ASSUME PayloadIInv, WriteValue
    PROVE  PayloadIInv'
<1> DEFINE f == Written(put)
<1>1. PayloadTypeOK /\ OneBehindTheOther /\ InStep
  BY DEF PayloadIInv
<1>2. /\ result = "writing" /\ put # End
      /\ payload' = [o \in DOMAIN payload \union {size} |-> IF o = size THEN f ELSE payload[o]]
      /\ size' = size + f.width /\ put' = After(put)
  BY DEF WriteValue
<1>3. UNCHANGED <<measured, bytes, get, offset, items, points, json, outside, result>>
  BY DEF WriteValue, readerVars
<1>4. measured \in Measured /\ IsPlace(put) /\ size \in Nat /\ bytes \in 0..size
      /\ DOMAIN payload \subseteq 0..(size - 1)
  BY <1>1, <1>2 DEF PayloadTypeOK
<1>5. f.place = put /\ f.width \in Nat \ {0}
  BY <1>4, WrittenFacts
<1>6. /\ \A p : IsPlace(p)' <=> IsPlace(p)
      /\ \A p : Written(p)' = Written(p)
      /\ \A p : After(p)' = After(p)
  BY <1>3 DEF IsPlace, Written, After, Number
<1> HIDE DEF f
<1>7. /\ DOMAIN payload' = DOMAIN payload \union {size}
      /\ payload'[size] = f /\ size \notin DOMAIN payload
      /\ \A o \in DOMAIN payload : payload'[o] = payload[o] /\ o # size
  <2>1. size \notin DOMAIN payload
    BY <1>4
  <2> QED BY <1>2, <2>1
<1>8. PayloadTypeOK'
  <2>1. DOMAIN payload' \subseteq 0..(size' - 1)
    BY <1>2, <1>4, <1>5, <1>7
  <2>2. \A o \in DOMAIN payload' :
          IsPlace(payload'[o].place) /\ payload'[o] = Written(payload'[o].place)
    <3>1. IsPlace(f.place) /\ f = Written(f.place)
      BY <1>4, <1>5 DEF f
    <3>2. \A o \in DOMAIN payload :
            IsPlace(payload[o].place) /\ payload[o] = Written(payload[o].place)
      BY <1>1 DEF PayloadTypeOK
    <3> QED BY <1>7, <3>1, <3>2
  <2>3. put' = End \/ IsPlace(put')
    BY <1>2, <1>4, FollowIsPlace
  <2>4. size' \in Nat /\ bytes' \in 0..size'
    BY <1>2, <1>3, <1>4, <1>5
  <2> QED BY <1>1, <1>3, <1>6, <2>1, <2>2, <2>3, <2>4 DEF PayloadTypeOK
<1>9. OneBehindTheOther'
  <2>1. DOMAIN payload' # {} /\ 0 \in DOMAIN payload' /\ payload'[0].place = First
    <3>1. CASE DOMAIN payload = {}
      <4>1. size = 0 /\ put = First
        BY <1>1, <3>1 DEF OneBehindTheOther
      <4> QED BY <1>5, <1>7, <4>1
    <3>2. CASE DOMAIN payload # {}
      BY <1>1, <1>7, <3>2 DEF OneBehindTheOther
    <3> QED BY <3>1, <3>2
  <2>2. ASSUME NEW o \in DOMAIN payload'
        PROVE  LET next == o + payload'[o].width IN
               IF next \in DOMAIN payload'
               THEN payload'[next].place = After(payload'[o].place)
               ELSE next = size' /\ put' = After(payload'[o].place)
    <3>1. CASE o = size
      <4>1. payload'[o] = f /\ o + f.width = size'
        BY <1>2, <1>7, <3>1
      <4>2. size' \notin DOMAIN payload'
        BY <1>2, <1>4, <1>5, <1>7
      <4> QED BY <1>2, <1>5, <4>1, <4>2
    <3>2. CASE o \in DOMAIN payload
      <4> DEFINE next == o + payload[o].width
      <4>1. payload'[o] = payload[o]
        BY <1>7, <3>2
      <4>2. IF next \in DOMAIN payload
            THEN payload[next].place = After(payload[o].place)
            ELSE next = size /\ put = After(payload[o].place)
        BY <1>1, <3>2 DEF OneBehindTheOther
      <4> HIDE DEF next
      <4>3. CASE next \in DOMAIN payload
        <5>1. next \in DOMAIN payload' /\ payload'[next] = payload[next]
          BY <1>7, <4>3
        <5> QED BY <4>1, <4>2, <4>3, <5>1 DEF next
      <4>4. CASE next \notin DOMAIN payload
        <5>1. next \in DOMAIN payload' /\ payload'[next] = f
          BY <1>7, <4>2, <4>4
        <5> QED BY <1>5, <4>1, <4>2, <4>4, <5>1 DEF next
      <4> QED BY <4>3, <4>4
    <3> QED BY <1>7, <3>1, <3>2
  <2> QED BY <1>6, <2>1, <2>2 DEF OneBehindTheOther
<1>10. InStep' /\ NoPartialMeasurement'
  BY <1>1, <1>2, <1>3 DEF InStep, NoPartialMeasurement
<1> QED BY <1>8, <1>9, <1>10 DEF PayloadIInv

\* What stays as long as the parser reads.
LEMMA WrittenStays ==
    ASSUME PayloadIInv, UNCHANGED <<writerVars, bytes>>, put = End,
           offset' \in Nat, items' \in Nat, points' \in Nat,
           result' \in {"writing", "reading", "ok", "thrown"},
           json' \in BOOLEAN, outside' \in BOOLEAN
    PROVE  PayloadTypeOK' /\ OneBehindTheOther'
<1>1. UNCHANGED <<measured, payload, size, put, bytes>>
  BY DEF writerVars
<1>2. /\ \A p : IsPlace(p)' <=> IsPlace(p)
      /\ \A p : Written(p)' = Written(p)
      /\ \A p : After(p)' = After(p)
  BY <1>1 DEF IsPlace, Written, After, Number
<1>3. PayloadTypeOK /\ OneBehindTheOther
  BY DEF PayloadIInv
<1>4. PayloadTypeOK'
  BY <1>1, <1>2, <1>3 DEF PayloadTypeOK
<1>5. OneBehindTheOther'
  BY <1>1, <1>2, <1>3 DEF OneBehindTheOther
<1> QED BY <1>4, <1>5

\* The value at the parser's place, and where the next one is.
LEMMA AtThePlace ==
    ASSUME PayloadIInv, result = "reading"
    PROVE  /\ measured \in Measured /\ size \in Nat /\ bytes \in 0..size
           /\ offset \in Nat /\ offset \in DOMAIN payload /\ IsPlace(get)
           /\ payload[offset] = Written(get) /\ put = End
           /\ Wanted.width \in Nat \ {0} /\ Wanted.width = Written(get).width
           /\ Wanted.name = Written(get).name
           /\ Found(Wanted.width) /\ Numbers(Wanted.width) = {Number(Wanted.name, get.i)}
           /\ offset + Wanted.width <= size
<1>1. PayloadTypeOK /\ OneBehindTheOther /\ InStep
  BY DEF PayloadIInv
<1>2. /\ offset \in DOMAIN payload /\ payload[offset].place = get /\ put = End
      /\ get.block = "tail" => get.k = 1
  BY <1>1 DEF InStep
<1>3. /\ measured \in Measured /\ size \in Nat /\ bytes \in 0..size /\ offset \in Nat
      /\ DOMAIN payload \subseteq 0..(size - 1)
      /\ IsPlace(get) /\ payload[offset] = Written(get)
  BY <1>1, <1>2 DEF PayloadTypeOK
<1>4. Wanted = Writes(measured.kind)[get.block][get.k]
  <2>1. get.block \in BlockName
    BY <1>3 DEF IsPlace, BlockName
  <2>2. CASE get.block = "tail"
    BY <1>2, <2>2, SameTables DEF Wanted, Block
  <2>3. CASE get.block \in BlockName \ {"tail"}
    BY <2>3, SameTables DEF Wanted, Block
  <2> QED BY <2>1, <2>2, <2>3
<1>5. /\ Wanted.width = Written(get).width /\ Wanted.name = Written(get).name
      /\ Wanted.width \in Nat \ {0} /\ Written(get).number = Number(Wanted.name, get.i)
  BY <1>3, <1>4, WrittenFacts
<1>6. Found(Wanted.width) /\ Numbers(Wanted.width) = {Number(Wanted.name, get.i)}
  BY <1>2, <1>3, <1>5 DEF Found, Numbers
<1>7. offset + Wanted.width <= size
  <2>1. offset + Wanted.width \in DOMAIN payload \/ offset + Wanted.width = size
    BY <1>1, <1>2, <1>3, <1>5 DEF OneBehindTheOther
  <2> QED BY <1>3, <1>5, <2>1
<1> QED BY <1>2, <1>3, <1>5, <1>6, <1>7

\* In the tail the parser wants json_length, and only there.
LEMMA TailIsJson ==
    ASSUME PayloadIInv, result = "reading"
    PROVE  /\ get.block = "tail" <=> Wanted.name = "json_length"
           /\ Wanted.name = "crack_detected" => get.block = "head"
<1>1. /\ measured \in Measured /\ IsPlace(get) /\ Wanted.name = Written(get).name
  BY AtThePlace
<1>2. TableFacts(measured.kind)
  BY <1>1, MeasuredFacts
<1>3. Wanted.name = Writes(measured.kind)[get.block][get.k].name
  BY <1>1, WrittenFacts
<1>4. get.block \in BlockName /\ get.k \in 1..Len(Writes(measured.kind)[get.block])
  BY <1>1 DEF IsPlace, BlockName
<1>5. get.block = "tail" => get.k = 1
  BY DEF PayloadIInv, InStep
<1> QED BY <1>2, <1>3, <1>4, <1>5 DEF TableFacts

\* The parser's next place is that of the next value, if its counts are right.
LEMMA NextPlace ==
    ASSUME PayloadIInv, result = "reading", get.block # "tail", NEW c, NEW d,
           get.k < Len(Block) \/ c = Len(measured.parts),
           get.k < Len(Block) \/ get.block = "head" \/ d = measured.parts[get.i]
    PROVE  LET p == Follow(get, Len(Block), c, d) IN
           /\ p = After(get)
           /\ offset + Wanted.width \in DOMAIN payload
           /\ payload[offset + Wanted.width].place = p
<1> DEFINE p == Follow(get, Len(Block), c, d)
<1>1. /\ measured \in Measured /\ IsPlace(get) /\ offset \in DOMAIN payload /\ put = End
      /\ payload[offset] = Written(get) /\ Wanted.width = Written(get).width
      /\ Written(get).place = get
  BY AtThePlace, WrittenFacts
<1>2. Block = Writes(measured.kind)[get.block]
  <2>1. get.block \in BlockName \ {"tail"}
    BY <1>1 DEF IsPlace, BlockName
  <2> QED BY <2>1, SameTables DEF Block
<1>3. p = After(get)
  BY <1>2, FollowAgrees DEF After
<1>4. After(get) # End
  BY <1>1, FollowIsPlace
<1>5. LET next == offset + Wanted.width IN
      IF next \in DOMAIN payload THEN payload[next].place = After(get)
      ELSE next = size /\ put = After(get)
  BY <1>1 DEF PayloadIInv, OneBehindTheOther
<1> HIDE DEF p
<1> QED BY <1>1, <1>3, <1>4, <1>5 DEF p

\* Where a step leads within the loops.
LEMMA BlockAfter ==
    ASSUME NEW p, NEW n, NEW c, NEW d, p.block \in {"head", "item", "part"}
    PROVE  LET r == Follow(p, n, c, d) IN
           /\ r.block = "tail" => r.k = 1
           /\ r.block # "head" /\ p.block = "head" => ~(p.k < n)
           /\ r.block = "part" =>
                /\ p.block \in {"item", "part"} /\ r.i = p.i
                /\ p.block = "item" => ~(p.k < n)
  BY DEF Follow, Place, Item

LEMMA ArrivesInv ==
    ASSUME PayloadIInv, Arrives
    PROVE  PayloadIInv'
<1>1. PayloadTypeOK /\ OneBehindTheOther /\ InStep
  BY DEF PayloadIInv
<1>2. /\ result = "writing" /\ put = End /\ bytes' \in 0..size /\ result' = "reading"
      /\ UNCHANGED <<measured, payload, size, put>> /\ UNCHANGED readerVars
  BY DEF Arrives, writerVars
<1>3. UNCHANGED <<get, offset, items, points, json, outside>>
  BY <1>2 DEF readerVars
<1>4. /\ \A p : IsPlace(p)' <=> IsPlace(p)
      /\ \A p : Written(p)' = Written(p)
      /\ \A p : After(p)' = After(p)
  BY <1>2 DEF IsPlace, Written, After, Number
<1>5. PayloadTypeOK'
  BY <1>1, <1>2, <1>3, <1>4 DEF PayloadTypeOK
<1>6. OneBehindTheOther'
  BY <1>1, <1>2, <1>4 DEF OneBehindTheOther
<1>7. 0 \in DOMAIN payload /\ payload[0].place = First
  <2>1. First # End
    BY DEF First, End, Place
  <2> QED BY <1>1, <1>2, <2>1 DEF OneBehindTheOther
<1>8. First.block = "head"
  BY DEF First, Place
<1>9. InStep'
  BY <1>1, <1>2, <1>3, <1>7, <1>8 DEF InStep
<1>10. NoPartialMeasurement'
  BY <1>1, <1>2, <1>3 DEF NoPartialMeasurement
<1> QED BY <1>5, <1>6, <1>9, <1>10 DEF PayloadIInv

\* A value is read, and the parser is at the next one.
LEMMA StepInv ==
    ASSUME PayloadIInv, result = "reading", result' = "reading",
           get.block # "tail", Took(Wanted),
           UNCHANGED <<writerVars, bytes, json>>, outside' \in BOOLEAN,
           items' = IF Wanted.name \in CountName THEN Number(Wanted.name, get.i) ELSE items,
           points' = IF Wanted.name = "point_count" THEN Number(Wanted.name, get.i) ELSE points,
           get' = Follow(get, Len(Block), items', points'),
           outside' => offset' > bytes
    PROVE  PayloadIInv'
<1> DEFINE m == Len(measured.parts)
<1>1. /\ measured \in Measured /\ IsPlace(get) /\ put = End
      /\ Wanted.name = Written(get).name /\ Wanted.width \in Nat \ {0}
      /\ offset \in Nat /\ Found(Wanted.width)
      /\ payload[offset] = Written(get)
      /\ Number(Wanted.name, get.i) \in Nat
      /\ items \in Nat /\ points \in Nat /\ json \in BOOLEAN
  <2>1. IsPlace(get) /\ measured \in Measured /\ Wanted.name = Written(get).name
    BY AtThePlace
  <2>2. Number(Wanted.name, get.i) \in Nat
    BY <2>1, WrittenFacts
  <2> QED BY <2>1, <2>2, AtThePlace DEF PayloadIInv, PayloadTypeOK
<1>2. /\ TableFacts(measured.kind) /\ m \in Nat
      /\ measured.kind \in {"laser", "vibration"}
      /\ \A i \in 1..m : measured.kind = "vibration" => measured.parts[i] = 0
  BY <1>1, MeasuredFacts
<1>3. /\ get.block \in {"head", "item", "part"} /\ get.k \in 1..Len(Block)
      /\ get.block \in {"item", "part"} => get.i \in 1..m
      /\ Block = Writes(measured.kind)[get.block]
  <2>1. /\ get.block \in BlockName \ {"tail"}
        /\ get.k \in 1..Len(Writes(measured.kind)[get.block])
        /\ get.block \in {"item", "part"} => get.i \in 1..m
    BY <1>1 DEF IsPlace, BlockName
  <2> QED BY <2>1, SameTables DEF Block, BlockName
<1>4. /\ Wanted.name \in CountName <=> get.block = "head" /\ get.k = Len(Block)
      /\ Wanted.name = "point_count" <=>
           measured.kind = "laser" /\ get.block = "item" /\ get.k = Len(Block)
  <2>1. Wanted.name = Block[get.k].name
    BY DEF Wanted
  <2>2. /\ Block[get.k].name \in CountName <=> get.block = "head" /\ get.k = Len(Block)
        /\ Block[get.k].name = "point_count" <=>
             measured.kind = "laser" /\ get.block = "item" /\ get.k = Len(Block)
    BY <1>2, <1>3 DEF TableFacts, BlockName
  <2> QED BY <2>1, <2>2
<1>5. /\ get.block # "head" => items = m
      /\ get.block = "part" => points = measured.parts[get.i]
      /\ measured.kind = "vibration" => points = 0
  BY DEF PayloadIInv, InStep
<1>6. get.k < Len(Block) \/ get.k = Len(Block)
  <2>1. Len(Block) \in Nat
    BY <1>2, <1>3 DEF TableFacts, BlockName
  <2> QED BY <1>3, <2>1
<1>7. get.block # "head" \/ ~(get.k < Len(Block)) => items' = m
  BY <1>4, <1>5, <1>6 DEF Number, CountName
<1>8. /\ get.block = "part" => points' = measured.parts[get.i]
      /\ get.block = "item" /\ ~(get.k < Len(Block)) => points' = measured.parts[get.i]
      /\ measured.kind = "vibration" => points' = 0
  BY <1>2, <1>3, <1>4, <1>5, <1>6 DEF Number, CountName
<1>9. /\ offset + Wanted.width \in DOMAIN payload
      /\ payload[offset + Wanted.width].place = get'
  BY <1>3, <1>7, <1>8, NextPlace
<1>10. UNCHANGED <<measured, payload, size, put, bytes>>
  BY DEF writerVars
<1>11. offset' = offset + Wanted.width
  BY <1>1 DEF Took
<1>12. /\ get'.block = "tail" => get'.k = 1
       /\ get'.block # "head" => items' = m
       /\ get'.block = "part" => points' = measured.parts[get'.i]
  BY <1>3, <1>7, <1>8, BlockAfter
<1>13. InStep'
  BY <1>8, <1>9, <1>10, <1>11, <1>12, <1>1 DEF InStep
<1>14. PayloadTypeOK' /\ OneBehindTheOther'
  <2>1. offset' \in Nat /\ items' \in Nat /\ points' \in Nat
    BY <1>1, <1>11
  <2>2. json' \in BOOLEAN
    BY <1>1, <1>11
  <2> QED BY <1>1, <2>1, <2>2, WrittenStays
<1>15. NoPartialMeasurement'
  BY <1>11 DEF NoPartialMeasurement
<1> QED BY <1>13, <1>14, <1>15 DEF PayloadIInv

LEMMA ReadValueInv ==
    ASSUME PayloadIInv, ReadValue
    PROVE  PayloadIInv'
<1> DEFINE n == Number(Wanted.name, get.i)
<1>1. /\ result = "reading" /\ result' = "reading" /\ Took(Wanted)
      /\ Wanted.name # "json_length" /\ offset + Wanted.width <= bytes
      /\ get' = Follow(get, Len(Block), items', points')
      /\ UNCHANGED <<writerVars, bytes, json, outside>>
  BY DEF ReadValue
<1>2. Numbers(Wanted.width) = {n}
  BY <1>1, AtThePlace
<1>3. /\ items' = IF Wanted.name \in CountName THEN n ELSE items
      /\ points' = IF Wanted.name = "point_count" THEN n ELSE points
  BY <1>2 DEF ReadValue, CountName
<1>4. /\ offset \in Nat /\ bytes \in Nat /\ Wanted.width \in Nat \ {0}
      /\ outside \in BOOLEAN /\ (outside => offset > bytes)
      /\ size \in Nat /\ bytes \in 0..size
  BY <1>1, AtThePlace DEF PayloadIInv, PayloadTypeOK, InStep
<1>5. ~outside
  BY <1>1, <1>4
<1>6. get.block # "tail"
  BY <1>1, TailIsJson
<1> HIDE DEF n
<1> QED BY <1>1, <1>3, <1>4, <1>5, <1>6, StepInv DEF n

LEMMA ReadFlagInv ==
    ASSUME PayloadIInv, ReadFlag
    PROVE  PayloadIInv'
<1>1. /\ result = "reading" /\ result' = "reading" /\ Took(Wanted)
      /\ Wanted.name = "crack_detected" /\ outside' = (offset >= bytes)
      /\ get' = Follow(get, Len(Block), items', points')
      /\ items' = items /\ points' = points
      /\ UNCHANGED <<writerVars, bytes, json>>
  BY DEF ReadFlag
<1>2. get.block # "tail"
  BY <1>1, TailIsJson
<1>3. offset' = offset + Wanted.width
  BY <1>1 DEF Took
<1>4. outside' \in BOOLEAN
  BY <1>1
<1>5. offset \in Nat /\ Wanted.width \in Nat \ {0} /\ size \in Nat /\ bytes \in 0..size
  BY <1>1, AtThePlace
<1>6. outside' => offset' > bytes
  <2>1. outside' => offset >= bytes
    BY <1>1, Zenon
  <2>2. offset >= bytes => offset' > bytes
    BY <1>3, <1>5
  <2> QED BY <2>1, <2>2, Zenon
<1> QED BY <1>1, <1>2, <1>4, <1>6, StepInv DEF CountName

LEMMA ReadThrowsInv ==
    ASSUME PayloadIInv, ReadThrows
    PROVE  PayloadIInv'
<1>1. /\ result = "reading" /\ result' = "thrown" /\ offset + Wanted.width > bytes
      /\ UNCHANGED <<writerVars, bytes, readerVars>>
  BY DEF ReadThrows
<1>2. UNCHANGED <<get, offset, items, points, json, outside>>
      /\ UNCHANGED <<measured, payload, size, put, bytes>>
  BY <1>1 DEF readerVars, writerVars
<1>3. /\ offset \in Nat /\ Wanted.width \in Nat /\ size \in Nat /\ bytes \in 0..size
      /\ offset + Wanted.width <= size /\ put = End
  BY <1>1, AtThePlace
<1>4. bytes < size
  BY <1>1, <1>3
<1>5. bytes' < size' /\ ~Whole'
  BY <1>2, <1>3, <1>4 DEF Whole
<1>6. PayloadTypeOK' /\ OneBehindTheOther'
  <2>1. /\ offset' \in Nat /\ items' \in Nat /\ points' \in Nat
        /\ json' \in BOOLEAN /\ outside' \in BOOLEAN
    BY <1>2 DEF PayloadIInv, PayloadTypeOK
  <2> QED BY <1>1, <1>3, <2>1, WrittenStays
<1>7. InStep'
  BY <1>1, <1>2, <1>3, <1>5 DEF InStep
<1>8. NoPartialMeasurement'
  BY <1>1, <1>2, <1>5 DEF PayloadIInv, NoPartialMeasurement
<1> QED BY <1>6, <1>7, <1>8 DEF PayloadIInv

\* Behind json_length there is only the text.
LEMMA TextIsLast ==
    ASSUME PayloadIInv, result = "reading", get.block = "tail"
    PROVE  offset + Wanted.width + JsonSize = size
<1> DEFINE at1 == offset + Wanted.width
<1>1. /\ measured \in Measured /\ IsPlace(get) /\ offset \in DOMAIN payload /\ put = End
      /\ payload[offset] = Written(get) /\ Wanted.width = Written(get).width
      /\ Written(get).place = get /\ get.k = 1
  BY AtThePlace, WrittenFacts DEF PayloadIInv, InStep
<1>2. After(get) # End
  BY <1>1, FollowIsPlace
<1>3. at1 \in DOMAIN payload /\ payload[at1].place = After(get)
  BY <1>1, <1>2 DEF PayloadIInv, OneBehindTheOther
<1>4. After(get).block = "tail" /\ After(get).k = 2
  <2>1. Len(Writes(measured.kind)["tail"]) = 2
    BY <1>1, MeasuredFacts DEF TableFacts
  <2> QED BY <1>1, <2>1 DEF After, Follow, Place
<1>5. IsPlace(After(get)) /\ payload[at1] = Written(After(get))
  BY <1>3 DEF PayloadIInv, PayloadTypeOK
<1>6. payload[at1].width = JsonSize
  <2>1. Writes(measured.kind)["tail"][2].width = JsonSize
    BY <1>1, MeasuredFacts DEF TableFacts
  <2> QED BY <1>1, <1>4, <1>5, <2>1, WrittenFacts
<1>7. After(After(get)) = End
  BY <1>1, <1>4, <1>5, FollowIsPlace
<1>8. at1 + JsonSize \notin DOMAIN payload
  <2>1. ASSUME at1 + JsonSize \in DOMAIN payload
        PROVE  FALSE
    <3>1. payload[at1 + JsonSize].place = End
      BY <1>3, <1>6, <1>7, <2>1 DEF PayloadIInv, OneBehindTheOther
    <3>2. IsPlace(End)
      BY <2>1, <3>1 DEF PayloadIInv, PayloadTypeOK
    <3> QED BY <3>2 DEF IsPlace, End, Place
  <2> QED BY <2>1
<1>9. at1 + payload[at1].width = size
  BY <1>3, <1>6, <1>8 DEF PayloadIInv, OneBehindTheOther
<1> QED BY <1>6, <1>9

LEMMA ReadJsonInv ==
    ASSUME PayloadIInv, ReadJson
    PROVE  PayloadIInv'
<1>1. /\ result = "reading" /\ result' = "ok" /\ offset + Wanted.width <= bytes
      /\ Wanted.name = "json_length" /\ Took(Wanted)
      /\ UNCHANGED <<writerVars, bytes, get, items, points, outside>>
  BY DEF ReadJson
<1>2. UNCHANGED <<measured, payload, size, put, bytes, get, items, points, outside>>
  BY <1>1 DEF writerVars
<1>3. /\ offset \in Nat /\ Wanted.width \in Nat /\ size \in Nat /\ bytes \in 0..size
      /\ put = End /\ Found(Wanted.width) /\ payload[offset].name = Wanted.name
  BY <1>1, AtThePlace
<1>4. offset' = offset + Wanted.width
  BY <1>1 DEF Took
<1>5. JsonSize \in Nat \ {0}
  BY PayloadAssumption DEF PayloadAssumption
<1>6. offset + Wanted.width + JsonSize = size
  BY <1>1, TailIsJson, TextIsLast
<1>7. json' = (bytes = size)
  <2>1. Numbers(Wanted.width) = {JsonSize}
    <3>1. Number("json_length", get.i) = JsonSize
      BY DEF Number
    <3> QED BY <1>1, <3>1, AtThePlace
  <2>2. json' = (JsonSize > 0 /\ offset + Wanted.width + JsonSize <= bytes)
    BY <2>1 DEF ReadJson
  <2>3. JsonSize > 0 /\ (offset + Wanted.width + JsonSize <= bytes <=> bytes = size)
    BY <1>3, <1>5, <1>6
  <2> QED BY <2>2, <2>3
<1>8. ~outside
  BY <1>1, <1>3 DEF PayloadIInv, InStep
<1>9. PayloadTypeOK' /\ OneBehindTheOther'
  <2>1. json' \in BOOLEAN /\ outside' \in BOOLEAN
    <3>1. json' \in BOOLEAN
      BY <1>7
    <3>2. outside' \in BOOLEAN
      BY <1>2 DEF PayloadIInv, PayloadTypeOK
    <3> QED BY <3>1, <3>2
  <2>2. offset' \in Nat /\ items' \in Nat /\ points' \in Nat
    BY <1>2, <1>3, <1>4 DEF PayloadIInv, PayloadTypeOK
  <2> QED BY <1>1, <1>3, <2>1, <2>2, WrittenStays
<1>10. InStep'
  BY <1>1, <1>2, <1>3 DEF InStep
<1>11. NoPartialMeasurement'
  <2>1. bytes' >= size' - JsonSize
    BY <1>1, <1>2, <1>3, <1>5, <1>6
  <2> QED BY <1>2, <1>7, <1>8, <2>1 DEF NoPartialMeasurement, Whole
<1> QED BY <1>9, <1>10, <1>11 DEF PayloadIInv

LEMMA ParserNextInv ==
    ASSUME PayloadIInv, ParserNext \/ UNCHANGED payloadVars
    PROVE  PayloadIInv'
<1>1. CASE UNCHANGED payloadVars
  <2>1. UNCHANGED <<measured, payload, size, put, bytes, result>>
        /\ UNCHANGED <<get, offset, items, points, json, outside>>
    BY <1>1 DEF payloadVars, writerVars, readerVars
  <2>2. /\ \A p : IsPlace(p)' <=> IsPlace(p)
        /\ \A p : Written(p)' = Written(p)
        /\ \A p : After(p)' = After(p)
    BY <2>1 DEF IsPlace, Written, After, Number
  <2>3. PayloadTypeOK'
    BY <2>1, <2>2 DEF PayloadIInv, PayloadTypeOK
  <2>4. OneBehindTheOther'
    BY <2>1, <2>2 DEF PayloadIInv, OneBehindTheOther
  <2>5. InStep'
    BY <2>1 DEF PayloadIInv, InStep
  <2>6. NoPartialMeasurement'
    BY <2>1 DEF PayloadIInv, NoPartialMeasurement, Whole
  <2> QED BY <2>3, <2>4, <2>5, <2>6 DEF PayloadIInv
<1>2. CASE ParserNext
  BY <1>2, WriteValueInv, ArrivesInv, ReadValueInv, ReadThrowsInv, ReadFlagInv, ReadJsonInv
  DEF ParserNext
<1> QED BY <1>1, <1>2

-----------------------------------------------------------------------------
(* MonitorServer.                                                          *)

\* The numbers the parts take from the configuration are integers.
LEMMA NumbersInt ==
    ASSUME ConfigTypeOK
    PROVE  /\ cfg["thread_pool_size"] \in Int
           /\ global["prediction_horizon_hours"] \in Int
           /\ global["max_particles"] \in Int /\ global["simulation_steps"] \in Int
BY DEF ConfigTypeOK, IntKey

LEMMA InitIInv ==
    ASSUME Init PROVE IInv
<1>1. ConfigTypeOK /\ LayerInv
  BY ConfigInitInv DEF Init
<1>2. Profinet!IInv /\ Fatigue!IInv /\ Dem!IInv
  BY ProfinetInitInv, FatigueInitInv, DemInitInv DEF Init
<1>3. part \in Part /\ outcome \in {"runs", "fatal"}
  BY SettingAssumption DEF Init
<1>4. PayloadIInv
  BY PayloadInitInv DEF Init
<1>5. PayloadTypeOK
  BY <1>4 DEF PayloadIInv
<1> QED BY <1>1, <1>2, <1>3, <1>4, <1>5 DEF IInv, TypeOK, Profinet!IInv, Fatigue!IInv, Dem!IInv

LEMMA NextIInv ==
    ASSUME IInv, [Next]_vars PROVE IInv'
<1>1. /\ ConfigTypeOK /\ LayerInv /\ Profinet!IInv /\ Fatigue!IInv /\ Dem!IInv
      /\ PayloadIInv
  BY DEF IInv, TypeOK
<1>2. ASSUME LoadConfig \/ BindFails \/ ParserRuns \/ UNCHANGED vars
      PROVE  UNCHANGED <<profinetVars, fatigueVars, demVars>>
  BY <1>2 DEF LoadConfig, BindFails, ParserRuns, vars
<1>3. (ConfigTypeOK /\ LayerInv)'
  <2>1. ConfigNext \/ UNCHANGED configVars
    BY DEF Next, LoadConfig, BindFails, ProfinetRuns, FatigueRuns, DemRuns, ParserRuns, vars
  <2> QED BY <1>1, <2>1, ConfigNextInv
<1>4. Profinet!IInv'
  <2>1. (\E n \in Int : Profinet!Start(n)) \/ Profinet!Next \/ UNCHANGED Profinet!vars
    <3>1. CASE ProfinetRuns
      BY <1>1, <3>1, NumbersInt DEF ProfinetRuns
    <3>2. CASE UNCHANGED profinetVars
      BY <3>2
      DEF profinetVars, Profinet!vars, Profinet!tcpVars, Profinet!socketVars, Profinet!udpVars
    <3> QED BY <1>2, <3>1, <3>2 DEF Next, FatigueRuns, DemRuns
  <2> QED BY <1>1, <2>1, ProfinetNextInv
<1>5. Fatigue!IInv'
  <2>1. \/ \E h \in Int, l \in Crack : Fatigue!Begin(h, l)
        \/ Fatigue!Next \/ UNCHANGED Fatigue!vars
    <3>1. CASE FatigueRuns
      BY <1>1, <3>1, NumbersInt DEF FatigueRuns
    <3>2. CASE UNCHANGED fatigueVars
      BY <3>2 DEF fatigueVars, Fatigue!vars
    <3> QED BY <1>2, <3>1, <3>2 DEF Next, ProfinetRuns, DemRuns
  <2> QED BY <1>1, <2>1, FatigueNextInv
<1>6. Dem!IInv'
  <2>1. (\E m, n \in Int : Dem!Begin(m, n)) \/ Dem!Next \/ UNCHANGED Dem!vars
    <3>1. CASE DemRuns
      BY <1>1, <3>1, NumbersInt DEF DemRuns
    <3>2. CASE UNCHANGED demVars
      BY <3>2 DEF demVars, Dem!vars
    <3> QED BY <1>2, <3>1, <3>2 DEF Next, ProfinetRuns, FatigueRuns
  <2> QED BY <1>1, <2>1, DemNextInv
<1>7. part' \in Part /\ outcome' \in {"runs", "fatal"}
  BY DEF IInv, TypeOK, Next, LoadConfig, BindFails, ProfinetRuns, FatigueRuns, DemRuns,
         ParserRuns, vars, mainVars
<1>8. PayloadIInv'
  <2>1. ParserNext \/ UNCHANGED payloadVars
    BY DEF Next, LoadConfig, BindFails, ProfinetRuns, FatigueRuns, DemRuns, ParserRuns, vars
  <2> QED BY <1>1, <2>1, ParserNextInv
<1>9. PayloadTypeOK'
  BY <1>8 DEF PayloadIInv
<1> QED
  BY <1>3, <1>4, <1>5, <1>6, <1>7, <1>8, <1>9
  DEF IInv, TypeOK, Profinet!IInv, Fatigue!IInv, Dem!IInv

(* Whatever the file and the environment say, the program stays within the *)
(* invariant: the layers of the configuration (config_loader.cpp), one     *)
(* chain of receives and its order (tcp_server.cpp), a curve without gaps  *)
(* (crack_propagation.cpp), particles that the crack holds                 *)
(* (dem_simulation.cpp) and a parser in step with the sensor               *)
(* (profinet_parser.cpp, simulator/main.cpp).                              *)
THEOREM Invariance == Spec => []IInv
<1>1. Init => IInv
  BY InitIInv
<1>2. IInv /\ [Next]_vars => IInv'
  BY NextIInv
<1> QED BY <1>1, <1>2, PTL DEF Spec

(* Every value that the configuration and the parts hold has its type.     *)
THEOREM TypeCorrect == Spec => []TypeOK
<1>1. IInv => TypeOK
  BY DEF IInv
<1> QED BY <1>1, Invariance, PTL

(* A published value comes from the environment if it is set there, from   *)
(* the file if load_from_file reached it, and is the default otherwise.    *)
THEOREM LayersHold == Spec => []Layered
<1>1. IInv => Layered
  BY LayerInvImplies DEF IInv, TypeOK
<1> QED BY <1>1, Invariance, PTL

(* UdpServer acknowledges each datagram to its sender, once and in order,  *)
(* though one buffer and one endpoint serve all (tcp_server.cpp l.93-142). *)
THEOREM AnswersReturn == Spec => []AnswersGoBack
<1>1. IInv => AnswersGoBack
  BY DEF IInv, AnswersGoBack, Profinet!IInv
<1> QED BY <1>1, Invariance, PTL

(* predict() stores the last point not after 720 hours as the forecast,    *)
(* for every horizon, crack and number of time steps; only the horizon 0   *)
(* ends the process (crack_propagation.cpp l.207-216).                     *)
THEOREM ForecastHolds == Spec => []ForecastAt720
<1>1. IInv => ForecastAt720
  BY DEF IInv, ForecastAt720, Fatigue!IInv
<1> QED BY <1>1, Invariance, PTL

(* apply_boundary_conditions leaves no free particle outside of the        *)
(* largest extent of the crack and no boundary particle off its point      *)
(* (dem_simulation.cpp l.241-259), for every crack, contact, number of     *)
(* particles and number of steps.                                          *)
THEOREM CrackHolds == Spec => []HeldByCrack
<1>1. IInv => HeldByCrack
  BY DEF IInv, HeldByCrack, Dem!IInv
<1> QED BY <1>1, Invariance, PTL

(* For a sensor that keeps to the frame's layout, a payload cut off        *)
(* anywhere is thrown away, or has lost only its JSON text; no result      *)
(* holds the byte that payload[offset++] may read behind the payload       *)
(* (profinet_parser.cpp l.122).                                            *)
THEOREM NothingPartial == Spec => []NoPartialMeasurement
<1>1. IInv => NoPartialMeasurement
  BY DEF IInv, PayloadIInv
<1> QED BY <1>1, Invariance, PTL

=============================================================================
