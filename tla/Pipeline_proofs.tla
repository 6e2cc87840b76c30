--------------------------- MODULE Pipeline_proofs ---------------------------
(***************************************************************************)
(* Proofs about Pipeline, for any frames with any number of cracks, any    *)
(* modules that throw and any that are not wired.                          *)
(***************************************************************************)
EXTENDS Pipeline, SequenceTheorems, FiniteSetTheorems, TLAPS

-----------------------------------------------------------------------------
(* The plan of the pipeline *)

\* The messages of a queue, and what they are made of
LEMMA CarriedFacts ==
    ASSUME NEW q \in Queue, NEW x \in Carried(q)
    PROVE  /\ x[1] \in Frame
           /\ q # "vibration_q" => x[1] \in LaserFrame
           /\ q = "vibration_q" => x[1] \in VibrationFrame
           /\ q \notin {"prediction_q", "dem_q"} => x = <<x[1]>> /\ Len(x) = 1
           /\ q \in {"prediction_q", "dem_q"} =>
                x = <<x[1], x[2]>> /\ Len(x) = 2 /\ x[2] \in 1..Cracks[x[1]]
<1>1. CASE q = "vibration_q"
  BY <1>1 DEF Carried, Frame
<1>2. CASE q \in {"prediction_q", "dem_q"}
  <2>1. PICK f \in LaserFrame : \E k \in 1..Cracks[f] : x = <<f, k>>
    BY <1>2 DEF Carried
  <2>2. PICK k \in 1..Cracks[f] : x = <<f, k>>
    BY <2>1
  <2> QED BY <1>2, <2>2 DEF Frame
<1>3. CASE q \notin {"vibration_q", "prediction_q", "dem_q"}
  BY <1>3 DEF Carried, Frame
<1> QED BY <1>1, <1>2, <1>3

LEMMA CarriedIntro ==
    ASSUME NEW f \in LaserFrame
    PROVE  /\ \A q \in Queue \ {"vibration_q", "prediction_q", "dem_q"} : <<f>> \in Carried(q)
           /\ \A q \in {"prediction_q", "dem_q"} : \A k \in 1..Cracks[f] : <<f, k>> \in Carried(q)
<1>1. \A q \in Queue \ {"vibration_q", "prediction_q", "dem_q"} : <<f>> \in Carried(q)
  BY DEF Carried
<1>2. ASSUME NEW q \in {"prediction_q", "dem_q"}, NEW k \in 1..Cracks[f]
      PROVE  <<f, k>> \in Carried(q)
  <2>1. Carried(q) = UNION {{<<g, j>> : j \in 1..Cracks[g]} : g \in LaserFrame}
    BY DEF Carried
  <2> QED BY <2>1
<1> QED BY <1>1, <1>2

LEMMA InputFacts ==
    /\ \A m \in Stage : Input[m] \in Queue \ {"vibration_q", "prediction_q", "dem_q", "laser_q_alert"}
    /\ \A m, n \in Stage : Input[m] = Input[n] => m = n
  BY DEF Stage, Input, Queue

LEMMA AlertInputFacts ==
    /\ Len(AlertInput) = 4
    /\ \A i \in 1..4 : /\ AlertInput[i] \in {"laser_q_alert", "vibration_q", "prediction_q", "dem_q"}
                       /\ AlertInput[i] \in Queue
                       /\ Beyond(AlertInput[i]) = {}
  BY DEF AlertInput, Queue, Beyond

\* Beyond is an order.
LEMMA BeyondFacts ==
    ASSUME NEW q \in Queue
    PROVE  /\ Beyond(q) \subseteq Queue \ {q, "laser_in", "vibration_q"}
           /\ \A p \in Beyond(q) : Beyond(p) \subseteq Beyond(q)
  BY DEF Beyond, Queue

\* What a module pushes: messages about the frame it was given, in their order,
\* into queues that nobody else pushes to.
Pushes(m) ==
    CASE m = "LaserFanOut" -> {"laser_q_alert", "laser_q_router"}
      [] m = "CrackRouter" -> {"crack_in"}
      [] m = "CrackFanOut" -> {"crack_q_fatigue", "crack_q_dem"}
      [] m = "FatiguePredictor" -> {"prediction_q"}
      [] m = "DemSimulator" -> {"dem_q"}

LEMMA PushesFacts ==
    ASSUME NEW m \in Stage, NEW q \in Pushes(m)
    PROVE  /\ q \in Queue /\ q \in Beyond(Input[m])
           /\ \A p \in Queue : q \in Beyond(p) => p = Input[m] \/ Input[m] \in Beyond(p)
           /\ \A n \in Stage : q \in Pushes(n) => n = m
           /\ \A p \in Pushes(m) : q \notin Beyond(p)
  BY DEF Pushes, Stage, Queue, Beyond, Input

LEMMA OutputFacts ==
    ASSUME NEW m \in Stage, NEW x \in Carried(Input[m])
    PROVE  /\ Len(Outputs(m, x)) \in Nat
           /\ \A k \in 1..Len(Outputs(m, x)) : LET out == Outputs(m, x)[k] IN
                /\ out = <<out[1], out[2]>>
                /\ out[1] \in Pushes(m)
                /\ out[2] \in Carried(out[1])
                /\ out[2][1] = x[1]
           /\ \A k, l \in 1..Len(Outputs(m, x)) :
                k < l /\ Outputs(m, x)[k][1] = Outputs(m, x)[l][1] =>
                    \A s : Precedes(s, Outputs(m, x)[k][2], Outputs(m, x)[l][2])
<1> DEFINE f == x[1]
<1>0. x = <<f>> /\ f \in LaserFrame
  BY CarriedFacts, InputFacts
<1> HIDE DEF f
<1>1. ASSUME NEW p, NEW q, Outputs(m, x) = FanOut(p, q, x), p # q,
             p \in Pushes(m), q \in Pushes(m), x \in Carried(p), x \in Carried(q)
      PROVE  /\ Len(Outputs(m, x)) \in Nat
             /\ \A k \in 1..Len(Outputs(m, x)) : LET out == Outputs(m, x)[k] IN
                  /\ out = <<out[1], out[2]>>
                  /\ out[1] \in Pushes(m)
                  /\ out[2] \in Carried(out[1])
                  /\ out[2][1] = x[1]
             /\ \A k, l \in 1..Len(Outputs(m, x)) :
                  k < l => Outputs(m, x)[k][1] # Outputs(m, x)[l][1]
  BY <1>1 DEF FanOut
<1>2. ASSUME NEW q \in {"prediction_q", "dem_q"}, q \in Pushes(m), Cracks[f] \in Nat,
             Outputs(m, x) = [k \in 1..Cracks[f] |-> <<q, <<f, k>>>>]
      PROVE  /\ Len(Outputs(m, x)) \in Nat
             /\ \A k \in 1..Len(Outputs(m, x)) : LET out == Outputs(m, x)[k] IN
                  /\ out = <<out[1], out[2]>>
                  /\ out[1] \in Pushes(m)
                  /\ out[2] \in Carried(out[1])
                  /\ out[2][1] = x[1]
             /\ \A k, l \in 1..Len(Outputs(m, x)) : k < l =>
                  \A s : Precedes(s, Outputs(m, x)[k][2], Outputs(m, x)[l][2])
  <2>1. Len(Outputs(m, x)) = Cracks[f]
    BY <1>2
  <2>2. \A k \in 1..Cracks[f] : Outputs(m, x)[k] = <<q, <<f, k>>>>
    BY <1>2
  <2>3. \A k \in 1..Cracks[f] : <<f, k>> \in Carried(q)
    BY <1>0, CarriedIntro
  <2>4. \A k, l \in 1..Cracks[f] : k < l => \A s : Precedes(s, <<f, k>>, <<f, l>>)
    BY DEF Precedes
  <2> QED BY <1>0, <1>2, <2>1, <2>2, <2>3, <2>4
<1>3. CASE m = "LaserFanOut"
  <2>1. Outputs(m, x) = FanOut("laser_q_alert", "laser_q_router", x)
    BY <1>3 DEF Outputs
  <2>2. x \in Carried("laser_q_alert") /\ x \in Carried("laser_q_router")
    BY <1>0, CarriedIntro DEF Queue
  <2>3. "laser_q_alert" \in Pushes(m) /\ "laser_q_router" \in Pushes(m)
    BY <1>3 DEF Pushes
  <2> QED BY <1>1, <2>1, <2>2, <2>3
<1>4. CASE m = "CrackRouter"
  <2>1. Outputs(m, x) = CrackRouter(x)
    BY <1>4 DEF Outputs
  <2>2. x \in Carried("crack_in") /\ "crack_in" \in Pushes(m)
    BY <1>0, <1>4, CarriedIntro DEF Queue, Pushes
  <2>3. Outputs(m, x) = <<>> \/ Outputs(m, x) = <<<<"crack_in", x>>>>
    BY <2>1 DEF CrackRouter
  <2> QED BY <2>2, <2>3
<1>5. CASE m = "CrackFanOut"
  <2>1. Outputs(m, x) = FanOut("crack_q_fatigue", "crack_q_dem", x)
    BY <1>5 DEF Outputs
  <2>2. x \in Carried("crack_q_fatigue") /\ x \in Carried("crack_q_dem")
    BY <1>0, CarriedIntro DEF Queue
  <2>3. "crack_q_fatigue" \in Pushes(m) /\ "crack_q_dem" \in Pushes(m)
    BY <1>5 DEF Pushes
  <2> QED BY <1>1, <2>1, <2>2, <2>3
<1>6. Cracks[f] \in Nat /\ x[1] = f
  BY <1>0, CracksAssumption
<1>7. CASE m = "FatiguePredictor"
  <2>1. Outputs(m, x) = [k \in 1..Cracks[f] |-> <<"prediction_q", <<f, k>>>>]
    BY <1>6, <1>7 DEF Outputs, FatiguePredictor
  <2>2. "prediction_q" \in Pushes(m)
    BY <1>7 DEF Pushes
  <2> QED BY <1>2, <1>6, <2>1, <2>2
<1>8. CASE m = "DemSimulator"
  <2>1. Outputs(m, x) = [k \in 1..Cracks[f] |-> <<"dem_q", <<f, k>>>>]
    BY <1>6, <1>8 DEF Outputs, DemSimulator
  <2>2. "dem_q" \in Pushes(m)
    BY <1>8 DEF Pushes
  <2> QED BY <1>2, <1>6, <2>1, <2>2
<1> QED BY <1>3, <1>4, <1>5, <1>7, <1>8 DEF Stage

-----------------------------------------------------------------------------
(* Types *)

HandledOutput == {o \in Output : \E i \in 1..Len(AlertInput) : o[1] = AlertInput[i]}
HandMessage == {NoMessage} \union UNION {Carried(q) : q \in Queue}

LEMMA OutputIntro ==
    /\ \A q \in Queue : \A x \in Carried(q) : <<q, x>> \in Output
    /\ \A o \in Output : o = <<o[1], o[2]>> /\ o[1] \in Queue /\ o[2] \in Carried(o[1])
  BY DEF Output

LEMMA TypeInit == Init => TypeOK
<1> SUFFICES ASSUME Init PROVE TypeOK
  OBVIOUS
<1>1. DOMAIN queue = Queue /\ \A q \in Queue : queue[q] \in Seq(Carried(q))
  BY EmptySeq DEF Init
<1>2. hand \in [Module -> HandMessage]
  BY DEF Init, HandMessage
<1>3. /\ running \in [Module -> BOOLEAN]
      /\ pc \in [Module -> {"off", "poll", "process", "blocked", "exited"}]
      /\ emitted \in [Module -> Nat]
      /\ \A m \in Module : pc[m] # "process"
  BY DEF Init
<1>4. accepted \in Seq(Frame) /\ handled \in Seq(HandledOutput)
  BY EmptySeq DEF Init
<1>5. trying \in 1..Len(AlertInput) /\ stopping \in 1..Len(StopOrder)
  BY DEF Init, AlertInput, StopOrder
<1>6. abandoned = {} /\ mpc = "init" /\ crashed = FALSE
  BY DEF Init
<1> QED BY <1>1, <1>2, <1>3, <1>4, <1>5, <1>6 DEF TypeOK, HandMessage, HandledOutput

\* A queue gets a message.
LEMMA PushTyped ==
    ASSUME DOMAIN queue = Queue, \A q \in Queue : queue[q] \in Seq(Carried(q)),
           NEW p \in Queue, NEW x \in Carried(p),
           queue' = [queue EXCEPT ![p] = Append(@, x)]
    PROVE  /\ DOMAIN queue' = Queue /\ \A q \in Queue : queue'[q] \in Seq(Carried(q))
           /\ \A q \in Queue : q # p => queue'[q] = queue[q]
           /\ queue'[p] = Append(queue[p], x)
<1>1. DOMAIN queue' = Queue
  OBVIOUS
<1>2. \A q \in Queue : q # p => queue'[q] = queue[q]
  OBVIOUS
<1>3. queue'[p] = Append(queue[p], x)
  OBVIOUS
<1>4. queue'[p] \in Seq(Carried(p))
  BY <1>3, AppendProperties
<1> QED BY <1>1, <1>2, <1>3, <1>4

\* A message is taken from a queue.
LEMMA TakeTyped ==
    ASSUME DOMAIN queue = Queue, \A q \in Queue : queue[q] \in Seq(Carried(q)),
           NEW p \in Queue, queue[p] # <<>>,
           queue' = [queue EXCEPT ![p] = Tail(@)]
    PROVE  /\ DOMAIN queue' = Queue /\ \A q \in Queue : queue'[q] \in Seq(Carried(q))
           /\ \A q \in Queue : q # p => queue'[q] = queue[q]
           /\ queue'[p] = Tail(queue[p])
           /\ Head(queue[p]) \in Carried(p)
           /\ Head(queue[p]) = queue[p][1]
           /\ Len(queue[p]) \in Nat \ {0} /\ Len(queue'[p]) = Len(queue[p]) - 1
           /\ \A i \in 1..Len(queue'[p]) : queue'[p][i] = queue[p][i + 1]
<1>1. DOMAIN queue' = Queue
  OBVIOUS
<1>2. \A q \in Queue : q # p => queue'[q] = queue[q]
  OBVIOUS
<1>3. queue'[p] = Tail(queue[p])
  OBVIOUS
<1>4. queue[p] \in Seq(Carried(p))
  OBVIOUS
<1>5. /\ Head(queue[p]) \in Carried(p) /\ Tail(queue[p]) \in Seq(Carried(p))
      /\ Head(queue[p]) = queue[p][1]
      /\ Len(queue[p]) \in Nat \ {0} /\ Len(Tail(queue[p])) = Len(queue[p]) - 1
      /\ \A i \in 1..Len(Tail(queue[p])) : Tail(queue[p])[i] = queue[p][i + 1]
  BY <1>4, HeadTailProperties, EmptySeq, LenProperties
<1> QED BY <1>1, <1>2, <1>3, <1>5

\* What is pushed has the type of its queue.
LEMMA UnpushedFacts ==
    ASSUME TypeOK, NEW m \in Stage, pc[m] = "process"
    PROVE  /\ hand[m] \in Carried(Input[m]) /\ emitted[m] \in Nat
           /\ Len(Outputs(m, hand[m])) \in Nat
           /\ \A k \in (emitted[m] + 1)..Len(Outputs(m, hand[m])) :
                /\ k \in 1..Len(Outputs(m, hand[m]))
                /\ Outputs(m, hand[m])[k] \in Output
<1>1. hand[m] \in Carried(Input[m]) /\ emitted[m] \in Nat
  BY DEF TypeOK, Module
<1>2. Len(Outputs(m, hand[m])) \in Nat
  BY <1>1, OutputFacts
<1>3. ASSUME NEW k \in (emitted[m] + 1)..Len(Outputs(m, hand[m]))
      PROVE  k \in 1..Len(Outputs(m, hand[m])) /\ Outputs(m, hand[m])[k] \in Output
  <2>1. k \in 1..Len(Outputs(m, hand[m]))
    BY <1>1, <1>2, <1>3
  <2> DEFINE out == Outputs(m, hand[m])[k]
  <2>2. out = <<out[1], out[2]>> /\ out[1] \in Pushes(m) /\ out[2] \in Carried(out[1])
    BY <1>1, <2>1, OutputFacts
  <2>3. out[1] \in Queue
    BY <2>2, PushesFacts
  <2> HIDE DEF out
  <2>4. out \in Output
    BY <2>2, <2>3, OutputIntro
  <2> QED BY <2>1, <2>4 DEF out
<1> QED BY <1>1, <1>2, <1>3

LEMMA TypeStage ==
    ASSUME TypeOK, NEW m \in Stage, StageStep(m) PROVE TypeOK'
<1> USE DEF TypeOK
<1>0. m \in Module /\ m # "AlertWs"
  BY DEF Module, Stage
<1>1. CASE Pop(m)
  <2>1. /\ hand' = [hand EXCEPT ![m] = Head(queue[Input[m]])]
        /\ queue' = [queue EXCEPT ![Input[m]] = Tail(@)] /\ queue[Input[m]] # <<>>
        /\ emitted' = [emitted EXCEPT ![m] = 0]
        /\ pc' = [pc EXCEPT ![m] = "process"]
        /\ UNCHANGED <<running, trying, accepted, handled, abandoned, mpc, stopping, crashed>>
    BY <1>1 DEF Pop
  <2>2. Input[m] \in Queue
    BY InputFacts
  <2>3. /\ DOMAIN queue' = Queue /\ \A q \in Queue : queue'[q] \in Seq(Carried(q))
        /\ Head(queue[Input[m]]) \in Carried(Input[m])
    BY <2>1, <2>2, TakeTyped
  <2>4. hand' \in [Module -> HandMessage]
    BY <2>1, <2>2, <2>3 DEF HandMessage
  <2>5. pc' \in [Module -> {"off", "poll", "process", "blocked", "exited"}] /\ emitted' \in [Module -> Nat]
    BY <2>1
  <2>6. \A n \in Module : pc'[n] = "process" => n \in Stage /\ hand'[n] \in Carried(Input[n])
    BY <1>0, <2>1, <2>3
  <2> QED BY <2>1, <2>3, <2>4, <2>5, <2>6 DEF HandMessage
<1>2. CASE Emit(m)
  <2> DEFINE out == Outputs(m, hand[m])[emitted[m] + 1]
  <2>1. /\ queue' = [queue EXCEPT ![out[1]] = Append(@, out[2])]
        /\ emitted' = [emitted EXCEPT ![m] = @ + 1]
        /\ pc[m] = "process" /\ emitted[m] < Len(Outputs(m, hand[m]))
        /\ UNCHANGED <<running, pc, hand, trying, accepted, handled, abandoned, mpc, stopping, crashed>>
    BY <1>2 DEF Emit
  <2>2. emitted[m] + 1 \in (emitted[m] + 1)..Len(Outputs(m, hand[m]))
    BY <2>1, UnpushedFacts
  <2>3. out \in Output
    BY <2>1, <2>2, UnpushedFacts
  <2> HIDE DEF out
  <2>4. out[1] \in Queue /\ out[2] \in Carried(out[1])
    BY <2>3, OutputIntro
  <2>5. DOMAIN queue' = Queue /\ \A q \in Queue : queue'[q] \in Seq(Carried(q))
    BY <2>1, <2>4, PushTyped
  <2>6. emitted' \in [Module -> Nat]
    BY <1>0, <2>1
  <2> QED BY <2>1, <2>5, <2>6
<1>3. ASSUME Loop(m), hand' = [hand EXCEPT ![m] = NoMessage]
      PROVE  /\ hand' \in [Module -> HandMessage]
             /\ pc' \in [Module -> {"off", "poll", "process", "blocked", "exited"}]
             /\ \A n \in Module : pc'[n] = "process" => n \in Stage /\ hand'[n] \in Carried(Input[n])
  BY <1>0, <1>3 DEF Loop, HandMessage
<1>4. CASE Processed(m)
  <2>1. Loop(m) /\ hand' = [hand EXCEPT ![m] = NoMessage]
    BY <1>4 DEF Processed
  <2> QED BY <1>3, <1>4, <2>1 DEF Processed, HandMessage
<1>5. CASE Throws(m)
  <2>1. Loop(m) /\ hand' = [hand EXCEPT ![m] = NoMessage] /\ pc[m] = "process"
    BY <1>5 DEF Throws
  <2>2. abandoned' \subseteq Output
    BY <1>5, <2>1, UnpushedFacts DEF Throws
  <2> QED BY <1>3, <1>5, <2>1, <2>2 DEF Throws, HandMessage
<1> QED BY <1>1, <1>2, <1>4, <1>5 DEF StageStep

\* After a message AlertWsModule is somewhere, but not at work.
LEMMA AfterHandlerFacts ==
    ASSUME NEW q, AfterHandler(q)
    PROVE  \E v \in {"poll", "blocked", "exited"} : pc' = [pc EXCEPT !["AlertWs"] = v]
  BY DEF AfterHandler, Loop

LEMMA TypeAlertWs ==
    ASSUME TypeOK, TryNext \/ HandleMessage PROVE TypeOK'
<1> USE DEF TypeOK
<1>0. "AlertWs" \in Module /\ "AlertWs" \notin Stage
  BY DEF Module, Stage
<1>1. ASSUME \E v \in {"poll", "blocked", "exited"} : pc' = [pc EXCEPT !["AlertWs"] = v]
      PROVE  /\ pc' \in [Module -> {"off", "poll", "process", "blocked", "exited"}]
             /\ \A n \in Module : pc'[n] = "process" => pc[n] = "process"
  BY <1>0, <1>1
<1>2. CASE TryNext
  <2>1. trying' \in 1..Len(AlertInput)
    BY <1>2, AlertInputFacts DEF TryNext
  <2>2. /\ pc' \in [Module -> {"off", "poll", "process", "blocked", "exited"}]
        /\ \A n \in Module : pc'[n] = "process" => pc[n] = "process"
    <3>1. CASE pc' = pc
      BY <3>1
    <3>2. CASE Loop("AlertWs")
      BY <1>1, <3>2 DEF Loop
    <3> QED BY <1>2, <3>1, <3>2 DEF TryNext
  <2> QED BY <1>2, <2>1, <2>2 DEF TryNext
<1>3. CASE HandleMessage
  <2> DEFINE q == AlertInput[trying]
  <2>1. /\ queue[q] # <<>>
        /\ handled' = Append(handled, <<q, Head(queue[q])>>)
        /\ queue' = [queue EXCEPT ![q] = Tail(@)]
        /\ trying' = 1
        /\ \E v \in {"poll", "blocked", "exited"} : pc' = [pc EXCEPT !["AlertWs"] = v]
        /\ UNCHANGED <<running, hand, emitted, accepted, abandoned, mpc, stopping, crashed>>
    BY <1>3, AfterHandlerFacts DEF HandleMessage
  <2>2. q \in Queue /\ \E i \in 1..Len(AlertInput) : q = AlertInput[i]
    BY AlertInputFacts
  <2> HIDE DEF q
  <2>3. /\ DOMAIN queue' = Queue /\ \A p \in Queue : queue'[p] \in Seq(Carried(p))
        /\ Head(queue[q]) \in Carried(q)
    BY <2>1, <2>2, TakeTyped
  <2>4. <<q, Head(queue[q])>> \in HandledOutput
    BY <2>2, <2>3, OutputIntro DEF HandledOutput
  <2>5. handled' \in Seq(HandledOutput)
    BY <2>1, <2>4, AppendProperties DEF HandledOutput
  <2>6. trying' \in 1..Len(AlertInput)
    BY <2>1, AlertInputFacts
  <2> QED BY <1>1, <2>1, <2>3, <2>5, <2>6 DEF HandledOutput
<1> QED BY <1>2, <1>3

LEMMA TypeCallback ==
    ASSUME TypeOK, (\E f \in LaserFrame : LaserCallback(f)) \/ \E f \in VibrationFrame : VibrationCallback(f)
    PROVE  TypeOK'
<1> USE DEF TypeOK
<1>1. ASSUME NEW f \in Frame, Accept(f) PROVE accepted' \in Seq(Frame)
  BY <1>1, AppendProperties DEF Accept
<1>2. ASSUME NEW f \in LaserFrame, LaserCallback(f) PROVE TypeOK'
  <2>1. accepted' \in Seq(Frame)
    BY <1>1, <1>2 DEF LaserCallback, Frame
  <2>2. "laser_in" \in Queue /\ <<f>> \in Carried("laser_in")
    BY CarriedIntro DEF Queue
  <2>3. DOMAIN queue' = Queue /\ \A p \in Queue : queue'[p] \in Seq(Carried(p))
    <3>1. CASE queue' = queue
      BY <3>1
    <3>2. CASE queue' = [queue EXCEPT !["laser_in"] = Append(@, <<f>>)]
      BY <2>2, <3>2, PushTyped
    <3> QED BY <1>2, <3>1, <3>2 DEF LaserCallback
  <2>4. crashed' \in BOOLEAN
    BY <1>2 DEF LaserCallback
  <2> QED BY <1>2, <2>1, <2>3, <2>4 DEF LaserCallback, Accept, threadVars
<1>3. ASSUME NEW f \in VibrationFrame, VibrationCallback(f) PROVE TypeOK'
  <2>1. accepted' \in Seq(Frame)
    BY <1>1, <1>3 DEF VibrationCallback, Frame
  <2>2. "vibration_q" \in Queue /\ <<f>> \in Carried("vibration_q")
    BY DEF Queue, Carried
  <2>3. DOMAIN queue' = Queue /\ \A p \in Queue : queue'[p] \in Seq(Carried(p))
    <3>1. queue' = [queue EXCEPT !["vibration_q"] = Append(@, <<f>>)]
      BY <1>3 DEF VibrationCallback
    <3> QED BY <2>2, <3>1, PushTyped
  <2>4. crashed' \in BOOLEAN
    BY <1>3 DEF VibrationCallback
  <2> QED BY <1>3, <2>1, <2>3, <2>4 DEF VibrationCallback, Accept, threadVars
<1> QED BY <1>2, <1>3

LEMMA StopOrderFacts ==
    /\ Len(StopOrder) = 6
    /\ \A i \in 1..6 : StopOrder[i] \in Module
    /\ \A m \in Module : \E i \in 1..6 : StopOrder[i] = m
    /\ \A i, j \in 1..6 : StopOrder[i] = StopOrder[j] => i = j
  BY DEF StopOrder, Module, Stage

\* What the main thread does once the modules are gone
FinishStop == StopAlerts \/ MissNotify \/ JoinThreads

LEMMA TypeMain ==
    ASSUME TypeOK,
           StartAll \/ StopModule \/ JoinModule \/ FinishStop \/ \E m \in Module : Exit(m)
    PROVE  TypeOK'
<1> USE DEF TypeOK
<1>1. CASE StartAll
  BY <1>1 DEF StartAll
<1>2. CASE StopModule
  <2>1. running' \in [Module -> BOOLEAN]
    BY <1>2 DEF StopModule
  <2> QED BY <1>2, <2>1 DEF StopModule
<1>3. CASE JoinModule
  <2>1. stopping' \in 1..Len(StopOrder) /\ mpc' \in {"stop", "alerts"}
    BY <1>3, StopOrderFacts DEF JoinModule
  <2> QED BY <1>3, <2>1 DEF JoinModule, threadVars
<1>4. ASSUME NEW m \in Module, Exit(m) PROVE TypeOK'
  <2>1. /\ pc' \in [Module -> {"off", "poll", "process", "blocked", "exited"}]
        /\ \A n \in Module : pc'[n] = "process" => pc[n] = "process"
    BY <1>4 DEF Exit
  <2> QED BY <1>4, <2>1 DEF Exit
<1>5. CASE FinishStop
  BY <1>5 DEF FinishStop, StopAlerts, MissNotify, JoinThreads, threadVars
<1> QED BY <1>1, <1>2, <1>3, <1>4, <1>5

\* The steps, as the proofs go through them
LEMMA NextCases ==
    ASSUME [Next]_vars
    PROVE  \/ \E m \in Stage : StageStep(m)
           \/ TryNext \/ HandleMessage
           \/ (\E f \in LaserFrame : LaserCallback(f)) \/ \E f \in VibrationFrame : VibrationCallback(f)
           \/ StartAll \/ StopModule \/ JoinModule \/ FinishStop \/ \E m \in Module : Exit(m)
           \/ UNCHANGED vars
  BY DEF Next, ModuleStep, Module, FinishStop

LEMMA TypeNext ==
    ASSUME TypeOK, [Next]_vars PROVE TypeOK'
<1>1. CASE UNCHANGED vars
  BY <1>1 DEF vars, threadVars, TypeOK
<1> QED BY <1>1, NextCases, TypeStage, TypeAlertWs, TypeCallback, TypeMain

-----------------------------------------------------------------------------
(* Stopping *)

\* A thread that has left its loop does not come back, and the modules do not
\* touch what stop() goes by.
LEMMA ThreadsLeave ==
    ASSUME TypeOK,
           \/ \E m \in Stage : StageStep(m)
           \/ TryNext \/ HandleMessage
           \/ \E m \in Module : Exit(m)
    PROVE  /\ \A m \in Module : pc[m] = "exited" => pc'[m] = "exited"
           /\ UNCHANGED <<running, mpc, stopping>>
<1>0. pc \in [Module -> {"off", "poll", "process", "blocked", "exited"}] /\ "AlertWs" \in Module
  BY DEF TypeOK, Module
<1>1. ASSUME NEW m \in Stage, StageStep(m)
      PROVE  (\A n \in Module : pc[n] = "exited" => pc'[n] = "exited") /\ UNCHANGED <<running, mpc, stopping>>
  BY <1>0, <1>1 DEF StageStep, Pop, Emit, Processed, Throws, Loop
<1>2. ASSUME TryNext \/ HandleMessage
      PROVE  (\A n \in Module : pc[n] = "exited" => pc'[n] = "exited") /\ UNCHANGED <<running, mpc, stopping>>
  <2>1. pc["AlertWs"] = "poll" /\ UNCHANGED <<running, mpc, stopping>>
    BY <1>2 DEF TryNext, HandleMessage
  <2>2. pc' = pc \/ \E v \in {"poll", "blocked", "exited"} : pc' = [pc EXCEPT !["AlertWs"] = v]
    BY <1>2, AfterHandlerFacts DEF TryNext, HandleMessage, Loop
  <2> QED BY <1>0, <2>1, <2>2
<1>3. ASSUME NEW m \in Module, Exit(m)
      PROVE  (\A n \in Module : pc[n] = "exited" => pc'[n] = "exited") /\ UNCHANGED <<running, mpc, stopping>>
  BY <1>0, <1>3 DEF Exit
<1> QED BY <1>1, <1>2, <1>3

LEMMA StopInit == Init => StopInv /\ StoppedInOrder
  BY DEF Init, StopInv, StoppedInOrder

LEMMA StopNext ==
    ASSUME TypeOK, StopInv, StoppedInOrder, [Next]_vars PROVE StopInv' /\ StoppedInOrder'
<1> USE StopOrderFacts DEF StopInv, StoppedInOrder
<1>0. stopping \in 1..6 /\ running \in [Module -> BOOLEAN]
  BY DEF TypeOK
<1>1. ASSUME \A m \in Module : pc[m] = "exited" => pc'[m] = "exited", mpc # "init",
             UNCHANGED <<running, mpc, stopping>>
      PROVE  StopInv' /\ StoppedInOrder'
  BY <1>0, <1>1
<1>2. CASE \/ \E m \in Stage : StageStep(m)
           \/ TryNext \/ HandleMessage
           \/ \E m \in Module : Exit(m)
  <2>1. (\A m \in Module : pc[m] = "exited" => pc'[m] = "exited") /\ UNCHANGED <<running, mpc, stopping>>
    BY <1>2, ThreadsLeave
  <2>2. \E m \in Module : pc[m] # "off"
    BY <1>2 DEF StageStep, Pop, Emit, Processed, Throws, TryNext, HandleMessage, Exit, Module
  <2>3. mpc # "init"
    BY <2>2
  <2> QED BY <1>1, <2>1, <2>3
<1>3. CASE (\E f \in LaserFrame : LaserCallback(f)) \/ \E f \in VibrationFrame : VibrationCallback(f)
  <2>1. UNCHANGED <<threadVars, mpc, stopping>>
    BY <1>3 DEF LaserCallback, VibrationCallback, Accept
  <2> QED BY <1>0, <2>1 DEF threadVars
<1>4. CASE StartAll
  BY <1>0, <1>4 DEF StartAll
<1>5. CASE StopModule
  <2>1. /\ running' = [running EXCEPT ![StopOrder[stopping]] = FALSE] /\ mpc' = "join"
        /\ pc' = pc /\ stopping' = stopping /\ mpc \in {"up", "stop"}
    BY <1>5 DEF StopModule
  <2>0. pc = pc' /\ stopping' = stopping /\ mpc' = "join"
    BY <2>1
  <2>2. \A i \in 1..6 : i > stopping => running'[StopOrder[i]]
    <3>1. ASSUME NEW i \in 1..6, i > stopping PROVE running'[StopOrder[i]]
      <4>1. StopOrder[i] # StopOrder[stopping]
        BY <1>0, <3>1
      <4>2. running[StopOrder[i]]
        BY <2>1, <3>1
      <4>3. StopOrder[i] \in Module
        OBVIOUS
      <4>4. running'[StopOrder[i]] = running[StopOrder[i]]
        BY <1>0, <2>1, <4>1, <4>3
      <4> QED BY <4>2, <4>4
    <3> QED BY <3>1
  <2>3. \A i \in 1..6 : i < stopping => pc'[StopOrder[i]] = "exited"
    BY <2>1
  <2> QED BY <2>1, <2>2, <2>3
<1>6. CASE JoinModule
  <2>1. /\ mpc = "join" /\ pc[StopOrder[stopping]] = "exited" /\ pc' = pc /\ running' = running
        /\ mpc' = (IF stopping = 6 THEN "alerts" ELSE "stop")
        /\ stopping' = (IF stopping = 6 THEN stopping ELSE stopping + 1)
    BY <1>6 DEF JoinModule, threadVars
  <2>2. \A i \in 1..6 : (i < stopping => pc[StopOrder[i]] = "exited") /\ (i > stopping => running[StopOrder[i]])
    BY <2>1
  <2>3. CASE stopping = 6
    BY <1>0, <2>1, <2>2, <2>3
  <2>4. CASE stopping # 6
    BY <1>0, <2>1, <2>2, <2>4
  <2> QED BY <2>3, <2>4
<1>8. CASE FinishStop
  <2>1. /\ mpc \in {"alerts", "threads"} /\ mpc' \in {"missed", "threads", "stopped"}
        /\ pc' = pc /\ running' = running /\ stopping' = stopping
    BY <1>8 DEF FinishStop, StopAlerts, MissNotify, JoinThreads, threadVars
  <2> QED BY <1>0, <2>1
<1>7. CASE UNCHANGED vars
  BY <1>0, <1>7 DEF vars, threadVars
<1> QED BY <1>2, <1>3, <1>4, <1>5, <1>6, <1>7, <1>8, NextCases

-----------------------------------------------------------------------------
(* Sequences, and the order of messages *)

LEMMA ElementsAppend ==
    ASSUME NEW S, NEW s \in Seq(S), NEW x \in S
    PROVE  /\ Elements(Append(s, x)) = Elements(s) \union {x}
           /\ Len(Append(s, x)) = Len(s) + 1 /\ Len(s) \in Nat
           /\ \A i \in 1..Len(s) : Append(s, x)[i] = s[i]
           /\ Append(s, x)[Len(s) + 1] = x
<1>1. /\ Len(Append(s, x)) = Len(s) + 1 /\ Len(s) \in Nat
      /\ \A i \in 1..Len(s) : Append(s, x)[i] = s[i]
      /\ Append(s, x)[Len(s) + 1] = x
  BY AppendProperties, LenProperties
<1>2. ASSUME NEW y PROVE y \in Elements(Append(s, x)) <=> y \in Elements(s) \union {x}
  <2>1. 1..(Len(s) + 1) = 1..Len(s) \union {Len(s) + 1}
    BY <1>1
  <2> QED BY <1>1, <2>1 DEF Elements
<1> QED BY <1>1, <1>2

LEMMA ElementsTail ==
    ASSUME NEW S, NEW s \in Seq(S), s # <<>>
    PROVE  Elements(s) = Elements(Tail(s)) \union {Head(s)}
<1>1. /\ Head(s) = s[1] /\ Len(s) \in Nat \ {0} /\ Len(Tail(s)) = Len(s) - 1
      /\ \A i \in 1..Len(Tail(s)) : Tail(s)[i] = s[i + 1]
  BY HeadTailProperties, EmptySeq, LenProperties
<1>2. ASSUME NEW y PROVE y \in Elements(s) <=> y \in Elements(Tail(s)) \union {Head(s)}
  <2>1. ASSUME y \in Elements(s) PROVE y \in Elements(Tail(s)) \union {Head(s)}
    <3>1. PICK i \in 1..Len(s) : y = s[i]
      BY <2>1 DEF Elements
    <3>2. CASE i = 1
      BY <1>1, <3>1, <3>2
    <3>3. CASE i # 1
      <4>1. i - 1 \in 1..Len(Tail(s)) /\ Tail(s)[i - 1] = s[(i - 1) + 1] /\ (i - 1) + 1 = i
        BY <1>1, <3>3
      <4> QED BY <3>1, <4>1 DEF Elements
    <3> QED BY <3>2, <3>3
  <2>2. ASSUME y \in Elements(Tail(s)) PROVE y \in Elements(s)
    <3>1. PICK i \in 1..Len(Tail(s)) : y = Tail(s)[i]
      BY <2>2 DEF Elements
    <3>2. i + 1 \in 1..Len(s) /\ y = s[i + 1]
      BY <1>1, <3>1
    <3> QED BY <3>2 DEF Elements
  <2>3. Head(s) \in Elements(s)
    BY <1>1 DEF Elements
  <2> QED BY <2>1, <2>2, <2>3
<1> QED BY <1>2

\* Later frames do not change the order of those before them.
LEMMA EarlierGrows ==
    ASSUME NEW S, NEW s \in Seq(S), NEW h \in S
    PROVE  /\ \A f, g : Earlier(s, f, g) => Earlier(Append(s, h), f, g)
           /\ \A x, y : Precedes(s, x, y) => Precedes(Append(s, h), x, y)
           /\ \A f \in Elements(s) : Earlier(Append(s, h), f, h)
<1>1. /\ Len(Append(s, h)) = Len(s) + 1 /\ Len(s) \in Nat
      /\ \A i \in 1..Len(s) : Append(s, h)[i] = s[i]
      /\ Append(s, h)[Len(s) + 1] = h
  BY ElementsAppend
<1>2. ASSUME NEW f, NEW g, Earlier(s, f, g) PROVE Earlier(Append(s, h), f, g)
  <2>1. PICK i, j \in 1..Len(s) : i < j /\ s[i] = f /\ s[j] = g
    BY <1>2 DEF Earlier
  <2>2. i \in 1..Len(Append(s, h)) /\ j \in 1..Len(Append(s, h))
    BY <1>1
  <2> QED BY <1>1, <2>1, <2>2 DEF Earlier
<1>3. \A x, y : Precedes(s, x, y) => Precedes(Append(s, h), x, y)
  BY <1>2 DEF Precedes
<1>4. ASSUME NEW f \in Elements(s) PROVE Earlier(Append(s, h), f, h)
  <2>1. PICK i \in 1..Len(s) : s[i] = f
    BY DEF Elements
  <2>2. i \in 1..Len(Append(s, h)) /\ Len(s) + 1 \in 1..Len(Append(s, h)) /\ i < Len(s) + 1
    BY <1>1
  <2> QED BY <1>1, <2>1, <2>2 DEF Earlier
<1> QED BY <1>2, <1>3, <1>4

LEMMA EarlierStrict ==
    ASSUME TypeOK, AcceptedOnce
    PROVE  /\ \A f : ~Earlier(accepted, f, f)
           /\ \A q \in Queue : \A x \in Carried(q) : ~Precedes(accepted, x, x)
<1>1. Len(accepted) \in Nat
  BY LenProperties DEF TypeOK
<1>2. \A f : ~Earlier(accepted, f, f)
  BY <1>1 DEF Earlier, AcceptedOnce
<1>3. ASSUME NEW q \in Queue, NEW x \in Carried(q) PROVE ~Precedes(accepted, x, x)
  <2>1. CASE q \in {"prediction_q", "dem_q"}
    <3>1. x[2] \in 1..Cracks[x[1]] /\ x[1] \in LaserFrame
      BY <2>1, CarriedFacts
    <3>2. x[2] \in Int
      BY <3>1, CracksAssumption
    <3> QED BY <1>2, <3>2 DEF Precedes
  <2>2. CASE q \notin {"prediction_q", "dem_q"}
    <3>1. Len(x) = 1
      BY <2>2, CarriedFacts
    <3> QED BY <1>2, <3>1 DEF Precedes
  <2> QED BY <2>1, <2>2
<1> QED BY <1>2, <1>3

\* Whatever has got to a queue is a message of its kind.
LEMMA AtTyped ==
    ASSUME TypeOK, NEW q \in Queue
    PROVE  /\ At(q) \subseteq Carried(q) /\ Taken(q) \subseteq Carried(q)
           /\ Elements(queue[q]) \subseteq Carried(q)
           /\ \A i \in 1..Len(queue[q]) : queue[q][i] \in Elements(queue[q])
           /\ Taken(q) \subseteq At(q) /\ Elements(queue[q]) \subseteq At(q) /\ GivenUpAt(q) \subseteq At(q)
<1>1. queue[q] \in Seq(Carried(q))
  BY DEF TypeOK
<1>2. Elements(queue[q]) \subseteq Carried(q)
  BY <1>1, ElementOfSeq DEF Elements
<1>3. \A m \in Stage : pc[m] = "process" /\ Input[m] = q => hand[m] \in Carried(q)
  BY DEF TypeOK, Module
<1>4. ASSUME NEW i \in 1..Len(handled), handled[i][1] = q PROVE handled[i][2] \in Carried(q)
  <2>1. handled[i] \in HandledOutput
    BY ElementOfSeq DEF TypeOK, HandledOutput
  <2>2. handled[i] \in Output
    BY <2>1 DEF HandledOutput
  <2> QED BY <1>4, <2>2, OutputIntro
<1>5. Taken(q) \subseteq Carried(q)
  BY <1>3, <1>4 DEF Taken
<1> QED BY <1>2, <1>5 DEF At, GivenUpAt, Elements

\* A message of one frame comes before another only by its frame.
LEMMA FrameFirst ==
    ASSUME NEW s, NEW x, NEW y, Len(x) = 1, Precedes(s, x, y)
    PROVE  Earlier(s, x[1], y[1])
  BY DEF Precedes

LEMMA InHand ==
    ASSUME TypeOK, NEW m \in Stage, pc[m] = "process"
    PROVE  /\ hand[m] \in Taken(Input[m]) /\ hand[m] \in At(Input[m])
           /\ Input[m] \in Queue /\ Len(hand[m]) = 1 /\ hand[m] = <<hand[m][1]>>
<1>1. hand[m] \in Taken(Input[m]) /\ Input[m] \in Queue
  BY InputFacts DEF Taken
<1>2. hand[m] \in Carried(Input[m])
  BY DEF TypeOK, Module
<1>3. Len(hand[m]) = 1 /\ hand[m] = <<hand[m][1]>>
  BY <1>2, InputFacts, CarriedFacts
<1> QED BY <1>1, <1>3 DEF At

-----------------------------------------------------------------------------
(* The order is kept *)

\* An output that its module has still to push belongs behind everything that
\* has got as far as its queue, and before everything further up.
LEMMA UnpushedPlace ==
    ASSUME TypeOK, OrderInv, NEW m \in Stage, NEW out \in Unpushed(m)
    PROVE  /\ pc[m] = "process" /\ out[1] \in Pushes(m) /\ out[1] \in Queue
           /\ out[2] \in Carried(out[1]) /\ out = <<out[1], out[2]>> /\ out[2][1] = hand[m][1]
           /\ out[2][1] \in Elements(accepted)
           /\ \A q \in Queue : out[1] \in Beyond(q) =>
                /\ \A i \in 1..Len(queue[q]) : Earlier(accepted, out[2][1], queue[q][i][1])
                /\ \A n \in Stage : \A o \in Unpushed(n) :
                     o[1] = q => Earlier(accepted, out[2][1], o[2][1])
                /\ \A x \in GivenUpAt(q) : out[2][1] # x[1]
           /\ \A x \in At(out[1]) : Precedes(accepted, x, out[2]) /\ x # out[2]
           /\ \A p \in Beyond(out[1]) : \A x \in At(p) :
                Earlier(accepted, x[1], out[2][1]) /\ x[1] # out[2][1]
<1> USE DEF OrderInv
<1>1. pc[m] = "process"
  BY DEF Unpushed
<1>2. PICK k \in (emitted[m] + 1)..Len(Outputs(m, hand[m])) : out = Outputs(m, hand[m])[k]
  BY <1>1 DEF Unpushed
<1>3. k \in 1..Len(Outputs(m, hand[m])) /\ hand[m] \in Carried(Input[m])
  BY <1>1, UnpushedFacts
<1>4. /\ out = <<out[1], out[2]>> /\ out[1] \in Pushes(m) /\ out[2] \in Carried(out[1])
      /\ out[2][1] = hand[m][1]
  BY <1>2, <1>3, OutputFacts
<1>5. out[1] \in Queue
  BY <1>4, PushesFacts
<1>6. /\ hand[m] \in Taken(Input[m]) /\ hand[m] \in At(Input[m])
      /\ Input[m] \in Queue /\ Len(hand[m]) = 1 /\ hand[m] = <<hand[m][1]>>
  BY <1>1, InHand
<1>7. out[2][1] \in Elements(accepted)
  BY <1>4, <1>6 DEF AcceptedOnce
<1>8. \A x \in At(out[1]) : Precedes(accepted, x, out[2]) /\ x # out[2]
  BY <1>4, <1>5, EarlierStrict DEF HandOrder
<1>9. \A p \in Beyond(out[1]) : \A x \in At(p) :
        Earlier(accepted, x[1], out[2][1]) /\ x[1] # out[2][1]
  BY EarlierStrict DEF HandOrder
<1>10. ASSUME NEW q \in Queue, out[1] \in Beyond(q)
       PROVE  q = Input[m] \/ Input[m] \in Beyond(q)
  BY <1>4, <1>10, PushesFacts
<1>11. ASSUME NEW q \in Queue, out[1] \in Beyond(q), NEW i \in 1..Len(queue[q])
       PROVE  Earlier(accepted, out[2][1], queue[q][i][1])
  <2>1. CASE q = Input[m]
    <3>1. Precedes(accepted, hand[m], queue[q][i])
      BY <1>6, <2>1 DEF QueueOrder
    <3> QED BY <1>4, <1>6, <3>1, FrameFirst
  <2>2. CASE Input[m] \in Beyond(q)
    BY <1>4, <1>6, <2>2 DEF QueueOrder
  <2> QED BY <1>10, <1>11, <2>1, <2>2
<1>12. ASSUME NEW q \in Queue, out[1] \in Beyond(q), NEW n \in Stage, NEW o \in Unpushed(n), o[1] = q
       PROVE  Earlier(accepted, out[2][1], o[2][1])
  <2>1. CASE q = Input[m]
    <3>1. Precedes(accepted, hand[m], o[2])
      BY <1>6, <1>12, <2>1 DEF HandOrder
    <3> QED BY <1>4, <1>6, <3>1, FrameFirst
  <2>2. CASE Input[m] \in Beyond(q)
    BY <1>4, <1>6, <1>12, <2>2 DEF HandOrder
  <2> QED BY <1>10, <1>12, <2>1, <2>2
<1>13. ASSUME NEW q \in Queue, out[1] \in Beyond(q), NEW x \in GivenUpAt(q)
       PROVE  out[2][1] # x[1]
  <2>1. CASE q = Input[m]
    <3>1. x # hand[m]
      BY <1>6, <2>1 DEF AbandonedApart
    <3>2. x = <<x[1]>>
      BY <2>1, CarriedFacts, InputFacts DEF GivenUpAt
    <3> QED BY <1>4, <1>6, <3>1, <3>2
  <2>2. CASE Input[m] \in Beyond(q)
    BY <1>4, <1>6, <2>2 DEF AbandonedApart
  <2> QED BY <1>10, <1>13, <2>1, <2>2
<1> QED BY <1>1, <1>4, <1>5, <1>7, <1>8, <1>9, <1>11, <1>12, <1>13

\* Steps that take nothing from a queue and push nothing.
LEMMA OrderShrinks ==
    ASSUME TypeOK, OrderInv, queue' = queue, accepted' = accepted, abandoned' = abandoned,
           handled' = handled,
           \A q \in Queue : Taken(q)' \subseteq Taken(q),
           \A m \in Stage : Unpushed(m)' \subseteq Unpushed(m)
    PROVE  OrderInv'
<1> USE DEF OrderInv
<1>1. \A q \in Queue : GivenUpAt(q)' = GivenUpAt(q) /\ At(q)' \subseteq At(q)
  BY DEF GivenUpAt, At
<1>2. AcceptedOnce'
  BY <1>1 DEF AcceptedOnce
<1>3. \A q \in Queue : Beyond(q) \subseteq Queue
  BY BeyondFacts
<1>4. QueueOrder'
  BY <1>1, <1>3 DEF QueueOrder
<1>5. HandOrder'
  <2> SUFFICES ASSUME NEW m \in Stage, NEW out \in Unpushed(m)'
               PROVE  /\ \A x \in At(out[1])' : Precedes(accepted', x, out[2])
                      /\ \A p \in Beyond(out[1]) : \A x \in At(p)' : Earlier(accepted', x[1], out[2][1])
    BY DEF HandOrder
  <2>1. out \in Unpushed(m)
    OBVIOUS
  <2>2. out[1] \in Queue
    BY <2>1, UnpushedPlace
  <2> QED BY <1>1, <1>3, <2>1, <2>2 DEF HandOrder
<1>6. HandledOrder'
  BY DEF HandledOrder
<1>7. AbandonedApart'
  BY <1>1, <1>3 DEF AbandonedApart
<1> QED BY <1>2, <1>4, <1>5, <1>6, <1>7

\* Taking the first message of a queue moves it, but it has got no further.
LEMMA TakeAt ==
    ASSUME TypeOK, NEW q \in Queue, queue[q] # <<>>,
           queue' = [queue EXCEPT ![q] = Tail(@)], abandoned' = abandoned,
           Taken(q)' = Taken(q) \union {Head(queue[q])},
           \A p \in Queue : p # q => Taken(p)' = Taken(p)
    PROVE  \A p \in Queue : At(p)' = At(p) /\ GivenUpAt(p)' = GivenUpAt(p)
<1>1. DOMAIN queue = Queue /\ queue[q] \in Seq(Carried(q)) /\ \A p \in Queue : queue[p] \in Seq(Carried(p))
  BY DEF TypeOK
<1>2. queue'[q] = Tail(queue[q]) /\ \A p \in Queue : p # q => queue'[p] = queue[p]
  BY <1>1, TakeTyped
<1>3. \A p \in Queue : GivenUpAt(p)' = GivenUpAt(p)
  BY DEF GivenUpAt
<1>4. At(q)' = At(q)
  <2>1. Elements(queue[q]) = Elements(queue'[q]) \union {Head(queue[q])}
    BY <1>1, <1>2, ElementsTail
  <2> QED BY <1>3, <2>1 DEF At
<1>5. ASSUME NEW p \in Queue, p # q PROVE At(p)' = At(p)
  BY <1>2, <1>3, <1>5 DEF At
<1> QED BY <1>3, <1>4, <1>5

LEMMA OrderTakes ==
    ASSUME TypeOK, OrderInv, NEW q \in Queue, queue[q] # <<>>,
           queue' = [queue EXCEPT ![q] = Tail(@)], accepted' = accepted, abandoned' = abandoned,
           Taken(q)' = Taken(q) \union {Head(queue[q])},
           \A p \in Queue : p # q => Taken(p)' = Taken(p)
    PROVE  AcceptedOnce' /\ QueueOrder' /\ AbandonedApart'
<1> USE DEF OrderInv
<1>1. DOMAIN queue = Queue /\ \A p \in Queue : queue[p] \in Seq(Carried(p))
  BY DEF TypeOK
<1>2. /\ \A p \in Queue : p # q => queue'[p] = queue[p]
      /\ Head(queue[q]) = queue[q][1]
      /\ Len(queue[q]) \in Nat \ {0} /\ Len(queue'[q]) = Len(queue[q]) - 1
      /\ \A i \in 1..Len(queue'[q]) : queue'[q][i] = queue[q][i + 1]
      /\ queue'[q] = Tail(queue[q])
  BY <1>1, TakeTyped
<1>3. \A p \in Queue : At(p)' = At(p) /\ GivenUpAt(p)' = GivenUpAt(p)
  BY TakeAt
<1>4. \A p \in Queue : Beyond(p) \subseteq Queue
  BY BeyondFacts
<1>5. AcceptedOnce'
  BY <1>3 DEF AcceptedOnce
<1>6. QueueOrder'
  <2>1. ASSUME NEW p \in Queue, NEW i \in 1..Len(queue'[p])
        PROVE  /\ \A j \in 1..Len(queue'[p]) : i < j => Precedes(accepted', queue'[p][i], queue'[p][j])
               /\ \A x \in Taken(p)' : Precedes(accepted', x, queue'[p][i])
               /\ \A r \in Beyond(p) : \A x \in At(r)' : Earlier(accepted', x[1], queue'[p][i][1])
    <3>1. CASE p # q
      BY <1>2, <1>3, <1>4, <2>1, <3>1 DEF QueueOrder
    <3>2. CASE p = q
      <4>1. /\ i + 1 \in 1..Len(queue[q]) /\ 1 \in 1..Len(queue[q]) /\ 1 < i + 1
            /\ queue'[q][i] = queue[q][i + 1]
        BY <1>2, <2>1, <3>2
      <4>2. \A j \in 1..Len(queue'[q]) :
               j + 1 \in 1..Len(queue[q]) /\ queue'[q][j] = queue[q][j + 1] /\ (i < j => i + 1 < j + 1)
        BY <1>2, <2>1, <3>2
      <4>3. \A j \in 1..Len(queue'[q]) : i < j => Precedes(accepted, queue'[q][i], queue'[q][j])
        BY <4>1, <4>2 DEF QueueOrder
      <4>4. \A x \in Taken(q)' : Precedes(accepted, x, queue'[q][i])
        BY <1>2, <4>1 DEF QueueOrder
      <4>5. \A r \in Beyond(q) : \A x \in At(r)' : Earlier(accepted, x[1], queue'[q][i][1])
        BY <1>3, <1>4, <4>1 DEF QueueOrder
      <4> QED BY <3>2, <4>3, <4>4, <4>5
    <3> QED BY <3>1, <3>2
  <2> QED BY <2>1 DEF QueueOrder
<1>7. AbandonedApart'
  <2>1. \A p \in Queue : Elements(queue'[p]) \union Taken(p)' = Elements(queue[p]) \union Taken(p)
    <3>1. Elements(queue[q]) = Elements(queue'[q]) \union {Head(queue[q])}
      BY <1>1, <1>2, ElementsTail
    <3> QED BY <1>2, <3>1
  <2> QED BY <1>3, <1>4, <2>1 DEF AbandonedApart
<1> QED BY <1>5, <1>6, <1>7

LEMMA OrderPop ==
    ASSUME TypeOK, OrderInv, NEW m \in Stage, Pop(m) PROVE OrderInv'
<1> DEFINE q == Input[m]
<1> DEFINE h == Head(queue[q])
<1>1. /\ pc[m] = "poll" /\ queue[q] # <<>>
      /\ hand' = [hand EXCEPT ![m] = h] /\ queue' = [queue EXCEPT ![q] = Tail(@)]
      /\ emitted' = [emitted EXCEPT ![m] = 0] /\ pc' = [pc EXCEPT ![m] = "process"]
      /\ UNCHANGED <<accepted, handled, abandoned>>
  BY DEF Pop
<1>2. q \in Queue /\ m \in Module
  BY InputFacts DEF Module
<1>3. \A n \in Stage : Input[n] = q <=> n = m
  BY InputFacts
<1> HIDE DEF q
<1>4. /\ hand \in [Module -> HandMessage] /\ emitted \in [Module -> Nat]
      /\ pc \in [Module -> {"off", "poll", "process", "blocked", "exited"}]
      /\ DOMAIN queue = Queue /\ \A p \in Queue : queue[p] \in Seq(Carried(p))
  BY DEF TypeOK, HandMessage
<1>5. h \in Carried(q) /\ h = queue[q][1] /\ 1 \in 1..Len(queue[q])
  BY <1>1, <1>2, <1>4, TakeTyped
<1> HIDE DEF h
<1>6. /\ hand'[m] = h /\ emitted'[m] = 0 /\ pc'[m] = "process"
      /\ \A n \in Stage : n # m => hand'[n] = hand[n] /\ emitted'[n] = emitted[n] /\ pc'[n] = pc[n]
  BY <1>1, <1>2, <1>4 DEF Module
<1>7. Taken(q)' = Taken(q) \union {h}
  <2>1. {hand'[n] : n \in {l \in Stage : pc'[l] = "process" /\ Input[l] = q}} = {h}
    BY <1>3, <1>6
  <2>2. {hand[n] : n \in {l \in Stage : pc[l] = "process" /\ Input[l] = q}} = {}
    BY <1>1, <1>3
  <2> QED BY <1>1, <2>1, <2>2 DEF Taken
<1>8. ASSUME NEW p \in Queue, p # q PROVE Taken(p)' = Taken(p)
  <2>1. ASSUME NEW n \in Stage, Input[n] = p
        PROVE  hand'[n] = hand[n] /\ (pc'[n] = "process" <=> pc[n] = "process")
    BY <1>3, <1>6, <1>8, <2>1
  <2>2. {hand'[n] : n \in {l \in Stage : pc'[l] = "process" /\ Input[l] = p}}
          = {hand[n] : n \in {l \in Stage : pc[l] = "process" /\ Input[l] = p}}
    BY <2>1
  <2> QED BY <1>1, <2>2 DEF Taken
<1>9. AcceptedOnce' /\ QueueOrder' /\ AbandonedApart'
  BY <1>1, <1>2, <1>7, <1>8, OrderTakes DEF h
<1>10. \A p \in Queue : At(p)' = At(p)
  BY <1>1, <1>2, <1>7, <1>8, TakeAt DEF h
<1>11. HandOrder'
  <2> SUFFICES ASSUME NEW n \in Stage, NEW out \in Unpushed(n)'
               PROVE  /\ \A x \in At(out[1])' : Precedes(accepted', x, out[2])
                      /\ \A p \in Beyond(out[1]) : \A x \in At(p)' : Earlier(accepted', x[1], out[2][1])
    BY DEF HandOrder
  <2>1. CASE n # m
    <3>1. out \in Unpushed(n)
      BY <1>6, <2>1 DEF Unpushed
    <3>2. out[1] \in Queue /\ Beyond(out[1]) \subseteq Queue
      BY <3>1, UnpushedPlace, BeyondFacts
    <3> QED BY <1>1, <1>10, <3>1, <3>2 DEF OrderInv, HandOrder
  <2>2. CASE n = m
    <3>1. PICK k \in 1..Len(Outputs(m, h)) : out = Outputs(m, h)[k]
      BY <1>6, <2>2 DEF Unpushed
    <3>2. out[1] \in Pushes(m) /\ out[2][1] = h[1]
      BY <1>5, <3>1, OutputFacts DEF q
    <3>3. out[1] \in Queue /\ out[1] \in Beyond(q) /\ Beyond(out[1]) \subseteq Beyond(q) /\ Beyond(q) \subseteq Queue
      BY <1>2, <3>2, PushesFacts, BeyondFacts DEF q
    <3>4. \A p \in Beyond(q) : \A x \in At(p) : Earlier(accepted, x[1], out[2][1])
      BY <1>2, <1>5, <3>2 DEF OrderInv, QueueOrder
    <3> QED BY <1>1, <1>10, <3>3, <3>4 DEF Precedes
  <2> QED BY <2>1, <2>2
<1>12. HandledOrder'
  BY <1>1 DEF OrderInv, HandledOrder
<1> QED BY <1>9, <1>11, <1>12 DEF OrderInv

LEMMA OrderHandles ==
    ASSUME TypeOK, OrderInv, HandleMessage PROVE OrderInv'
<1> DEFINE q == AlertInput[trying]
<1> DEFINE h == Head(queue[q])
<1>1. /\ queue[q] # <<>>
      /\ handled' = Append(handled, <<q, h>>) /\ queue' = [queue EXCEPT ![q] = Tail(@)]
      /\ \E v \in {"poll", "blocked", "exited"} : pc' = [pc EXCEPT !["AlertWs"] = v]
      /\ UNCHANGED <<hand, emitted, accepted, abandoned>>
  BY AfterHandlerFacts DEF HandleMessage
<1>2. q \in Queue /\ Beyond(q) = {}
  BY AlertInputFacts DEF TypeOK
<1> HIDE DEF q
<1>3. /\ DOMAIN queue = Queue /\ \A p \in Queue : queue[p] \in Seq(Carried(p))
      /\ pc \in [Module -> {"off", "poll", "process", "blocked", "exited"}]
      /\ handled \in Seq(HandledOutput)
  BY DEF TypeOK, HandledOutput
<1>4. h \in Carried(q) /\ h = queue[q][1] /\ 1 \in 1..Len(queue[q])
  BY <1>1, <1>2, <1>3, TakeTyped
<1> HIDE DEF h
<1>5. \A n \in Stage : pc'[n] = pc[n]
  BY <1>1, <1>3 DEF Stage, Module
<1>6. /\ Len(handled') = Len(handled) + 1 /\ Len(handled) \in Nat
      /\ \A i \in 1..Len(handled) : handled'[i] = handled[i]
      /\ handled'[Len(handled) + 1] = <<q, h>>
  <2>1. TypeOK'
    BY TypeAlertWs
  <2>2. handled' \in Seq(HandledOutput) /\ Len(handled') \in Nat
    BY <2>1, LenProperties DEF TypeOK, HandledOutput
  <2>3. <<q, h>> \in Output
    BY <1>2, <1>4, OutputIntro
  <2>4. handled \in Seq(Output)
    BY <1>3, ElementOfSeq, SeqDef, LenProperties DEF HandledOutput
  <2> QED BY <1>1, <2>3, <2>4, ElementsAppend
<1>7. ASSUME NEW p \in Queue
      PROVE  Taken(p)' = Taken(p) \union (IF p = q THEN {h} ELSE {})
  <2>1. {hand'[n] : n \in {l \in Stage : pc'[l] = "process" /\ Input[l] = p}}
          = {hand[n] : n \in {l \in Stage : pc[l] = "process" /\ Input[l] = p}}
    BY <1>1, <1>5
  <2> DEFINE old == {handled[i][2] : i \in {j \in 1..Len(handled) : handled[j][1] = p}}
  <2> DEFINE new == {handled'[i][2] : i \in {j \in 1..Len(handled') : handled'[j][1] = p}}
  <2>2. 1..Len(handled') = 1..Len(handled) \union {Len(handled) + 1}
    BY <1>6
  <2>3. ASSUME NEW x PROVE x \in new <=> x \in old \union (IF p = q THEN {h} ELSE {})
    BY <1>6, <2>2
  <2>4. new = old \union (IF p = q THEN {h} ELSE {})
    BY <2>3
  <2> QED BY <2>1, <2>4 DEF Taken
<1>12. /\ queue[q] # <<>> /\ queue' = [queue EXCEPT ![q] = Tail(@)]
       /\ UNCHANGED <<accepted, abandoned>>
  BY <1>1
<1>8. AcceptedOnce' /\ QueueOrder' /\ AbandonedApart'
  BY <1>2, <1>7, <1>12, OrderTakes DEF h
<1>9. \A p \in Queue : At(p)' = At(p)
  BY <1>2, <1>7, <1>12, TakeAt DEF h
<1>10. HandOrder'
  <2> SUFFICES ASSUME NEW n \in Stage, NEW out \in Unpushed(n)'
               PROVE  /\ \A x \in At(out[1])' : Precedes(accepted', x, out[2])
                      /\ \A p \in Beyond(out[1]) : \A x \in At(p)' : Earlier(accepted', x[1], out[2][1])
    BY DEF HandOrder
  <2>1. out \in Unpushed(n)
    BY <1>1, <1>5 DEF Unpushed
  <2>2. out[1] \in Queue /\ Beyond(out[1]) \subseteq Queue
    BY <2>1, UnpushedPlace, BeyondFacts
  <2> QED BY <1>1, <1>9, <2>1, <2>2 DEF OrderInv, HandOrder
<1>11. HandledOrder'
  <2>1. ASSUME NEW i \in 1..Len(handled'), NEW j \in 1..Len(handled'), i < j, handled'[i][1] = handled'[j][1]
        PROVE  Precedes(accepted, handled'[i][2], handled'[j][2])
    <3>1. CASE j \in 1..Len(handled)
      <4>1. i \in 1..Len(handled)
        BY <2>1, <3>1
      <4> QED BY <1>6, <2>1, <3>1, <4>1 DEF OrderInv, HandledOrder
    <3>2. CASE j = Len(handled) + 1
      <4>1. i \in 1..Len(handled) /\ handled[i][1] = q /\ handled'[i][2] = handled[i][2] /\ handled'[j][2] = h
        BY <1>6, <2>1, <3>2
      <4>2. handled[i][2] \in Taken(q)
        BY <4>1 DEF Taken
      <4> QED BY <1>2, <1>4, <4>1, <4>2 DEF OrderInv, QueueOrder
    <3> QED BY <1>6, <2>1, <3>1, <3>2
  <2> QED BY <1>1, <2>1 DEF HandledOrder
<1> QED BY <1>8, <1>10, <1>11 DEF OrderInv

LEMMA OrderEmit ==
    ASSUME TypeOK, OrderInv, NEW m \in Stage, Emit(m) PROVE OrderInv'
<1> DEFINE out == Outputs(m, hand[m])[emitted[m] + 1]
<1> DEFINE q == out[1]
<1> DEFINE x == out[2]
<1>1. /\ pc[m] = "process" /\ emitted[m] < Len(Outputs(m, hand[m]))
      /\ queue' = [queue EXCEPT ![q] = Append(@, x)]
      /\ emitted' = [emitted EXCEPT ![m] = @ + 1]
      /\ UNCHANGED <<pc, hand, accepted, handled, abandoned>>
  BY DEF Emit
<1>2. /\ emitted \in [Module -> Nat] /\ m \in Module
      /\ DOMAIN queue = Queue /\ \A p \in Queue : queue[p] \in Seq(Carried(p))
  BY DEF TypeOK, Module
<1>3. /\ emitted[m] \in Nat /\ Len(Outputs(m, hand[m])) \in Nat /\ hand[m] \in Carried(Input[m])
      /\ emitted[m] + 1 \in (emitted[m] + 1)..Len(Outputs(m, hand[m]))
  BY <1>1, UnpushedFacts
<1>4. out \in Unpushed(m)
  BY <1>1, <1>3 DEF Unpushed
<1> HIDE DEF out
<1>5. /\ q \in Pushes(m) /\ q \in Queue /\ x \in Carried(q) /\ x[1] \in Elements(accepted)
      /\ \A p \in Queue : q \in Beyond(p) =>
           /\ \A i \in 1..Len(queue[p]) : Earlier(accepted, x[1], queue[p][i][1])
           /\ \A n \in Stage : \A o \in Unpushed(n) : o[1] = p => Earlier(accepted, x[1], o[2][1])
           /\ \A y \in GivenUpAt(p) : x[1] # y[1]
      /\ \A y \in At(q) : Precedes(accepted, y, x) /\ y # x
      /\ \A p \in Beyond(q) : \A y \in At(p) : Earlier(accepted, y[1], x[1]) /\ y[1] # x[1]
  BY <1>4, UnpushedPlace
<1>6. /\ \A p \in Queue : p # q => queue'[p] = queue[p]
      /\ queue'[q] = Append(queue[q], x) /\ queue[q] \in Seq(Carried(q))
  BY <1>1, <1>2, <1>5, PushTyped
<1>7. /\ Elements(queue'[q]) = Elements(queue[q]) \union {x}
      /\ Len(queue'[q]) = Len(queue[q]) + 1 /\ Len(queue[q]) \in Nat
      /\ \A i \in 1..Len(queue[q]) : queue'[q][i] = queue[q][i]
      /\ queue'[q][Len(queue[q]) + 1] = x
  BY <1>5, <1>6, ElementsAppend
<1>8. \A n \in Stage : Unpushed(n)' \subseteq Unpushed(n)
  BY <1>1, <1>2, <1>3 DEF Unpushed, Module
<1>9. \A k \in (emitted'[m] + 1)..Len(Outputs(m, hand[m])) :
        Outputs(m, hand[m])[k][1] = q =>
            Precedes(accepted, x, Outputs(m, hand[m])[k][2])
  <2>1. ASSUME NEW k \in (emitted'[m] + 1)..Len(Outputs(m, hand[m]))
        PROVE  /\ emitted[m] + 1 \in 1..Len(Outputs(m, hand[m]))
               /\ k \in 1..Len(Outputs(m, hand[m])) /\ emitted[m] + 1 < k
    BY <1>1, <1>2, <1>3
  <2> QED BY <1>3, <2>1, OutputFacts DEF out
<1> HIDE DEF q, x
<1>10. \A p \in Queue : Taken(p)' = Taken(p) /\ GivenUpAt(p)' = GivenUpAt(p)
  BY <1>1 DEF Taken, GivenUpAt
<1>11. \A p \in Queue : At(p)' = At(p) \union (IF p = q THEN {x} ELSE {})
  BY <1>6, <1>7, <1>10 DEF At
<1>12. \A p \in Queue : Beyond(p) \subseteq Queue \ {p}
  BY BeyondFacts
<1>13. AcceptedOnce'
  BY <1>1, <1>5, <1>11 DEF OrderInv, AcceptedOnce
<1>14. QueueOrder'
  <2>1. ASSUME NEW p \in Queue, NEW i \in 1..Len(queue'[p])
        PROVE  /\ \A j \in 1..Len(queue'[p]) : i < j => Precedes(accepted', queue'[p][i], queue'[p][j])
               /\ \A y \in Taken(p)' : Precedes(accepted', y, queue'[p][i])
               /\ \A r \in Beyond(p) : \A y \in At(r)' : Earlier(accepted', y[1], queue'[p][i][1])
    <3>1. CASE p # q
      <4>1. i \in 1..Len(queue[p]) /\ queue'[p] = queue[p]
        BY <1>6, <2>1, <3>1
      <4>2. /\ \A j \in 1..Len(queue[p]) : i < j => Precedes(accepted, queue[p][i], queue[p][j])
            /\ \A y \in Taken(p) : Precedes(accepted, y, queue[p][i])
            /\ \A r \in Beyond(p) : \A y \in At(r) : Earlier(accepted, y[1], queue[p][i][1])
        BY <4>1 DEF OrderInv, QueueOrder
      <4>3. \A r \in Beyond(p) : \A y \in At(r)' : Earlier(accepted, y[1], queue[p][i][1])
        BY <1>5, <1>11, <1>12, <4>1, <4>2
      <4> QED BY <1>1, <1>10, <4>1, <4>2, <4>3
    <3>2. CASE p = q /\ i \in 1..Len(queue[q])
      <4>1. queue'[q][i] = queue[q][i]
        BY <1>7, <3>2
      <4>2. /\ \A j \in 1..Len(queue[q]) : i < j => Precedes(accepted, queue[q][i], queue[q][j])
            /\ \A y \in Taken(q) : Precedes(accepted, y, queue[q][i])
            /\ \A r \in Beyond(q) : \A y \in At(r) : Earlier(accepted, y[1], queue[q][i][1])
        BY <1>5, <3>2 DEF OrderInv, QueueOrder
      <4>3. Precedes(accepted, queue[q][i], x)
        BY <1>5, <3>2, AtTyped
      <4>4. \A j \in 1..Len(queue'[q]) : i < j => Precedes(accepted, queue'[q][i], queue'[q][j])
        BY <1>7, <4>1, <4>2, <4>3
      <4>5. \A r \in Beyond(q) : At(r)' = At(r)
        BY <1>5, <1>11, <1>12
      <4> QED BY <1>1, <1>10, <3>2, <4>1, <4>2, <4>4, <4>5
    <3>3. CASE p = q /\ i = Len(queue[q]) + 1
      <4>1. queue'[q][i] = x /\ \A j \in 1..Len(queue'[q]) : ~(i < j)
        BY <1>7, <3>3
      <4>2. \A y \in Taken(q) : Precedes(accepted, y, x)
        BY <1>5, AtTyped
      <4>3. \A r \in Beyond(q) : At(r)' = At(r)
        BY <1>5, <1>11, <1>12
      <4> QED BY <1>1, <1>5, <1>10, <3>3, <4>1, <4>2, <4>3
    <3> QED BY <1>7, <2>1, <3>1, <3>2, <3>3
  <2> QED BY <2>1 DEF QueueOrder
<1>15. HandOrder'
  <2> SUFFICES ASSUME NEW n \in Stage, NEW o \in Unpushed(n)'
               PROVE  /\ \A y \in At(o[1])' : Precedes(accepted', y, o[2])
                      /\ \A p \in Beyond(o[1]) : \A y \in At(p)' : Earlier(accepted', y[1], o[2][1])
    BY DEF HandOrder
  <2>1. o \in Unpushed(n)
    BY <1>8
  <2>2. o[1] \in Queue /\ o[1] \in Pushes(n) /\ Beyond(o[1]) \subseteq Queue
    BY <2>1, UnpushedPlace, BeyondFacts
  <2>3. /\ \A y \in At(o[1]) : Precedes(accepted, y, o[2])
        /\ \A p \in Beyond(o[1]) : \A y \in At(p) : Earlier(accepted, y[1], o[2][1])
    BY <2>1 DEF OrderInv, HandOrder
  <2>4. o[1] = q => Precedes(accepted, x, o[2])
    <3>1. SUFFICES ASSUME o[1] = q PROVE Precedes(accepted, x, o[2])
      OBVIOUS
    <3>2. n = m
      BY <1>5, <2>2, <3>1, PushesFacts
    <3>3. PICK k \in (emitted'[m] + 1)..Len(Outputs(m, hand[m])) : o = Outputs(m, hand[m])[k]
      BY <1>1, <3>2 DEF Unpushed
    <3> QED BY <1>9, <3>1, <3>3
  <2>5. q \in Beyond(o[1]) => Earlier(accepted, x[1], o[2][1])
    BY <1>5, <2>1, <2>2
  <2> QED BY <1>1, <1>11, <2>2, <2>3, <2>4, <2>5
<1>16. HandledOrder'
  BY <1>1 DEF OrderInv, HandledOrder
<1>17. AbandonedApart'
  <2> SUFFICES ASSUME NEW p \in Queue, NEW y \in GivenUpAt(p)
               PROVE  /\ y \notin Elements(queue'[p]) \union Taken(p)'
                      /\ \A r \in Beyond(p) : \A z \in At(r)' : z[1] # y[1]
    BY <1>10 DEF AbandonedApart
  <2>1. /\ y \notin Elements(queue[p]) \union Taken(p)
        /\ \A r \in Beyond(p) : \A z \in At(r) : z[1] # y[1]
    BY DEF OrderInv, AbandonedApart
  <2>2. p = q => y # x
    BY <1>5, AtTyped
  <2>3. q \in Beyond(p) => x[1] # y[1]
    BY <1>5
  <2> QED BY <1>6, <1>7, <1>10, <1>11, <1>12, <2>1, <2>2, <2>3
<1> QED BY <1>13, <1>14, <1>15, <1>16, <1>17 DEF OrderInv

\* What a module still had to push is given up.
LEMMA OrderThrows ==
    ASSUME TypeOK, OrderInv, NEW m \in Stage, Throws(m) PROVE OrderInv'
<1>1. /\ pc[m] = "process" /\ Loop(m)
      /\ hand' = [hand EXCEPT ![m] = NoMessage]
      /\ abandoned' = abandoned \union Unpushed(m)
      /\ UNCHANGED <<queue, emitted, accepted, handled>>
  BY DEF Throws, Unpushed
<1>2. /\ m \in Module /\ hand \in [Module -> HandMessage] /\ \A n \in Stage : n \in Module
      /\ pc \in [Module -> {"off", "poll", "process", "blocked", "exited"}]
  BY DEF TypeOK, Module, HandMessage
<1>3. /\ pc'[m] # "process"
      /\ \A n \in Stage : n # m => pc'[n] = pc[n] /\ hand'[n] = hand[n]
  BY <1>1, <1>2 DEF Loop
<1>4. \A p \in Queue : Taken(p)' \subseteq Taken(p)
  BY <1>1, <1>3 DEF Taken
<1>5. \A n \in Stage : Unpushed(n)' \subseteq Unpushed(n) /\ Unpushed(m)' = {}
  BY <1>1, <1>3 DEF Unpushed
<1>6. \A p \in Queue : \A x \in GivenUpAt(p)' : x \in GivenUpAt(p) \/ <<p, x>> \in Unpushed(m)
  BY <1>1 DEF GivenUpAt
<1>7. \A p \in Queue : \A x \in At(p)' : x \in At(p) \/ <<p, x>> \in Unpushed(m)
  BY <1>1, <1>4, <1>6 DEF At
<1>8. ASSUME NEW q, NEW x, <<q, x>> \in Unpushed(m)
      PROVE  /\ q \in Pushes(m) /\ q \in Queue /\ x \in Carried(q) /\ x[1] \in Elements(accepted)
             /\ \A p \in Queue : q \in Beyond(p) =>
                  /\ \A i \in 1..Len(queue[p]) : Earlier(accepted, x[1], queue[p][i][1])
                  /\ \A n \in Stage : \A o \in Unpushed(n) : o[1] = p => Earlier(accepted, x[1], o[2][1])
                  /\ \A y \in GivenUpAt(p) : x[1] # y[1]
             /\ \A y \in At(q) : Precedes(accepted, y, x) /\ y # x
             /\ \A p \in Beyond(q) : \A y \in At(p) : Earlier(accepted, y[1], x[1]) /\ y[1] # x[1]
  <2>1. <<q, x>>[1] = q /\ <<q, x>>[2] = x
    OBVIOUS
  <2> QED BY <1>8, <2>1, UnpushedPlace
<1>9. \A p \in Queue : Beyond(p) \subseteq Queue
  BY BeyondFacts
<1>10. AcceptedOnce'
  BY <1>1, <1>7, <1>8 DEF OrderInv, AcceptedOnce
<1>11. QueueOrder'
  <2> SUFFICES ASSUME NEW p \in Queue, NEW i \in 1..Len(queue[p])
               PROVE  /\ \A j \in 1..Len(queue[p]) : i < j => Precedes(accepted, queue[p][i], queue[p][j])
                      /\ \A y \in Taken(p)' : Precedes(accepted, y, queue[p][i])
                      /\ \A r \in Beyond(p) : \A y \in At(r)' : Earlier(accepted, y[1], queue[p][i][1])
    BY <1>1 DEF QueueOrder
  <2>1. /\ \A j \in 1..Len(queue[p]) : i < j => Precedes(accepted, queue[p][i], queue[p][j])
        /\ \A y \in Taken(p) : Precedes(accepted, y, queue[p][i])
        /\ \A r \in Beyond(p) : \A y \in At(r) : Earlier(accepted, y[1], queue[p][i][1])
    BY DEF OrderInv, QueueOrder
  <2>2. \A r \in Beyond(p) : \A y \in At(r)' : Earlier(accepted, y[1], queue[p][i][1])
    BY <1>7, <1>8, <1>9, <2>1
  <2> QED BY <1>4, <2>1, <2>2
<1>12. HandOrder'
  <2> SUFFICES ASSUME NEW n \in Stage, NEW o \in Unpushed(n)'
               PROVE  /\ \A y \in At(o[1])' : Precedes(accepted, y, o[2])
                      /\ \A p \in Beyond(o[1]) : \A y \in At(p)' : Earlier(accepted, y[1], o[2][1])
    BY <1>1 DEF HandOrder
  <2>1. o \in Unpushed(n) /\ n # m
    BY <1>5
  <2>2. o[1] \in Queue /\ o[1] \in Pushes(n) /\ Beyond(o[1]) \subseteq Queue
    BY <2>1, UnpushedPlace, BeyondFacts
  <2>3. /\ \A y \in At(o[1]) : Precedes(accepted, y, o[2])
        /\ \A p \in Beyond(o[1]) : \A y \in At(p) : Earlier(accepted, y[1], o[2][1])
    BY <2>1 DEF OrderInv, HandOrder
  <2>4. \A y : <<o[1], y>> \notin Unpushed(m)
    <3>1. ASSUME NEW y, <<o[1], y>> \in Unpushed(m) PROVE FALSE
      <4>1. o[1] \in Pushes(m)
        BY <1>8, <3>1
      <4> QED BY <2>1, <2>2, <4>1, PushesFacts
    <3> QED BY <3>1
  <2>5. \A p \in Beyond(o[1]) : \A y : <<p, y>> \in Unpushed(m) => Earlier(accepted, y[1], o[2][1])
    BY <1>8, <2>1, <2>2
  <2> QED BY <1>7, <2>2, <2>3, <2>4, <2>5
<1>13. HandledOrder'
  BY <1>1 DEF OrderInv, HandledOrder
<1>14. AbandonedApart'
  <2> SUFFICES ASSUME NEW p \in Queue, NEW y \in GivenUpAt(p)'
               PROVE  /\ y \notin Elements(queue[p]) \union Taken(p)'
                      /\ \A r \in Beyond(p) : \A z \in At(r)' : z[1] # y[1]
    BY <1>1 DEF AbandonedApart
  <2>1. CASE y \in GivenUpAt(p)
    <3>1. /\ y \notin Elements(queue[p]) \union Taken(p)
          /\ \A r \in Beyond(p) : \A z \in At(r) : z[1] # y[1]
      BY <2>1 DEF OrderInv, AbandonedApart
    <3>2. \A r \in Beyond(p) : \A z : <<r, z>> \in Unpushed(m) => z[1] # y[1]
      BY <1>8, <2>1
    <3> QED BY <1>4, <1>7, <1>9, <3>1, <3>2
  <2>2. CASE <<p, y>> \in Unpushed(m)
    <3>1. y \notin At(p)
      BY <1>8, <2>2
    <3>2. y \notin Elements(queue[p]) \union Taken(p)'
      BY <1>4, <3>1, AtTyped
    <3>3. ASSUME NEW r \in Beyond(p), NEW z \in At(r)' PROVE z[1] # y[1]
      <4>1. r \in Queue
        BY <1>9
      <4>2. CASE z \in At(r)
        BY <1>8, <2>2, <4>2
      <4>3. ASSUME <<r, z>> \in Unpushed(m) PROVE FALSE
        <5>1. r \in Pushes(m) /\ p \in Pushes(m)
          BY <1>8, <2>2, <4>3
        <5> QED BY <5>1, PushesFacts
      <4> QED BY <1>7, <4>1, <4>2, <4>3
    <3> QED BY <3>2, <3>3
  <2> QED BY <1>6, <2>1, <2>2
<1> QED BY <1>10, <1>11, <1>12, <1>13, <1>14 DEF OrderInv

\* The other steps of threads begin no work, and may end some.
LEMMA OrderQuiet ==
    ASSUME TypeOK, OrderInv,
           \/ \E m \in Stage : Processed(m)
           \/ TryNext \/ StartAll \/ StopModule \/ JoinModule \/ FinishStop
           \/ \E m \in Module : Exit(m)
           \/ UNCHANGED vars
    PROVE  OrderInv'
<1>0. pc \in [Module -> {"off", "poll", "process", "blocked", "exited"}] /\ \A n \in Stage : n \in Module
  BY DEF TypeOK, Module
<1>1. ASSUME UNCHANGED <<queue, emitted, accepted, handled, abandoned>>,
             \A n \in Stage : pc'[n] = "process" => pc[n] = "process" /\ hand'[n] = hand[n]
      PROVE  OrderInv'
  <2>1. \A q \in Queue : Taken(q)' \subseteq Taken(q)
    BY <1>1 DEF Taken
  <2>2. \A m \in Stage : Unpushed(m)' \subseteq Unpushed(m)
    BY <1>1 DEF Unpushed
  <2> QED BY <1>1, <2>1, <2>2, OrderShrinks
<1>2. ASSUME NEW m \in Stage, Processed(m) PROVE OrderInv'
  <2>1. /\ Loop(m) /\ hand' = [hand EXCEPT ![m] = NoMessage]
        /\ UNCHANGED <<queue, emitted, accepted, handled, abandoned>>
    BY <1>2 DEF Processed
  <2>2. hand \in [Module -> HandMessage]
    BY DEF TypeOK, HandMessage
  <2>3. \A n \in Stage : pc'[n] = "process" => pc[n] = "process" /\ hand'[n] = hand[n]
    BY <1>0, <2>1, <2>2 DEF Loop
  <2> QED BY <1>1, <2>1, <2>3
<1>3. CASE TryNext
  <2>1. \A n \in Stage : pc'[n] = "process" => pc[n] = "process" /\ hand'[n] = hand[n]
    BY <1>0, <1>3 DEF TryNext, Loop
  <2> QED BY <1>1, <1>3, <2>1 DEF TryNext
<1>4. CASE StartAll
  <2>1. \A n \in Stage : pc'[n] = "process" => pc[n] = "process" /\ hand'[n] = hand[n]
    BY <1>0, <1>4 DEF StartAll
  <2> QED BY <1>1, <1>4, <2>1 DEF StartAll
<1>5. ASSUME NEW m \in Module, Exit(m) PROVE OrderInv'
  <2>1. \A n \in Stage : pc'[n] = "process" => pc[n] = "process" /\ hand'[n] = hand[n]
    BY <1>0, <1>5 DEF Exit
  <2> QED BY <1>1, <1>5, <2>1 DEF Exit
<1>6. CASE StopModule \/ JoinModule \/ FinishStop \/ UNCHANGED vars
  BY <1>1, <1>6 DEF StopModule, JoinModule, FinishStop, StopAlerts, MissNotify, JoinThreads, vars, threadVars
<1> QED BY <1>2, <1>3, <1>4, <1>5, <1>6

\* A frame is accepted: it comes after everything there is.
LEMMA OrderAccepts ==
    ASSUME TypeOK, OrderInv,
           (\E f \in LaserFrame : LaserCallback(f)) \/ \E f \in VibrationFrame : VibrationCallback(f)
    PROVE  OrderInv'
<1>1. PICK q \in {"laser_in", "vibration_q"}, f \in Frame :
        /\ Accept(f) /\ <<f>> \in Carried(q)
        /\ queue' = queue \/ queue' = [queue EXCEPT ![q] = Append(@, <<f>>)]
  <2>1. \A f \in LaserFrame : f \in Frame /\ <<f>> \in Carried("laser_in")
    BY CarriedIntro DEF Frame, Queue
  <2>2. \A f \in VibrationFrame : f \in Frame /\ <<f>> \in Carried("vibration_q")
    BY DEF Frame, Carried
  <2>3. \A f \in LaserFrame : LaserCallback(f) =>
          Accept(f) /\ (queue' = queue \/ queue' = [queue EXCEPT !["laser_in"] = Append(@, <<f>>)])
    BY DEF LaserCallback
  <2>4. \A f \in VibrationFrame : VibrationCallback(f) =>
          Accept(f) /\ queue' = [queue EXCEPT !["vibration_q"] = Append(@, <<f>>)]
    BY DEF VibrationCallback
  <2> QED BY <2>1, <2>2, <2>3, <2>4
<1>2. /\ f \notin Elements(accepted) /\ accepted' = Append(accepted, f)
      /\ UNCHANGED <<pc, hand, emitted, handled, abandoned>>
  BY <1>1 DEF Accept, threadVars, Elements
<1>3. /\ accepted \in Seq(Frame)
      /\ DOMAIN queue = Queue /\ \A p \in Queue : queue[p] \in Seq(Carried(p))
  BY DEF TypeOK
<1>4. q \in Queue /\ \A p \in Queue : q \notin Beyond(p)
  BY <1>1, BeyondFacts DEF Queue
<1>5. \A n \in Stage : q \notin Pushes(n)
  BY <1>4, PushesFacts, InputFacts
<1> DEFINE x == <<f>>
<1>6. /\ Elements(accepted') = Elements(accepted) \union {f}
      /\ Len(accepted') = Len(accepted) + 1 /\ Len(accepted) \in Nat
      /\ \A i \in 1..Len(accepted) : accepted'[i] = accepted[i]
      /\ accepted'[Len(accepted) + 1] = f
  BY <1>2, <1>3, ElementsAppend
<1>7. /\ \A g, h : Earlier(accepted, g, h) => Earlier(accepted', g, h)
      /\ \A y, z : Precedes(accepted, y, z) => Precedes(accepted', y, z)
      /\ \A g \in Elements(accepted) : Earlier(accepted', g, f)
  BY <1>2, <1>3, EarlierGrows
<1>8. x \in Carried(q) /\ x[1] = f
  BY <1>1
<1> HIDE DEF x
<1>9. /\ \A p \in Queue : p # q => queue'[p] = queue[p]
      /\ queue'[q] = queue[q] \/ queue'[q] = Append(queue[q], x)
  BY <1>1, <1>3, <1>4 DEF x
<1>10. /\ queue[q] \in Seq(Carried(q)) /\ Len(queue[q]) \in Nat
       /\ Elements(queue'[q]) \subseteq Elements(queue[q]) \union {x}
       /\ \A i \in 1..Len(queue'[q]) :
            \/ i \in 1..Len(queue[q]) /\ queue'[q][i] = queue[q][i]
            \/ i = Len(queue[q]) + 1 /\ queue'[q][i] = x
       /\ Len(queue'[q]) \in Nat /\ Len(queue'[q]) <= Len(queue[q]) + 1
  <2>1. queue[q] \in Seq(Carried(q)) /\ Len(queue[q]) \in Nat
    BY <1>3, <1>4, LenProperties
  <2>2. CASE queue'[q] = queue[q]
    BY <2>1, <2>2
  <2>3. CASE queue'[q] = Append(queue[q], x)
    BY <1>8, <2>1, <2>3, ElementsAppend
  <2> QED BY <1>9, <2>1, <2>2, <2>3
<1>11. \A p \in Queue : Taken(p)' = Taken(p) /\ GivenUpAt(p)' = GivenUpAt(p)
  BY <1>2 DEF Taken, GivenUpAt
<1>12. \A p \in Queue : p # q => At(p)' = At(p)
  BY <1>9, <1>11 DEF At
<1>13. At(q)' \subseteq At(q) \union {x}
  BY <1>4, <1>10, <1>11 DEF At
<1>14. \A p \in Queue : \A y \in At(p) : y[1] \in Elements(accepted)
  BY DEF OrderInv, AcceptedOnce
<1>15. \A p \in Queue : Beyond(p) \subseteq Queue \ {q}
  BY <1>4, BeyondFacts
<1>16. AcceptedOnce'
  <2>1. \A p \in Queue : \A y \in At(p)' : y[1] \in Elements(accepted')
    BY <1>6, <1>8, <1>12, <1>13, <1>14
  <2>2. ASSUME NEW i \in 1..Len(accepted'), NEW j \in 1..Len(accepted'), accepted'[i] = accepted'[j]
        PROVE  i = j
    <3>1. \A k \in 1..Len(accepted) : accepted'[k] = accepted[k] /\ accepted'[k] # f
      BY <1>2, <1>6 DEF Elements
    <3>2. \A k \in 1..Len(accepted') : k \in 1..Len(accepted) \/ k = Len(accepted) + 1
      BY <1>6
    <3>3. \A k, l \in 1..Len(accepted) : accepted[k] = accepted[l] => k = l
      BY DEF OrderInv, AcceptedOnce
    <3> QED BY <1>6, <2>2, <3>1, <3>2, <3>3
  <2> QED BY <2>1, <2>2 DEF AcceptedOnce
<1>17. QueueOrder'
  <2>1. ASSUME NEW p \in Queue, NEW i \in 1..Len(queue'[p])
        PROVE  /\ \A j \in 1..Len(queue'[p]) : i < j => Precedes(accepted', queue'[p][i], queue'[p][j])
               /\ \A y \in Taken(p)' : Precedes(accepted', y, queue'[p][i])
               /\ \A r \in Beyond(p) : \A y \in At(r)' : Earlier(accepted', y[1], queue'[p][i][1])
    <3>1. CASE p # q
      <4>1. i \in 1..Len(queue[p]) /\ queue'[p] = queue[p]
        BY <1>9, <2>1, <3>1
      <4>2. /\ \A j \in 1..Len(queue[p]) : i < j => Precedes(accepted, queue[p][i], queue[p][j])
            /\ \A y \in Taken(p) : Precedes(accepted, y, queue[p][i])
            /\ \A r \in Beyond(p) : \A y \in At(r) : Earlier(accepted, y[1], queue[p][i][1])
        BY <4>1 DEF OrderInv, QueueOrder
      <4>3. \A r \in Beyond(p) : At(r)' = At(r)
        BY <1>12, <1>15
      <4> QED BY <1>7, <1>11, <4>1, <4>2, <4>3
    <3>2. CASE p = q /\ i \in 1..Len(queue[q]) /\ queue'[q][i] = queue[q][i]
      <4>2. /\ \A j \in 1..Len(queue[q]) : i < j => Precedes(accepted, queue[q][i], queue[q][j])
            /\ \A y \in Taken(q) : Precedes(accepted, y, queue[q][i])
            /\ \A r \in Beyond(q) : \A y \in At(r) : Earlier(accepted, y[1], queue[q][i][1])
        BY <1>4, <3>2 DEF OrderInv, QueueOrder
      <4>3. Precedes(accepted', queue[q][i], x)
        <5>1. queue[q][i] \in At(q)
          BY <1>4, <3>2, AtTyped
        <5> QED BY <1>4, <1>7, <1>8, <1>14, <5>1 DEF Precedes
      <4>4. \A j \in 1..Len(queue'[q]) : i < j => Precedes(accepted', queue'[q][i], queue'[q][j])
        BY <1>7, <1>10, <3>2, <4>2, <4>3
      <4>5. \A r \in Beyond(q) : At(r)' = At(r)
        BY <1>4, <1>12, <1>15
      <4> QED BY <1>4, <1>7, <1>11, <3>2, <4>2, <4>4, <4>5
    <3>3. CASE p = q /\ i = Len(queue[q]) + 1 /\ queue'[q][i] = x
      <4>1. \A j \in 1..Len(queue'[q]) : ~(i < j)
        BY <1>10, <3>3
      <4>2. \A y \in At(q) : Precedes(accepted', y, x)
        BY <1>4, <1>7, <1>8, <1>14 DEF Precedes
      <4>3. \A y \in Taken(q)' : Precedes(accepted', y, x)
        BY <1>4, <1>11, <4>2, AtTyped
      <4>4. \A r \in Beyond(q) : \A y \in At(r)' : Earlier(accepted', y[1], x[1])
        BY <1>4, <1>7, <1>8, <1>12, <1>14, <1>15
      <4> QED BY <3>3, <4>1, <4>3, <4>4
    <3> QED BY <1>10, <2>1, <3>1, <3>2, <3>3
  <2> QED BY <2>1 DEF QueueOrder
<1>18. HandOrder'
  <2> SUFFICES ASSUME NEW n \in Stage, NEW o \in Unpushed(n)'
               PROVE  /\ \A y \in At(o[1])' : Precedes(accepted', y, o[2])
                      /\ \A p \in Beyond(o[1]) : \A y \in At(p)' : Earlier(accepted', y[1], o[2][1])
    BY DEF HandOrder
  <2>1. o \in Unpushed(n)
    BY <1>2 DEF Unpushed
  <2>2. o[1] \in Queue \ {q} /\ Beyond(o[1]) \subseteq Queue \ {q}
    BY <1>5, <1>15, <2>1, UnpushedPlace
  <2>3. /\ \A y \in At(o[1]) : Precedes(accepted, y, o[2])
        /\ \A p \in Beyond(o[1]) : \A y \in At(p) : Earlier(accepted, y[1], o[2][1])
    BY <2>1 DEF OrderInv, HandOrder
  <2> QED BY <1>7, <1>12, <2>2, <2>3
<1>19. HandledOrder'
  BY <1>2, <1>7 DEF OrderInv, HandledOrder
<1>20. AbandonedApart'
  <2> SUFFICES ASSUME NEW p \in Queue, NEW y \in GivenUpAt(p)
               PROVE  /\ y \notin Elements(queue'[p]) \union Taken(p)'
                      /\ \A r \in Beyond(p) : \A z \in At(r)' : z[1] # y[1]
    BY <1>11 DEF AbandonedApart
  <2>1. /\ y \notin Elements(queue[p]) \union Taken(p)
        /\ \A r \in Beyond(p) : \A z \in At(r) : z[1] # y[1]
    BY DEF OrderInv, AbandonedApart
  <2>2. y # x
    <3>1. y[1] \in Elements(accepted)
      BY <1>14, AtTyped
    <3> QED BY <1>2, <1>8, <3>1
  <2> QED BY <1>9, <1>10, <1>11, <1>12, <1>15, <2>1, <2>2
<1> QED BY <1>16, <1>17, <1>18, <1>19, <1>20 DEF OrderInv

LEMMA OrderInit == Init => OrderInv
<1> SUFFICES ASSUME Init PROVE OrderInv
  OBVIOUS
<1>1. /\ \A q \in Queue : queue[q] = <<>>
      /\ \A m \in Stage : pc[m] = "off"
      /\ accepted = <<>> /\ handled = <<>> /\ abandoned = {}
  BY DEF Init, Module
<1>2. \A q \in Queue : At(q) = {} /\ GivenUpAt(q) = {}
  BY <1>1 DEF At, Taken, GivenUpAt, Elements
<1>3. \A m \in Stage : Unpushed(m) = {}
  BY <1>1 DEF Unpushed
<1> QED BY <1>1, <1>2, <1>3 DEF OrderInv, AcceptedOnce, QueueOrder, HandOrder, HandledOrder, AbandonedApart

LEMMA OrderNext ==
    ASSUME TypeOK, OrderInv, [Next]_vars PROVE OrderInv'
<1>1. ASSUME NEW m \in Stage, StageStep(m) PROVE OrderInv'
  BY <1>1, OrderPop, OrderEmit, OrderThrows, OrderQuiet DEF StageStep
<1> QED BY <1>1, NextCases, OrderHandles, OrderQuiet, OrderAccepts

-----------------------------------------------------------------------------
(* Outputs that are due, and where they are *)

LEMMA DueFacts ==
    ASSUME NEW f \in Frame, NEW o \in Due(f)
    PROVE  /\ o = <<o[1], o[2]>> /\ o[2][1] = f /\ o[2] \in Carried(o[1])
           /\ o[1] \in {"laser_q_alert", "vibration_q", "prediction_q", "dem_q"} /\ o[1] \in Queue
           /\ o[1] = "vibration_q" => f \in VibrationFrame
           /\ o[1] # "vibration_q" => f \in LaserFrame
           /\ o[1] \in {"vibration_q", "laser_q_alert"} => o[2] = <<f>>
           /\ o[1] \in {"prediction_q", "dem_q"} => \E k \in 1..Cracks[f] : o[2] = <<f, k>>
<1>1. CASE f \in VibrationFrame
  <2>1. o = <<"vibration_q", <<f>>>>
    BY <1>1 DEF Due
  <2>2. o[1] = "vibration_q" /\ o[2] = <<f>> /\ o[2][1] = f
    BY <2>1
  <2> QED BY <1>1, <2>1, <2>2 DEF Carried, Queue
<1>2. CASE f \notin VibrationFrame
  <2>0. f \in LaserFrame
    BY <1>2 DEF Frame
  <2>1. CASE o = <<"laser_q_alert", <<f>>>>
    <3>1. o[1] = "laser_q_alert" /\ o[2] = <<f>> /\ o[2][1] = f
      BY <2>1
    <3> QED BY <2>0, <2>1, <3>1 DEF Carried, Queue
  <2>2. ASSUME NEW q \in {"prediction_q", "dem_q"}, NEW k \in 1..Cracks[f], o = <<q, <<f, k>>>>
        PROVE  /\ o[1] = q /\ o[2] = <<f, k>> /\ o[2][1] = f /\ q \in Queue
               /\ o[2] \in Carried(o[1]) /\ o = <<o[1], o[2]>>
    <3>1. o[1] = q /\ o[2] = <<f, k>> /\ o[2][1] = f /\ q \in Queue /\ o = <<o[1], o[2]>>
      BY <2>2 DEF Queue
    <3> QED BY <2>0, <3>1, CarriedIntro
  <2>3. \/ o = <<"laser_q_alert", <<f>>>>
        \/ \E q \in {"prediction_q", "dem_q"}, k \in 1..Cracks[f] : o = <<q, <<f, k>>>>
    BY <1>2 DEF Due
  <2> QED BY <2>0, <2>1, <2>2, <2>3
<1> QED BY <1>1, <1>2

LEMMA DueIntro ==
    ASSUME NEW q \in {"laser_q_alert", "vibration_q", "prediction_q", "dem_q"}, NEW x \in Carried(q)
    PROVE  x[1] \in Frame /\ <<q, x>> \in Due(x[1])
<1>0. q \in Queue
  BY DEF Queue
<1>1. x[1] \in Frame /\ (q # "vibration_q" => x[1] \in LaserFrame) /\ (q = "vibration_q" => x[1] \in VibrationFrame)
  BY <1>0, CarriedFacts
<1>2. CASE q = "vibration_q"
  <2>1. x = <<x[1]>>
    BY <1>0, <1>2, CarriedFacts
  <2> QED BY <1>1, <1>2, <2>1 DEF Due
<1>3. q # "vibration_q" => x[1] \notin VibrationFrame
  BY <1>1, FrameAssumption
<1>4. CASE q = "laser_q_alert"
  <2>1. x = <<x[1]>>
    BY <1>0, <1>4, CarriedFacts
  <2> QED BY <1>1, <1>3, <1>4, <2>1 DEF Due
<1>5. CASE q \in {"prediction_q", "dem_q"}
  <2>1. x = <<x[1], x[2]>> /\ x[2] \in 1..Cracks[x[1]]
    BY <1>0, <1>5, CarriedFacts
  <2>2. Due(x[1]) = {<<"laser_q_alert", <<x[1]>>>>}
           \union {<<p, <<x[1], k>>>> : p \in {"prediction_q", "dem_q"}, k \in 1..Cracks[x[1]]}
    BY <1>3, <1>5 DEF Due
  <2>3. <<q, <<x[1], x[2]>>>> \in Due(x[1])
    BY <1>5, <2>1, <2>2
  <2> QED BY <1>1, <2>1, <2>3
<1> QED BY <1>2, <1>4, <1>5

LEMMA PathFacts ==
    ASSUME NEW f \in Frame, NEW o \in Due(f)
    PROVE  /\ Path(o) \subseteq Stage
           /\ f \in LaserFrame => "LaserFanOut" \in Path(o)
           /\ PathQueues(o) \subseteq Queue
           /\ \A m \in Path(o) : Input[m] # o[1] /\ Input[m] \in PathQueues(o)
           /\ o[1] \in PathQueues(o) /\ Beyond(o[1]) = {}
           /\ \A p, q \in PathQueues(o) : p = q \/ p \in Beyond(q) \/ q \in Beyond(p)
           /\ \A p \in PathQueues(o) : Message(o, p)[1] = f
           /\ \A p \in PathQueues(o) : p # o[1] => Message(o, p) = <<f>>
<1>0. /\ o[1] \in {"laser_q_alert", "vibration_q", "prediction_q", "dem_q"} /\ o[2][1] = f
      /\ f \in LaserFrame => o[1] # "vibration_q"
  BY DueFacts, FrameAssumption
<1>1. Path(o) \subseteq Stage /\ (f \in LaserFrame => "LaserFanOut" \in Path(o))
  BY <1>0 DEF Path, Stage
<1>2. \A m \in Path(o) : Input[m] \in Queue /\ Input[m] \notin {"laser_q_alert", "vibration_q", "prediction_q", "dem_q"}
  BY <1>1, InputFacts
<1>3. Beyond(o[1]) = {} /\ o[1] \in Queue
  BY <1>0 DEF Beyond, Queue
<1>4. \A p, q \in PathQueues(o) : p = q \/ p \in Beyond(q) \/ q \in Beyond(p)
  <2>1. CASE o[1] = "vibration_q"
    BY <2>1 DEF PathQueues, Path
  <2>2. CASE o[1] = "laser_q_alert"
    <3>1. PathQueues(o) = {"laser_in", "laser_q_alert"}
      BY <2>2 DEF PathQueues, Path, Input, Stage
    <3> QED BY <3>1 DEF Beyond, Queue
  <2>3. CASE o[1] = "prediction_q"
    <3>1. PathQueues(o) = {"laser_in", "laser_q_router", "crack_in", "crack_q_fatigue", "prediction_q"}
      BY <2>3 DEF PathQueues, Path, Input, Stage
    <3> QED BY <3>1 DEF Beyond, Queue
  <2>4. CASE o[1] = "dem_q"
    <3>1. PathQueues(o) = {"laser_in", "laser_q_router", "crack_in", "crack_q_dem", "dem_q"}
      BY <2>4 DEF PathQueues, Path, Input, Stage
    <3> QED BY <3>1 DEF Beyond, Queue
  <2> QED BY <1>0, <2>1, <2>2, <2>3, <2>4
<1>5. PathQueues(o) \subseteq Queue
  BY <1>2, <1>3 DEF PathQueues
<1>6. \A p : Message(o, p)[1] = f /\ (p # o[1] => Message(o, p) = <<f>>)
  BY <1>0 DEF Message
<1>7. \A m \in Path(o) : Input[m] # o[1] /\ Input[m] \in PathQueues(o)
  BY <1>0, <1>2 DEF PathQueues
<1> QED BY <1>1, <1>3, <1>4, <1>5, <1>6, <1>7 DEF PathQueues

\* What carries an output on is its message in the queue it goes to.
LEMMA CarriesFacts ==
    ASSUME NEW f \in Frame, NEW o \in Due(f), NEW m \in Path(o), NEW out
    PROVE  /\ Carries(m, o, out) => out[1] \in PathQueues(o) /\ out[2] = Message(o, out[1])
           /\ (out = o \/ \E n \in Path(o) : out[1] = Input[n] /\ out[2] = <<o[2][1]>>) => Carries(m, o, out)
<1>1. ASSUME Carries(m, o, out) PROVE out[1] \in PathQueues(o) /\ out[2] = Message(o, out[1])
  <2>1. CASE out = o
    BY <2>1 DEF PathQueues, Message
  <2>2. CASE \E n \in Path(o) : out[1] = Input[n] /\ out[2] = <<o[2][1]>>
    BY <2>2, PathFacts DEF Message
  <2> QED BY <1>1, <2>1, <2>2 DEF Carries
<1> QED BY <1>1 DEF Carries

\* Every module on the path of an output makes something of its frame that
\* carries it on.
LEMMA PathOutputs ==
    ASSUME NEW f \in Frame, NEW o \in Due(f), NEW m \in Path(o), Unwired = {}
    PROVE  \E k \in 1..Len(Outputs(m, <<f>>)) : Carries(m, o, Outputs(m, <<f>>)[k])
<1>0. /\ o = <<o[1], o[2]>> /\ o[2][1] = f
      /\ o[1] \in {"laser_q_alert", "vibration_q", "prediction_q", "dem_q"}
      /\ o[1] \in {"vibration_q", "laser_q_alert"} => o[2] = <<f>>
      /\ o[1] \in {"prediction_q", "dem_q"} => f \in LaserFrame /\ \E k \in 1..Cracks[f] : o[2] = <<f, k>>
  BY DueFacts
<1>1. m \in Stage /\ <<f>>[1] = f
  BY PathFacts
<1>2. ASSUME NEW p, NEW q, Outputs(m, <<f>>) = FanOut(p, q, <<f>>),
             \/ <<p, <<f>>>> = o \/ <<q, <<f>>>> = o
             \/ \E n \in Path(o) : p = Input[n] \/ q = Input[n]
      PROVE  \E k \in 1..Len(Outputs(m, <<f>>)) : Carries(m, o, Outputs(m, <<f>>)[k])
  <2>1. Len(Outputs(m, <<f>>)) = 2 /\ Outputs(m, <<f>>)[1] = <<p, <<f>>>> /\ Outputs(m, <<f>>)[2] = <<q, <<f>>>>
    BY <1>2 DEF FanOut
  <2>2. Carries(m, o, <<p, <<f>>>>) \/ Carries(m, o, <<q, <<f>>>>)
    BY <1>0, <1>2 DEF Carries
  <2> QED BY <2>1, <2>2
<1>3. CASE m = "LaserFanOut"
  <2>1. Outputs(m, <<f>>) = FanOut("laser_q_alert", "laser_q_router", <<f>>)
    BY <1>3 DEF Outputs
  <2>2. CASE o[1] = "laser_q_alert"
    BY <1>0, <1>2, <2>1, <2>2
  <2>3. CASE o[1] \in {"prediction_q", "dem_q"}
    <3>1. "CrackRouter" \in Path(o) /\ Input["CrackRouter"] = "laser_q_router"
      BY <2>3 DEF Path, Input, Stage
    <3> QED BY <1>2, <2>1, <3>1
  <2>4. o[1] # "vibration_q"
    BY DEF Path
  <2> QED BY <1>0, <2>2, <2>3, <2>4
<1>4. CASE m \in {"CrackRouter", "CrackFanOut"}
  <2>1. o[1] \in {"prediction_q", "dem_q"}
    BY <1>0, <1>4 DEF Path
  <2>2. CASE m = "CrackRouter"
    <3>1. Cracks[f] # 0
      BY <1>0, <2>1, CracksAssumption
    <3>2. Outputs(m, <<f>>) = <<<<"crack_in", <<f>>>>>>
      BY <1>1, <2>2, <3>1 DEF Outputs, CrackRouter
    <3>3. "CrackFanOut" \in Path(o) /\ Input["CrackFanOut"] = "crack_in"
      BY <2>1 DEF Path, Input, Stage
    <3>4. Carries(m, o, <<"crack_in", <<f>>>>)
      BY <1>0, <3>3 DEF Carries
    <3>5. Len(Outputs(m, <<f>>)) = 1 /\ Outputs(m, <<f>>)[1] = <<"crack_in", <<f>>>>
      BY <3>2
    <3> QED BY <3>4, <3>5
  <2>3. CASE m = "CrackFanOut"
    <3>1. Outputs(m, <<f>>) = FanOut("crack_q_fatigue", "crack_q_dem", <<f>>)
      BY <2>3 DEF Outputs
    <3>2. \E n \in Path(o) : "crack_q_fatigue" = Input[n] \/ "crack_q_dem" = Input[n]
      BY <2>1 DEF Path, Input, Stage
    <3> QED BY <1>2, <3>1, <3>2
  <2> QED BY <1>4, <2>2, <2>3
<1>5. CASE m \in {"FatiguePredictor", "DemSimulator"}
  <2>1. (m = "FatiguePredictor" /\ o[1] = "prediction_q") \/ (m = "DemSimulator" /\ o[1] = "dem_q")
    BY <1>0, <1>5 DEF Path
  <2>2. PICK k \in 1..Cracks[f] : o[2] = <<f, k>>
    BY <1>0, <2>1
  <2>3. Cracks[f] \in Nat
    BY <1>0, <2>1, CracksAssumption
  <2>4. Outputs(m, <<f>>) = [j \in 1..Cracks[f] |-> <<o[1], <<f, j>>>>]
    BY <1>1, <2>1 DEF Outputs, FatiguePredictor, DemSimulator
  <2>5. Len(Outputs(m, <<f>>)) = Cracks[f] /\ Outputs(m, <<f>>)[k] = <<o[1], <<f, k>>>>
    BY <2>2, <2>3, <2>4
  <2>6. <<o[1], <<f, k>>>> = o
    BY <1>0, <2>2
  <2> QED BY <2>2, <2>5, <2>6 DEF Carries
<1> QED BY <1>1, <1>3, <1>4, <1>5 DEF Stage

\* Where the places of an output are
LEMMA PlaceCases ==
    ASSUME NEW o, NEW pl
    PROVE  pl \in Places(o) <=>
             \/ \E q \in PathQueues(o) : \E i \in 1..Len(queue[q]) :
                  queue[q][i] = Message(o, q) /\ pl = <<q, i>>
             \/ \E m \in Path(o) : pl = m /\ \E out \in Unpushed(m) : Carries(m, o, out)
             \/ \E i \in 1..Len(handled) : handled[i] = o /\ pl = <<"handled", i>>
<1>1. pl \in InQueues(o) <=>
        \E q \in PathQueues(o) : \E i \in 1..Len(queue[q]) :
            queue[q][i] = Message(o, q) /\ pl = <<q, i>>
  BY DEF InQueues
<1>2. pl \in InHands(o) <=>
        \E m \in Path(o) : pl = m /\ \E out \in Unpushed(m) : Carries(m, o, out)
  BY DEF InHands
<1>3. pl \in WhenHandled(o) <=>
        \E i \in 1..Len(handled) : handled[i] = o /\ pl = <<"handled", i>>
  BY DEF WhenHandled
<1> QED BY <1>1, <1>2, <1>3 DEF Places

LEMMA SomewherePlaces ==
    ASSUME NEW o
    PROVE  Places(o) # {} <=> Somewhere(o)
<1>1. ASSUME NEW pl \in Places(o) PROVE Somewhere(o)
  BY PlaceCases DEF Somewhere, Elements
<1>2. ASSUME Somewhere(o) PROVE Places(o) # {}
  <2>1. CASE \E q \in PathQueues(o) : Message(o, q) \in Elements(queue[q])
    <3>1. PICK q \in PathQueues(o) : Message(o, q) \in Elements(queue[q])
      BY <2>1
    <3>2. PICK i \in 1..Len(queue[q]) : queue[q][i] = Message(o, q)
      BY <3>1 DEF Elements
    <3>3. <<q, i>> \in Places(o)
      BY <3>2, PlaceCases
    <3> QED BY <3>3
  <2>2. CASE \E m \in Path(o) : \E out \in Unpushed(m) : Carries(m, o, out)
    BY <2>2, PlaceCases
  <2>3. CASE o \in Elements(handled)
    <3>1. PICK i \in 1..Len(handled) : handled[i] = o
      BY <2>3 DEF Elements
    <3>2. <<"handled", i>> \in Places(o)
      BY <3>1, PlaceCases
    <3> QED BY <3>2
  <2> QED BY <1>2, <2>1, <2>2, <2>3 DEF Somewhere
<1> QED BY <1>1, <1>2

-----------------------------------------------------------------------------
(* In one place at most *)

\* While a module has still to push what carries an output on, the output has
\* got nowhere beyond it.
LEMMA HandFirst ==
    ASSUME TypeOK, OrderInv, NEW f \in Frame, NEW o \in Due(f),
           NEW m \in Path(o), NEW out \in Unpushed(m), Carries(m, o, out),
           NEW q \in PathQueues(o), Message(o, q) \in At(q)
    PROVE  /\ q \notin Beyond(Input[m])
           /\ pc[m] = "process" /\ hand[m] = Message(o, Input[m])
<1>1. /\ m \in Stage /\ q \in Queue /\ Input[m] \in Queue
      /\ Message(o, q)[1] = f /\ Message(o, Input[m]) = <<f>>
  BY PathFacts, InputFacts
<1>2. out[1] \in PathQueues(o) /\ out[2] = Message(o, out[1])
  BY CarriesFacts
<1>3. /\ pc[m] = "process" /\ out[1] \in Pushes(m) /\ out[1] \in Queue /\ out[2][1] = hand[m][1]
      /\ \A x \in At(out[1]) : x # out[2]
      /\ \A p \in Beyond(out[1]) : \A x \in At(p) : x[1] # out[2][1]
  BY <1>1, UnpushedPlace
<1>4. hand[m] = <<f>>
  <2>1. hand[m] = <<hand[m][1]>>
    BY <1>1, <1>3, InHand
  <2>2. out[2][1] = f
    BY <1>2, PathFacts
  <2> QED BY <1>3, <2>1, <2>2
<1>5. q # out[1] /\ q \notin Beyond(out[1])
  <2>1. out[2][1] = f
    BY <1>2, PathFacts
  <2> QED BY <1>1, <1>2, <1>3, <2>1
<1>6. out[1] \in Beyond(q)
  BY <1>2, <1>5, PathFacts
<1>7. q = Input[m] \/ Input[m] \in Beyond(q)
  BY <1>1, <1>3, <1>6, PushesFacts
<1>8. q \notin Beyond(Input[m])
  BY <1>1, <1>7, BeyondFacts
<1> QED BY <1>1, <1>3, <1>4, <1>8

\* Two queues do not both hold an output, nor one of them twice.
LEMMA OneQueue ==
    ASSUME TypeOK, OrderInv, NEW f \in Frame, NEW o \in Due(f),
           NEW q \in PathQueues(o), NEW i \in 1..Len(queue[q]), queue[q][i] = Message(o, q)
    PROVE  /\ \A j \in 1..Len(queue[q]) : queue[q][j] = Message(o, q) => j = i
           /\ \A p \in PathQueues(o) : Message(o, p) \in At(p) => p \notin Beyond(q)
           /\ Message(o, q) \notin Taken(q)
           /\ Message(o, q) \in At(q)
<1>1. q \in Queue /\ Message(o, q)[1] = f /\ \A p \in PathQueues(o) : Message(o, p)[1] = f
  BY PathFacts
<1>2. Message(o, q) \in At(q) /\ Message(o, q) \in Carried(q)
  BY <1>1, AtTyped
<1>3. ~Earlier(accepted, f, f) /\ ~Precedes(accepted, Message(o, q), Message(o, q))
  BY <1>1, <1>2, EarlierStrict DEF OrderInv
<1>4. ASSUME NEW j \in 1..Len(queue[q]), queue[q][j] = Message(o, q) PROVE j = i
  <2>1. Len(queue[q]) \in Nat
    BY <1>1, LenProperties DEF TypeOK
  <2>2. ~(i < j) /\ ~(j < i)
    BY <1>1, <1>3, <1>4 DEF OrderInv, QueueOrder
  <2> QED BY <2>1, <2>2
<1>5. \A p \in PathQueues(o) : Message(o, p) \in At(p) => p \notin Beyond(q)
  BY <1>1, <1>3 DEF OrderInv, QueueOrder
<1>6. Message(o, q) \notin Taken(q)
  BY <1>1, <1>3 DEF OrderInv, QueueOrder
<1> QED BY <1>2, <1>4, <1>5, <1>6

LEMMA HandledAt ==
    ASSUME TypeOK, NEW f \in Frame, NEW o \in Due(f), NEW i \in 1..Len(handled), handled[i] = o
    PROVE  /\ o[1] \in PathQueues(o) /\ Message(o, o[1]) = o[2]
           /\ o[2] \in Taken(o[1]) /\ o[2] \in At(o[1])
  BY PathFacts DEF Message, Taken, At

LEMMA OnePlace ==
    ASSUME TypeOK, OrderInv, NEW f \in Frame, NEW o \in Due(f),
           NEW pl \in Places(o), NEW pm \in Places(o)
    PROVE  pl = pm
<1> DEFINE InQueue(p, q) == \E i \in 1..Len(queue[q]) : queue[q][i] = Message(o, q) /\ p = <<q, i>>
<1> DEFINE InHandOf(m) == \E out \in Unpushed(m) : Carries(m, o, out)
<1> DEFINE IsHandled(p) == \E i \in 1..Len(handled) : handled[i] = o /\ p = <<"handled", i>>
<1>0. /\ Path(o) \subseteq Stage
      /\ \A m \in Path(o) : Input[m] # o[1] /\ Input[m] \in PathQueues(o)
      /\ o[1] \in PathQueues(o) /\ Beyond(o[1]) = {} /\ PathQueues(o) \subseteq Queue
      /\ \A p, q \in PathQueues(o) : p = q \/ p \in Beyond(q) \/ q \in Beyond(p)
  BY PathFacts
<1>1. \A p \in {pl, pm} :
        \/ \E q \in PathQueues(o) : InQueue(p, q)
        \/ \E m \in Path(o) : p = m /\ InHandOf(m)
        \/ IsHandled(p)
  BY PlaceCases
<1>2. ASSUME NEW q \in PathQueues(o), NEW x, InQueue(x, q)
      PROVE  /\ \A y \in PathQueues(o) : Message(o, y) \in At(y) => y \notin Beyond(q)
             /\ \A y : InQueue(y, q) => y = x
             /\ Message(o, q) \notin Taken(q) /\ Message(o, q) \in At(q)
  BY <1>2, OneQueue
<1>3. ASSUME NEW m \in Path(o), InHandOf(m)
      PROVE  /\ \A y \in PathQueues(o) : Message(o, y) \in At(y) => y \notin Beyond(Input[m])
             /\ Message(o, Input[m]) \in Taken(Input[m]) /\ Message(o, Input[m]) \in At(Input[m])
  <2>1. PICK out \in Unpushed(m) : Carries(m, o, out)
    BY <1>3
  <2>2. m \in Stage
    BY <1>0
  <2>3. pc[m] = "process" /\ hand[m] \in Taken(Input[m]) /\ hand[m] \in At(Input[m])
    BY <2>1, <2>2, InHand DEF Unpushed
  <2>4. hand[m] = Message(o, Input[m])
    <3>1. hand[m] = <<hand[m][1]>> /\ out[2][1] = hand[m][1]
      BY <2>1, <2>2, <2>3, InHand, UnpushedPlace
    <3>2. out[2] = Message(o, out[1]) /\ out[1] \in PathQueues(o)
      BY <2>1, CarriesFacts
    <3>3. out[2][1] = f /\ Message(o, Input[m]) = <<f>>
      BY <1>0, <3>2, PathFacts
    <3> QED BY <3>1, <3>3
  <2>5. \A y \in PathQueues(o) : Message(o, y) \in At(y) => y \notin Beyond(Input[m])
    BY <2>1, HandFirst
  <2> QED BY <2>3, <2>4, <2>5
<1>4. ASSUME NEW x, IsHandled(x)
      PROVE  /\ Message(o, o[1]) \in Taken(o[1]) /\ Message(o, o[1]) \in At(o[1])
             /\ \A y : IsHandled(y) => y = x
  <2>1. PICK i \in 1..Len(handled) : handled[i] = o /\ x = <<"handled", i>>
    BY <1>4
  <2>2. ASSUME NEW y, IsHandled(y) PROVE y = x
    <3>1. PICK j \in 1..Len(handled) : handled[j] = o /\ y = <<"handled", j>>
      BY <2>2
    <3>2. Len(handled) \in Nat
      BY LenProperties DEF TypeOK
    <3>3. ~Precedes(accepted, o[2], o[2])
      BY DueFacts, EarlierStrict DEF OrderInv
    <3>4. ~(i < j) /\ ~(j < i)
      BY <2>1, <3>1, <3>3 DEF OrderInv, HandledOrder
    <3> QED BY <2>1, <3>1, <3>2, <3>4
  <2> QED BY <2>1, <2>2, HandledAt
<1> HIDE DEF InQueue, InHandOf, IsHandled
<1>5. ASSUME NEW x, NEW y, NEW q \in PathQueues(o), InQueue(x, q), NEW p \in PathQueues(o), InQueue(y, p)
      PROVE  x = y
  <2>1. q \notin Beyond(p) /\ p \notin Beyond(q)
    BY <1>2, <1>5
  <2>2. p = q
    BY <1>0, <2>1
  <2> QED BY <1>2, <1>5, <2>2
<1>6. ASSUME NEW x, NEW q \in PathQueues(o), InQueue(x, q), NEW m \in Path(o), InHandOf(m)
      PROVE  FALSE
  <2>1. q \notin Beyond(Input[m]) /\ Input[m] \notin Beyond(q)
    BY <1>0, <1>2, <1>3, <1>6
  <2>2. q = Input[m]
    BY <1>0, <2>1
  <2> QED BY <1>2, <1>3, <1>6, <2>2
<1>7. ASSUME NEW x, NEW q \in PathQueues(o), InQueue(x, q), NEW y, IsHandled(y)
      PROVE  FALSE
  <2>1. o[1] \notin Beyond(q)
    BY <1>0, <1>2, <1>4, <1>7
  <2>2. q = o[1]
    BY <1>0, <2>1
  <2> QED BY <1>2, <1>4, <1>7, <2>2
<1>8. ASSUME NEW m \in Path(o), InHandOf(m), NEW n \in Path(o), InHandOf(n)
      PROVE  m = n
  <2>1. Input[n] \notin Beyond(Input[m]) /\ Input[m] \notin Beyond(Input[n])
    BY <1>0, <1>3, <1>8
  <2>2. Input[m] = Input[n]
    BY <1>0, <2>1
  <2> QED BY <1>0, <2>2, InputFacts
<1>9. ASSUME NEW m \in Path(o), InHandOf(m), NEW y, IsHandled(y)
      PROVE  FALSE
  <2>1. o[1] \notin Beyond(Input[m])
    BY <1>0, <1>3, <1>4, <1>9
  <2> QED BY <1>0, <2>1
<1>10. \A x, y : IsHandled(x) /\ IsHandled(y) => x = y
  BY <1>4
<1> QED BY <1>1, <1>5, <1>6, <1>7, <1>8, <1>9, <1>10

\* What was given up is nowhere.
LEMMA GivenUpNowhere ==
    ASSUME TypeOK, OrderInv, NEW f \in Frame, NEW o \in Due(f), GivenUp(o)
    PROVE  Places(o) = {}
<1>0. /\ Path(o) \subseteq Stage
      /\ \A m \in Path(o) : Input[m] # o[1] /\ Input[m] \in PathQueues(o)
      /\ o[1] \in PathQueues(o) /\ Beyond(o[1]) = {} /\ PathQueues(o) \subseteq Queue
      /\ \A p, q \in PathQueues(o) : p = q \/ p \in Beyond(q) \/ q \in Beyond(p)
      /\ \A q \in PathQueues(o) : Message(o, q)[1] = f
  BY PathFacts
<1>1. PICK out \in abandoned : out = o \/ \E n \in Path(o) : out[1] = Input[n] /\ out[2] = <<o[2][1]>>
  BY DEF GivenUp
<1> DEFINE g == out[1]
<1>2. g \in PathQueues(o) /\ out[2] = Message(o, g)
  <2>1. CASE out = o
    BY <2>1 DEF PathQueues, Message
  <2>2. CASE \E n \in Path(o) : out[1] = Input[n] /\ out[2] = <<o[2][1]>>
    BY <1>0, <2>2 DEF PathQueues, Message
  <2> QED BY <1>1, <2>1, <2>2
<1>3. out = <<out[1], out[2]>> /\ out[2] \in Carried(g)
  BY <1>1, OutputIntro DEF TypeOK
<1>4. Message(o, g) \in GivenUpAt(g)
  BY <1>1, <1>2, <1>3 DEF GivenUpAt
<1> HIDE DEF g
<1>5. /\ Message(o, g) \in At(g) /\ Message(o, g)[1] = f
      /\ Message(o, g) \notin Elements(queue[g]) \union Taken(g)
      /\ \A p \in Beyond(g) : \A y \in At(p) : y[1] # f
  BY <1>0, <1>2, <1>4, AtTyped DEF OrderInv, AbandonedApart
<1>6. ASSUME NEW q \in PathQueues(o), NEW i \in 1..Len(queue[q]), queue[q][i] = Message(o, q) PROVE FALSE
  <2>1. g \notin Beyond(q) /\ Message(o, q) \in At(q)
    BY <1>2, <1>5, <1>6, OneQueue
  <2>2. q \notin Beyond(g)
    BY <1>0, <1>5, <2>1
  <2>3. q = g
    BY <1>0, <1>2, <2>1, <2>2
  <2> QED BY <1>5, <1>6, <2>3 DEF Elements
<1>7. ASSUME NEW m \in Path(o), NEW o2 \in Unpushed(m), Carries(m, o, o2) PROVE FALSE
  <2>1. g \notin Beyond(Input[m]) /\ pc[m] = "process" /\ hand[m] = Message(o, Input[m])
    BY <1>2, <1>5, <1>7, HandFirst
  <2>2. hand[m] \in Taken(Input[m]) /\ hand[m] \in At(Input[m])
    BY <1>0, <2>1, InHand
  <2>3. Input[m] \notin Beyond(g)
    BY <1>0, <1>5, <2>1, <2>2
  <2>4. g = Input[m]
    BY <1>0, <1>2, <2>1, <2>3
  <2> QED BY <1>5, <2>1, <2>2, <2>4
<1>8. ASSUME NEW i \in 1..Len(handled), handled[i] = o PROVE FALSE
  <2>1. Message(o, o[1]) = o[2] /\ o[2] \in Taken(o[1]) /\ o[2] \in At(o[1])
    BY <1>8, HandledAt
  <2>2. o[1] \notin Beyond(g)
    BY <1>0, <1>5, <2>1
  <2>3. g = o[1]
    BY <1>0, <1>2, <2>2
  <2> QED BY <1>5, <2>1, <2>3
<1> QED BY <1>6, <1>7, <1>8, PlaceCases

-----------------------------------------------------------------------------
(* ... and in one, unless it was given up *)

\* It is enough that every step keeps an output that is somewhere so.
LEMMA NothingLostStep ==
    ASSUME TypeOK, NothingLost, crashed' = crashed, accepted' = accepted,
           abandoned \subseteq abandoned',
           \A f \in Frame : \A o \in Due(f) :
              ~GivenUp(o) /\ Somewhere(o) /\ Unwired = {} => GivenUp(o)' \/ Somewhere(o)'
    PROVE  NothingLost'
<1>1. Elements(accepted) \subseteq Frame
  BY ElementOfSeq DEF Elements, TypeOK
<1>2. \A o : GivenUp(o) => GivenUp(o)'
  BY DEF GivenUp
<1> QED BY <1>1, <1>2 DEF NothingLost
\* A step that moves nothing keeps every output where it is.
LEMMA StaysSomewhere ==
    ASSUME NEW f \in Frame, NEW o \in Due(f), Somewhere(o),
           \A q \in Queue : Elements(queue[q]) \subseteq Elements(queue'[q]),
           \A m \in Stage : Unpushed(m) \subseteq Unpushed(m)',
           Elements(handled) \subseteq Elements(handled')
    PROVE  Somewhere(o)'
<1>1. PathQueues(o) \subseteq Queue /\ Path(o) \subseteq Stage
  BY PathFacts
<1> QED BY <1>1 DEF Somewhere

LEMMA NothingLostQuiet ==
    ASSUME TypeOK, NothingLost,
           UNCHANGED <<queue, emitted, accepted, handled, abandoned, crashed>>,
           \A m \in Stage : pc[m] = "process" => Unpushed(m) = {} \/ (pc'[m] = pc[m] /\ hand'[m] = hand[m])
    PROVE  NothingLost'
<1>1. \A m \in Stage : Unpushed(m) \subseteq Unpushed(m)'
  BY DEF Unpushed
<1>2. ASSUME NEW f \in Frame, NEW o \in Due(f), Somewhere(o) PROVE Somewhere(o)'
  BY <1>1, <1>2, StaysSomewhere
<1> QED BY <1>2, NothingLostStep

LEMMA QuietKeepsHands ==
    ASSUME TypeOK, StopInv,
           \/ \E m \in Stage : Processed(m)
           \/ TryNext \/ StartAll \/ StopModule \/ JoinModule \/ FinishStop
           \/ \E m \in Module : Exit(m)
           \/ UNCHANGED vars
    PROVE  /\ UNCHANGED <<queue, emitted, accepted, handled, abandoned, crashed>>
           /\ \A m \in Stage : pc[m] = "process" => Unpushed(m) = {} \/ (pc'[m] = pc[m] /\ hand'[m] = hand[m])
<1>0. /\ pc \in [Module -> {"off", "poll", "process", "blocked", "exited"}] /\ hand \in [Module -> HandMessage]
      /\ \A n \in Stage : n \in Module /\ n # "AlertWs"
  BY DEF TypeOK, Module, HandMessage, Stage
<1>1. ASSUME NEW m \in Stage, Processed(m)
      PROVE  /\ UNCHANGED <<queue, emitted, accepted, handled, abandoned, crashed>>
             /\ \A n \in Stage : pc[n] = "process" => Unpushed(n) = {} \/ (pc'[n] = pc[n] /\ hand'[n] = hand[n])
  <2>1. emitted[m] = Len(Outputs(m, hand[m])) /\ pc[m] = "process"
    BY <1>1 DEF Processed
  <2>2. Len(Outputs(m, hand[m])) \in Nat
    BY <2>1, UnpushedFacts
  <2>3. (emitted[m] + 1)..Len(Outputs(m, hand[m])) = {}
    BY <2>1, <2>2
  <2>4. Unpushed(m) = {}
    BY <2>3 DEF Unpushed
  <2>5. \A n \in Stage : n # m => pc'[n] = pc[n] /\ hand'[n] = hand[n]
    BY <1>0, <1>1 DEF Processed, Loop
  <2>6. UNCHANGED <<queue, emitted, accepted, handled, abandoned, crashed>>
    BY <1>1 DEF Processed
  <2> QED BY <2>4, <2>5, <2>6
<1>2. CASE TryNext
  BY <1>0, <1>2 DEF TryNext, Loop
<1>3. CASE StartAll
  BY <1>0, <1>3 DEF StartAll, StopInv
<1>4. ASSUME NEW n \in Module, Exit(n)
      PROVE  /\ UNCHANGED <<queue, emitted, accepted, handled, abandoned, crashed>>
             /\ \A m \in Stage : pc[m] = "process" => pc'[m] = pc[m] /\ hand'[m] = hand[m]
  BY <1>0, <1>4 DEF Exit
<1>5. CASE StopModule \/ JoinModule \/ FinishStop \/ UNCHANGED vars
  BY <1>5 DEF StopModule, JoinModule, FinishStop, StopAlerts, MissNotify, JoinThreads, vars, threadVars
<1> QED BY <1>1, <1>2, <1>3, <1>4, <1>5

\* Popping takes a message from a queue, and its module has all it makes of it
\* still to push.
LEMMA NothingLostPop ==
    ASSUME TypeOK, NothingLost, NEW m \in Stage, Pop(m) PROVE NothingLost'
<1> DEFINE q == Input[m]
<1> DEFINE h == Head(queue[q])
<1>1. /\ pc[m] = "poll" /\ queue[q] # <<>>
      /\ hand' = [hand EXCEPT ![m] = h] /\ queue' = [queue EXCEPT ![q] = Tail(@)]
      /\ emitted' = [emitted EXCEPT ![m] = 0] /\ pc' = [pc EXCEPT ![m] = "process"]
      /\ UNCHANGED <<accepted, handled, abandoned, crashed>>
  BY DEF Pop
<1>2. q \in Queue /\ m \in Module
  BY InputFacts DEF Module
<1> HIDE DEF q
<1>3. /\ hand \in [Module -> HandMessage] /\ emitted \in [Module -> Nat]
      /\ pc \in [Module -> {"off", "poll", "process", "blocked", "exited"}]
      /\ DOMAIN queue = Queue /\ \A p \in Queue : queue[p] \in Seq(Carried(p))
  BY DEF TypeOK, HandMessage
<1>4. /\ \A p \in Queue : p # q => queue'[p] = queue[p]
      /\ queue'[q] = Tail(queue[q])
  BY <1>1, <1>2, <1>3, TakeTyped
<1>5. Elements(queue[q]) = Elements(queue'[q]) \union {h}
  BY <1>1, <1>2, <1>3, <1>4, ElementsTail
<1> HIDE DEF h
<1>6. /\ hand'[m] = h /\ emitted'[m] = 0 /\ pc'[m] = "process"
      /\ \A n \in Stage : n # m => hand'[n] = hand[n] /\ emitted'[n] = emitted[n] /\ pc'[n] = pc[n]
  BY <1>1, <1>2, <1>3 DEF Module
<1>7. Unpushed(m)' = {Outputs(m, h)[k] : k \in 1..Len(Outputs(m, h))}
  BY <1>6 DEF Unpushed
<1>8. \A n \in Stage : Unpushed(n) \subseteq Unpushed(n)'
  BY <1>1, <1>6 DEF Unpushed
<1>9. ASSUME NEW f \in Frame, NEW o \in Due(f), Somewhere(o), Unwired = {} PROVE Somewhere(o)'
  <2>0. /\ PathQueues(o) \subseteq Queue /\ Path(o) \subseteq Stage
        /\ \A n \in Path(o) : Input[n] # o[1]
        /\ \A p \in PathQueues(o) : p # o[1] => Message(o, p) = <<f>>
    BY PathFacts
  <2>1. CASE \E p \in PathQueues(o) : Message(o, p) \in Elements(queue[p])
    <3>1. PICK p \in PathQueues(o) : Message(o, p) \in Elements(queue[p])
      BY <2>1
    <3>2. CASE p # q \/ Message(o, p) # h
      <4>1. Message(o, p) \in Elements(queue'[p])
        BY <1>4, <1>5, <2>0, <3>1, <3>2
      <4> QED BY <3>1, <4>1 DEF Somewhere
    <3>3. CASE p = q /\ Message(o, p) = h
      <4>1. q \in {"laser_in", "laser_q_router", "crack_in", "crack_q_fatigue", "crack_q_dem"}
        BY InputFacts DEF q, Input, Stage
      <4>2. m \in Path(o) /\ q # o[1]
        <5>1. q # o[1]
          BY <4>1, DueFacts
        <5>2. PICK n \in Path(o) : q = Input[n]
          BY <3>1, <3>3, <5>1 DEF PathQueues
        <5>3. n = m
          BY <2>0, <5>2, InputFacts DEF q
        <5> QED BY <5>1, <5>3
      <4>3. h = <<f>>
        BY <2>0, <3>1, <3>3, <4>2
      <4>4. PICK k \in 1..Len(Outputs(m, h)) : Carries(m, o, Outputs(m, h)[k])
        BY <1>9, <4>2, <4>3, PathOutputs
      <4> QED BY <1>7, <4>2, <4>4 DEF Somewhere
    <3> QED BY <3>2, <3>3
  <2>2. CASE \E n \in Path(o) : \E out \in Unpushed(n) : Carries(n, o, out)
    BY <1>8, <2>0, <2>2 DEF Somewhere
  <2>3. CASE o \in Elements(handled)
    BY <1>1, <2>3 DEF Somewhere
  <2> QED BY <1>9, <2>1, <2>2, <2>3 DEF Somewhere
<1> QED BY <1>1, <1>9, NothingLostStep
\* What carries an output on is pushed into a queue on its way.
LEMMA NothingLostEmit ==
    ASSUME TypeOK, OrderInv, NothingLost, NEW m \in Stage, Emit(m) PROVE NothingLost'
<1> DEFINE out == Outputs(m, hand[m])[emitted[m] + 1]
<1>1. /\ pc[m] = "process" /\ emitted[m] < Len(Outputs(m, hand[m]))
      /\ queue' = [queue EXCEPT ![out[1]] = Append(@, out[2])]
      /\ emitted' = [emitted EXCEPT ![m] = @ + 1]
      /\ UNCHANGED <<pc, hand, accepted, handled, abandoned, crashed>>
  BY DEF Emit
<1>2. /\ emitted \in [Module -> Nat] /\ m \in Module /\ \A n \in Stage : n \in Module
      /\ DOMAIN queue = Queue /\ \A p \in Queue : queue[p] \in Seq(Carried(p))
  BY DEF TypeOK, Module
<1>3. /\ emitted[m] \in Nat /\ Len(Outputs(m, hand[m])) \in Nat
      /\ emitted[m] + 1 \in (emitted[m] + 1)..Len(Outputs(m, hand[m]))
  BY <1>1, UnpushedFacts
<1>4. out \in Unpushed(m)
  BY <1>1, <1>3 DEF Unpushed
<1>5. ASSUME NEW n \in Stage, NEW o \in Unpushed(n), o \notin Unpushed(n)' PROVE n = m /\ o = out
  <2>1. CASE n # m
    <3>1. emitted'[n] = emitted[n]
      BY <1>1, <1>2, <2>1
    <3>2. Unpushed(n)' = Unpushed(n)
      BY <1>1, <3>1 DEF Unpushed
    <3> QED BY <1>5, <3>2
  <2>2. CASE n = m
    <3>1. emitted'[m] = emitted[m] + 1
      BY <1>1, <1>2
    <3>2. PICK k \in (emitted[m] + 1)..Len(Outputs(m, hand[m])) : o = Outputs(m, hand[m])[k]
      BY <1>1, <2>2 DEF Unpushed
    <3>3. CASE k = emitted[m] + 1
      BY <2>2, <3>2, <3>3
    <3>4. CASE k # emitted[m] + 1
      <4>1. k \in (emitted'[m] + 1)..Len(Outputs(m, hand[m]))
        BY <1>3, <3>1, <3>4
      <4>2. o \in Unpushed(m)'
        BY <1>1, <3>2, <4>1 DEF Unpushed
      <4> QED BY <1>5, <2>2, <4>2
    <3> QED BY <3>3, <3>4
  <2> QED BY <2>1, <2>2
<1> HIDE DEF out
<1>6. out[1] \in Queue /\ out[2] \in Carried(out[1])
  BY <1>4, UnpushedPlace
<1>7. /\ \A p \in Queue : p # out[1] => queue'[p] = queue[p]
      /\ queue'[out[1]] = Append(queue[out[1]], out[2]) /\ queue[out[1]] \in Seq(Carried(out[1]))
  BY <1>1, <1>2, <1>6, PushTyped
<1>8. /\ \A p \in Queue : Elements(queue[p]) \subseteq Elements(queue'[p])
      /\ out[2] \in Elements(queue'[out[1]])
  <2>1. Elements(queue'[out[1]]) = Elements(queue[out[1]]) \union {out[2]}
    BY <1>6, <1>7, ElementsAppend
  <2> QED BY <1>7, <2>1
<1>9. ASSUME NEW f \in Frame, NEW o \in Due(f), Somewhere(o) PROVE Somewhere(o)'
  <2>0. PathQueues(o) \subseteq Queue /\ Path(o) \subseteq Stage
    BY PathFacts
  <2>1. CASE \E q \in PathQueues(o) : Message(o, q) \in Elements(queue[q])
    BY <1>8, <2>0, <2>1 DEF Somewhere
  <2>2. ASSUME NEW n \in Path(o), NEW c \in Unpushed(n), Carries(n, o, c) PROVE Somewhere(o)'
    <3>1. CASE c \in Unpushed(n)'
      BY <2>2, <3>1 DEF Somewhere
    <3>2. CASE c \notin Unpushed(n)'
      <4>1. c = out
        BY <1>5, <2>0, <3>2
      <4>2. out[1] \in PathQueues(o) /\ out[2] = Message(o, out[1])
        BY <2>2, <4>1, CarriesFacts
      <4> QED BY <1>8, <4>2 DEF Somewhere
    <3> QED BY <3>1, <3>2
  <2>3. CASE o \in Elements(handled)
    BY <1>1, <2>3 DEF Somewhere
  <2> QED BY <1>9, <2>1, <2>2, <2>3 DEF Somewhere
<1> QED BY <1>1, <1>9, NothingLostStep

\* What a module does not push because it throws is given up.
LEMMA NothingLostThrows ==
    ASSUME TypeOK, NothingLost, NEW m \in Stage, Throws(m) PROVE NothingLost'
<1>1. /\ Loop(m) /\ hand' = [hand EXCEPT ![m] = NoMessage]
      /\ abandoned' = abandoned \union Unpushed(m)
      /\ UNCHANGED <<queue, emitted, accepted, handled, crashed>>
  BY DEF Throws, Unpushed
<1>2. /\ hand \in [Module -> HandMessage] /\ \A n \in Stage : n \in Module
      /\ pc \in [Module -> {"off", "poll", "process", "blocked", "exited"}]
  BY DEF TypeOK, Module, HandMessage
<1>3. \A n \in Stage : n # m => Unpushed(n)' = Unpushed(n)
  BY <1>1, <1>2 DEF Unpushed, Loop
<1>4. ASSUME NEW f \in Frame, NEW o \in Due(f), Somewhere(o) PROVE GivenUp(o)' \/ Somewhere(o)'
  <2>0. Path(o) \subseteq Stage
    BY PathFacts
  <2>1. CASE (\E q \in PathQueues(o) : Message(o, q) \in Elements(queue[q])) \/ o \in Elements(handled)
    BY <1>1, <2>1 DEF Somewhere
  <2>2. ASSUME NEW n \in Path(o), NEW c \in Unpushed(n), Carries(n, o, c) PROVE GivenUp(o)' \/ Somewhere(o)'
    <3>1. CASE n # m
      BY <1>3, <2>0, <2>2, <3>1 DEF Somewhere
    <3>2. CASE n = m
      <4>1. c \in abandoned'
        BY <1>1, <3>2
      <4>2. GivenUp(o)'
        BY <2>2, <4>1 DEF GivenUp, Carries
      <4> QED BY <4>2
    <3> QED BY <3>1, <3>2
  <2> QED BY <1>4, <2>1, <2>2 DEF Somewhere
<1> QED BY <1>1, <1>4, NothingLostStep

\* What AlertWsModule takes from its inputs, it handles.
LEMMA NothingLostHandles ==
    ASSUME TypeOK, NothingLost, HandleMessage PROVE NothingLost'
<1> DEFINE q == AlertInput[trying]
<1> DEFINE h == Head(queue[q])
<1>1. /\ queue[q] # <<>>
      /\ handled' = Append(handled, <<q, h>>) /\ queue' = [queue EXCEPT ![q] = Tail(@)]
      /\ \E v \in {"poll", "blocked", "exited"} : pc' = [pc EXCEPT !["AlertWs"] = v]
      /\ UNCHANGED <<hand, emitted, accepted, abandoned, crashed>>
  BY AfterHandlerFacts DEF HandleMessage
<1>2. q \in {"laser_q_alert", "vibration_q", "prediction_q", "dem_q"} /\ q \in Queue
  BY AlertInputFacts DEF TypeOK
<1> HIDE DEF q
<1>3. /\ DOMAIN queue = Queue /\ \A p \in Queue : queue[p] \in Seq(Carried(p))
      /\ pc \in [Module -> {"off", "poll", "process", "blocked", "exited"}]
      /\ \A n \in Stage : n \in Module /\ n # "AlertWs"
  BY DEF TypeOK, Module, Stage
<1>4. /\ \A p \in Queue : p # q => queue'[p] = queue[p]
      /\ queue'[q] = Tail(queue[q]) /\ h \in Carried(q)
  BY <1>1, <1>2, <1>3, TakeTyped
<1>5. Elements(queue[q]) = Elements(queue'[q]) \union {h}
  BY <1>1, <1>2, <1>3, <1>4, ElementsTail
<1> HIDE DEF h
<1>6. \A n \in Stage : Unpushed(n)' = Unpushed(n)
  BY <1>1, <1>3 DEF Unpushed
<1>7. Elements(handled') = Elements(handled) \union {<<q, h>>}
  <2>1. handled \in Seq(HandledOutput)
    BY DEF TypeOK, HandledOutput
  <2>2. <<q, h>> \in HandledOutput
    <3>1. \E i \in 1..Len(AlertInput) : q = AlertInput[i]
      BY DEF q, TypeOK
    <3>2. <<q, h>> \in Output
      BY <1>2, <1>4, OutputIntro
    <3> QED BY <3>1, <3>2 DEF HandledOutput
  <2> QED BY <1>1, <2>1, <2>2, ElementsAppend
<1>8. ASSUME NEW f \in Frame, NEW o \in Due(f), Somewhere(o) PROVE Somewhere(o)'
  <2>0. /\ PathQueues(o) \subseteq Queue /\ Path(o) \subseteq Stage
        /\ o = <<o[1], o[2]>>
    BY PathFacts, DueFacts
  <2>1. CASE \E p \in PathQueues(o) : Message(o, p) \in Elements(queue[p])
    <3>1. PICK p \in PathQueues(o) : Message(o, p) \in Elements(queue[p])
      BY <2>1
    <3>2. CASE p # q \/ Message(o, p) # h
      <4>1. Message(o, p) \in Elements(queue'[p])
        BY <1>4, <1>5, <2>0, <3>1, <3>2
      <4> QED BY <3>1, <4>1 DEF Somewhere
    <3>3. CASE p = q /\ Message(o, p) = h
      <4>1. q = o[1]
        BY <1>2, <2>0, <3>1, <3>3, InputFacts DEF PathQueues
      <4>2. o = <<q, h>>
        BY <2>0, <3>3, <4>1 DEF Message
      <4> QED BY <1>7, <4>2 DEF Somewhere
    <3> QED BY <3>2, <3>3
  <2>2. CASE \E n \in Path(o) : \E out \in Unpushed(n) : Carries(n, o, out)
    BY <1>6, <2>0, <2>2 DEF Somewhere
  <2>3. CASE o \in Elements(handled)
    BY <1>7, <2>3 DEF Somewhere
  <2> QED BY <1>8, <2>1, <2>2, <2>3 DEF Somewhere
<1> QED BY <1>1, <1>8, NothingLostStep

\* A callback puts all that its frame makes due at the start of its way.
LEMMA NothingLostAccepts ==
    ASSUME TypeOK, NothingLost,
           (\E f \in LaserFrame : LaserCallback(f)) \/ \E f \in VibrationFrame : VibrationCallback(f)
    PROVE  NothingLost'
<1> SUFFICES ASSUME ~crashed', Unwired = {}, NEW f \in Elements(accepted'), NEW o \in Due(f)
             PROVE  GivenUp(o)' \/ Somewhere(o)'
  BY DEF NothingLost
<1>1. PICK q \in {"laser_in", "vibration_q"}, g \in Frame :
        /\ Accept(g) /\ <<g>> \in Carried(q)
        /\ q = "vibration_q" => g \in VibrationFrame
        /\ q = "laser_in" => g \in LaserFrame
        /\ queue' = [queue EXCEPT ![q] = Append(@, <<g>>)]
  <2>1. \A l \in LaserFrame : l \in Frame /\ <<l>> \in Carried("laser_in")
    BY CarriedIntro DEF Frame, Queue
  <2>2. \A v \in VibrationFrame : v \in Frame /\ <<v>> \in Carried("vibration_q")
    BY DEF Frame, Carried
  <2>3. \A l \in LaserFrame : LaserCallback(l) =>
          Accept(l) /\ queue' = [queue EXCEPT !["laser_in"] = Append(@, <<l>>)]
    BY DEF LaserCallback
  <2>4. \A v \in VibrationFrame : VibrationCallback(v) =>
          Accept(v) /\ queue' = [queue EXCEPT !["vibration_q"] = Append(@, <<v>>)]
    BY DEF VibrationCallback
  <2> QED BY <2>1, <2>2, <2>3, <2>4
<1>2. /\ accepted' = Append(accepted, g) /\ ~crashed
      /\ UNCHANGED <<pc, hand, emitted, handled, abandoned>>
  BY <1>1 DEF Accept, threadVars
<1>3. /\ accepted \in Seq(Frame) /\ q \in Queue
      /\ DOMAIN queue = Queue /\ \A p \in Queue : queue[p] \in Seq(Carried(p))
  BY <1>1 DEF TypeOK, Queue
<1>4. Elements(accepted') = Elements(accepted) \union {g}
  BY <1>2, <1>3, ElementsAppend
<1>5. /\ \A p \in Queue : p # q => queue'[p] = queue[p]
      /\ queue'[q] = Append(queue[q], <<g>>) /\ queue[q] \in Seq(Carried(q))
  BY <1>1, <1>3, PushTyped
<1>6. /\ \A p \in Queue : Elements(queue[p]) \subseteq Elements(queue'[p])
      /\ <<g>> \in Elements(queue'[q])
  BY <1>1, <1>3, <1>5, ElementsAppend
<1>7. CASE f \in Elements(accepted)
  <2>1. f \in Frame
    BY <1>3, <1>7, ElementOfSeq DEF Elements
  <2>2. GivenUp(o) \/ Somewhere(o)
    BY <1>2, <1>7 DEF NothingLost
  <2>3. CASE GivenUp(o)
    BY <1>2, <2>3 DEF GivenUp
  <2>4. CASE Somewhere(o)
    <3>1. \A m \in Stage : Unpushed(m)' = Unpushed(m)
      BY <1>2 DEF Unpushed
    <3> QED BY <1>2, <1>6, <2>1, <2>4, <3>1, StaysSomewhere
  <2> QED BY <2>2, <2>3, <2>4
<1>8. CASE f = g
  <2>1. q \in PathQueues(o) /\ Message(o, q) = <<f>>
    <3>1. CASE q = "vibration_q"
      <4>1. o = <<"vibration_q", <<f>>>>
        BY <1>1, <1>8, <3>1 DEF Due
      <4>2. o[1] = "vibration_q" /\ o[2] = <<f>>
        BY <4>1
      <4> QED BY <3>1, <4>2 DEF PathQueues, Message
    <3>2. CASE q = "laser_in"
      <4>1. "LaserFanOut" \in Path(o) /\ Input["LaserFanOut"] = "laser_in"
        BY <1>1, <1>8, <3>2, PathFacts DEF Input, Stage
      <4> QED BY <1>8, <3>2, <4>1, PathFacts
    <3> QED BY <3>1, <3>2
  <2> QED BY <1>6, <1>8, <2>1 DEF Somewhere
<1> QED BY <1>4, <1>7, <1>8

LEMMA NothingLostInit == Init => NothingLost
  BY DEF Init, NothingLost, Elements

LEMMA NothingLostNext ==
    ASSUME TypeOK, StopInv, OrderInv, NothingLost, [Next]_vars PROVE NothingLost'
<1>1. ASSUME NEW m \in Stage, StageStep(m) PROVE NothingLost'
  BY <1>1, NothingLostPop, NothingLostEmit, NothingLostThrows, QuietKeepsHands, NothingLostQuiet DEF StageStep
<1> QED BY <1>1, NextCases, NothingLostHandles, QuietKeepsHands, NothingLostQuiet, NothingLostAccepts
-----------------------------------------------------------------------------
(* The theorems *)

\* The conjunction of all of it is an invariant: what travels is typed and in
\* order, nothing gets lost, and stop() goes through the modules in order.
THEOREM Invariance == Spec => []IInv
<1>1. Init => IInv
  BY TypeInit, StopInit, OrderInit, NothingLostInit DEF IInv
<1>2. IInv /\ [Next]_vars => IInv'
  BY TypeNext, StopNext, OrderNext, NothingLostNext DEF IInv
<1> QED BY <1>1, <1>2, PTL DEF Spec

\* Every queue only ever holds messages of its kind, and every thread is at a
\* place of its loop.
THEOREM TypeCorrect == Spec => []TypeOK
<1>1. IInv => TypeOK
  BY DEF IInv
<1> QED BY <1>1, Invariance, PTL

\* MonitorServer::stop: the modules it is past are gone, and those further
\* down run.
THEOREM StopsInOrder == Spec => []StoppedInOrder
<1>1. IInv => StoppedInOrder
  BY DEF IInv
<1> QED BY <1>1, Invariance, PTL

\* wire_pipeline, ModuleBase::run_loop and AlertWsModule: an output that is due
\* is in exactly one place, for any number of frames and cracks and wherever
\* process() may throw.
THEOREM OnePlaceEach == Spec => []ExactlyOnePlace
<1>1. IInv => ExactlyOnePlace
  <2> SUFFICES ASSUME IInv, ~crashed, Unwired = {}, NEW f \in Elements(accepted), NEW o \in Due(f)
               PROVE  Cardinality(Places(o)) = IF GivenUp(o) THEN 0 ELSE 1
    BY DEF ExactlyOnePlace
  <2>1. f \in Frame
    BY ElementOfSeq DEF Elements, IInv, TypeOK
  <2>2. CASE GivenUp(o)
    <3>1. Places(o) = {}
      BY <2>1, <2>2, GivenUpNowhere DEF IInv
    <3> QED BY <2>2, <3>1, FS_EmptySet
  <2>3. CASE ~GivenUp(o)
    <3>1. Places(o) # {}
      BY <2>3, SomewherePlaces DEF IInv, NothingLost
    <3>2. PICK pl : pl \in Places(o)
      BY <3>1
    <3>3. Places(o) = {pl}
      BY <2>1, <3>2, OnePlace DEF IInv
    <3>4. Cardinality({pl}) = 1
      BY FS_Singleton
    <3> QED BY <2>3, <3>3, <3>4
  <2> QED BY <2>2, <2>3
<1> QED BY <1>1, Invariance, PTL
-----------------------------------------------------------------------------
(* The pipeline implements the service *)

\* A frame is at one position, so that the service's order is the pipeline's.
LEMMA PrecedesIsBefore ==
    ASSUME TypeOK, AcceptedOnce, NEW x, NEW y, Precedes(accepted, x, y)
    PROVE  Service!Before(x, y)
<1>1. Len(accepted) \in Nat
  BY LenProperties DEF TypeOK
<1>2. ASSUME NEW i \in 1..Len(accepted) PROVE Service!Position(accepted[i]) = i
  <2>1. \A j \in 1..Len(accepted) : accepted[j] = accepted[i] => j = i
    BY DEF AcceptedOnce
  <2> QED BY <2>1 DEF Service!Position
<1>3. CASE Earlier(accepted, x[1], y[1])
  <2>1. PICK i, j \in 1..Len(accepted) : i < j /\ accepted[i] = x[1] /\ accepted[j] = y[1]
    BY <1>3 DEF Earlier
  <2>2. Service!Position(x[1]) = i /\ Service!Position(y[1]) = j
    BY <1>2, <2>1
  <2> QED BY <2>1, <2>2 DEF Service!Before
<1>4. CASE x[1] = y[1] /\ Len(x) = 2 /\ x[2] < y[2]
  BY <1>4 DEF Service!Before
<1> QED BY <1>3, <1>4 DEF Precedes

\* Every output is handled as the service prescribes, ...
LEMMA HandlesAsServed ==
    ASSUME IInv, HandleMessage PROVE Service!Next
<1> DEFINE q == AlertInput[trying]
<1> DEFINE h == Head(queue[q])
<1>0. TypeOK /\ OrderInv
  BY DEF IInv
<1>1. queue[q] # <<>> /\ handled' = Append(handled, <<q, h>>) /\ accepted' = accepted
  BY DEF HandleMessage
<1>2. q \in {"laser_q_alert", "vibration_q", "prediction_q", "dem_q"} /\ q \in Queue
  BY <1>0, AlertInputFacts DEF TypeOK
<1> HIDE DEF q
<1>3. queue[q] \in Seq(Carried(q))
  BY <1>0, <1>2 DEF TypeOK
<1>4. h = queue[q][1] /\ 1 \in 1..Len(queue[q])
  BY <1>1, <1>3, HeadTailProperties, EmptySeq, LenProperties
<1> HIDE DEF h
<1>5. h \in At(q) /\ h \in Carried(q)
  BY <1>0, <1>2, <1>4, AtTyped
<1>6. h[1] \in Frame /\ <<q, h>> \in Due(h[1])
  BY <1>2, <1>5, DueIntro
<1>7. PICK a \in 1..Len(accepted) : accepted[a] = h[1]
  BY <1>0, <1>2, <1>5 DEF OrderInv, AcceptedOnce, Elements
<1>8. ASSUME NEW i \in 1..Len(handled), handled[i][1] = q PROVE Service!Before(handled[i][2], h)
  <2>1. handled[i][2] \in Taken(q)
    BY <1>8 DEF Taken
  <2>2. Precedes(accepted, handled[i][2], h)
    BY <1>0, <1>2, <1>4, <2>1 DEF OrderInv, QueueOrder
  <2> QED BY <1>0, <2>2, PrecedesIsBefore DEF OrderInv
<1>9. <<q, h>>[1] = q /\ <<q, h>>[2] = h
  OBVIOUS
<1>10. Service!Handle(<<q, h>>)
  BY <1>1, <1>6, <1>7, <1>8, <1>9 DEF Service!Handle
<1> QED BY <1>6, <1>10 DEF Service!Next

\* ... a callback accepts a frame, and no other step shows outside.
LEMMA StepIsServed ==
    ASSUME IInv, [Next]_vars PROVE [Service!Next]_(Service!vars)
<1>1. ASSUME NEW f \in Frame, Accept(f) PROVE Service!Next
  <2>1. /\ \A i \in 1..Len(accepted) : accepted[i] # f
        /\ accepted' = Append(accepted, f) /\ handled' = handled
    BY <1>1 DEF Accept
  <2>2. Service!Accept(f)
    BY <2>1 DEF Service!Accept
  <2> QED BY <2>2 DEF Service!Next
<1>2. CASE (\E f \in LaserFrame : LaserCallback(f)) \/ \E f \in VibrationFrame : VibrationCallback(f)
  <2>1. \E f \in Frame : Accept(f)
    BY <1>2 DEF LaserCallback, VibrationCallback, Frame
  <2> QED BY <1>1, <2>1
<1>3. ASSUME NEW m \in Stage, StageStep(m) PROVE UNCHANGED <<accepted, handled>>
  BY <1>3 DEF StageStep, Pop, Emit, Processed, Throws
<1>4. ASSUME \/ TryNext \/ StartAll \/ StopModule \/ JoinModule \/ FinishStop
             \/ \E m \in Module : Exit(m)
             \/ UNCHANGED vars
      PROVE  UNCHANGED <<accepted, handled>>
  BY <1>4 DEF TryNext, StartAll, StopModule, JoinModule, FinishStop, StopAlerts, MissNotify,
                   JoinThreads, Exit, vars
<1>5. UNCHANGED <<accepted, handled>> => UNCHANGED Service!vars
  BY DEF Service!vars
<1> QED BY <1>2, <1>3, <1>4, <1>5, NextCases, HandlesAsServed

\* AlertWsModule's loop at the end of wire_pipeline's queues: what accepted
\* frames make due is handled, nothing twice and each kind in its order,
\* although every frame is copied by fan-outs and travels through threads that
\* know nothing of each other.
THEOREM PipelineImplementsService == Spec => ImplementsService
<1>1. Init => Service!Init
  BY DEF Init, Service!Init
<1>2. IInv /\ [Next]_vars => [Service!Next]_(Service!vars)
  BY StepIsServed
<1> QED BY <1>1, <1>2, Invariance, PTL DEF Spec, ImplementsService, Service!Spec

=============================================================================
