----------------------------- MODULE MCPipeline -----------------------------
(* Small instances of Pipeline for TLC.                                    *)
EXTENDS Pipeline

CONSTANTS l1, l2, v1

\* Crack counts of the laser frames of an instance.
OneCrack == [f \in {l1} |-> 1]
OneEach == [f \in {l1, l2} |-> 1]

\* main.cpp as it is: nobody calls set_input on the two fan-outs.
AsBuilt == {"LaserFanOut", "CrackFanOut"}
\* The pipeline the banner draws.
AsDrawn == {}

NoThrow == {}
\* process() runs out of memory between the two pushes of a fan-out, or in the
\* prediction of a crack.
FanOutThrows == {"CrackFanOut"}
PredictorThrows == {"FatiguePredictor"}

NoFrame == {}
\* Payloads that are not UTF-8: with two connections, the second frame that is
\* handled takes the last one.
BothBroken == {l1, v1}
=============================================================================
