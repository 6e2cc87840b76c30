-------------------------- MODULE CrackPropagation --------------------------
(***************************************************************************)
(* CrackPropagationModel::predict (backend/algorithms/                     *)
(* crack_propagation.cpp): the loop over the time steps with its early     *)
(* end, and what is read from the curve afterwards.  Lengths are in        *)
(* micrometres, stresses in 0.1 MPa, times in hours/time_steps.            *)
(***************************************************************************)
EXTENDS Integers, Sequences

CONSTANTS
    Crack,       \* CrackInfo::total_length of the cracks; 0 or less if it is not known
    time_steps   \* 100, as all callers have it

PredictAssumption ==
    /\ Crack \subseteq Int
    /\ time_steps \in Nat \ {0}

\* ParisLawParameters, which no caller changes; the calibration factor is 1.
maximum_stress == 250
minimum_stress == 25
residual_stress_parallel == -350
residual_stress_perpendicular == -200

\* (fracture_toughness / maximum_stress)^2 / pi, rounded up
critical_crack_length == 510

Sign(s) == IF s < 0 THEN -1 ELSE 1

\* calculate_effective_stress for the angle 0
EffectiveStress(s) == s + (4 * residual_stress_parallel) \div 10

\* calculate_stress_intensity without its factor, the root of the length,
\* which is positive and the same for both stresses
Intensity(s) ==
    s + Sign(s) * ((residual_stress_parallel + residual_stress_perpendicular) \div 2)
      + (3 * residual_stress_parallel) \div 10

\* Negative: the stress on the crack is compressive after the corrections.
DeltaK == Intensity(EffectiveStress(maximum_stress)) - Intensity(EffectiveStress(minimum_stress))

\* calculate_crack_growth_rate, and so what a turn adds: nothing unless
\* delta_K > 0; any growth is taken for 1.
Growth == IF DeltaK > 0 THEN 1 ELSE 0

VARIABLES
    horizon,     \* time_horizon_hours
    initial,     \* a0
    i,           \* the step of the loop
    a,           \* the length now
    time_hours,  \* the curve: times ...
    crack_length, \* ... and lengths
    time_to_failure,      \* time_to_failure_hours, in its unit; -1 if not set
    predicted,   \* which point of the curve is predicted_length_720h
    risk_level,
    phase        \* "idle", "loop", "read", "done", "killed" (the process, by a division)

vars == <<horizon, initial, i, a, time_hours, crack_length, time_to_failure, predicted, risk_level,
          phase>>

Init ==
    /\ horizon = 0
    /\ initial = 0
    /\ i = 0
    /\ a = 0
    /\ time_hours = <<>>
    /\ crack_length = <<>>
    /\ time_to_failure = -1
    /\ predicted = 0
    /\ risk_level = "LOW"
    /\ phase = "idle"

\* predict(crack, h): by FatiguePredictorModule with the configured horizon,
\* by the handler of POST /api/cracks/<id>/predict with 720
Begin(h, length) ==
    /\ phase = "idle"
    /\ horizon' = h
    /\ initial' = IF length > 0 THEN length ELSE 1000
    /\ a' = initial'
    /\ phase' = "loop"
    /\ UNCHANGED <<i, time_hours, crack_length, time_to_failure, predicted, risk_level>>

Record ==
    /\ time_hours' = Append(time_hours, i * horizon)
    /\ crack_length' = Append(crack_length, a)

\* One turn of the loop that is not the last
Step ==
    /\ phase = "loop"
    /\ i < time_steps
    /\ a + Growth < critical_crack_length
    /\ Record
    /\ a' = a + Growth
    /\ i' = i + 1
    /\ UNCHANGED <<horizon, initial, time_to_failure, predicted, risk_level, phase>>

\* break: the crack is critical, at the time with which this turn began
Fails ==
    /\ phase = "loop"
    /\ i < time_steps
    /\ a + Growth >= critical_crack_length
    /\ Record
    /\ a' = a + Growth
    /\ time_to_failure' = i * horizon
    /\ phase' = "read"
    /\ UNCHANGED <<horizon, initial, i, predicted, risk_level>>

LastStep ==
    /\ phase = "loop"
    /\ i = time_steps
    /\ Record
    /\ phase' = "read"
    /\ UNCHANGED <<horizon, initial, i, a, time_to_failure, predicted, risk_level>>

\* estimate_remaining_life gives up after the first hour without growth.
RemainingLife == IF initial >= critical_crack_length THEN 0 ELSE time_steps

\* assess_risk_level; every growth is taken for a fast one.
RiskLevel(ttf) ==
    CASE ttf > 0 /\ ttf < 720 * time_steps -> "CRITICAL"
      [] Growth > 0 -> "HIGH"
      [] OTHER -> "NEGLIGIBLE"

\* 720 * time_steps / time_horizon_hours, which C++ rounds towards 0
Quotient(n) == IF horizon > 0 THEN n \div horizon ELSE -(n \div (-horizon))
Lesser(x, y) == IF x < y THEN x ELSE y

\* Mutant: the index is not compared with the size of the curve.
ForecastUnchecked ==
    /\ phase = "read"
    /\ horizon # 0
    /\ predicted' = 1 + Lesser(time_steps, Quotient(720 * time_steps))
    /\ time_to_failure' = IF time_to_failure < 0 THEN RemainingLife ELSE time_to_failure
    /\ risk_level' = RiskLevel(time_to_failure')
    /\ phase' = "done"
    /\ UNCHANGED <<horizon, initial, i, a, time_hours, crack_length>>

\* The point for 720 hours: by its index, or the last if the curve is shorter.
\* As a size_t, a negative index is larger than every size.
Forecast ==
    /\ phase = "read"
    /\ horizon # 0
    /\ LET idx_720 == Lesser(time_steps, Quotient(720 * time_steps)) IN
        predicted' = IF idx_720 >= 0 /\ idx_720 < Len(crack_length)
                     THEN idx_720 + 1 ELSE Len(crack_length)
    /\ time_to_failure' = IF time_to_failure < 0 THEN RemainingLife ELSE time_to_failure
    /\ risk_level' = RiskLevel(time_to_failure')
    /\ phase' = "done"
    /\ UNCHANGED <<horizon, initial, i, a, time_hours, crack_length>>

\* ... and for a horizon of 0 a division by it
Divides ==
    /\ phase = "read"
    /\ horizon = 0
    /\ phase' = "killed"
    /\ UNCHANGED <<horizon, initial, i, a, time_hours, crack_length, time_to_failure, predicted,
                   risk_level>>

Next == Step \/ Fails \/ LastStep \/ Forecast \/ Divides

-----------------------------------------------------------------------------
(* Properties *)

TypeOK ==
    /\ horizon \in Int /\ initial \in Int /\ a \in Int
    /\ i \in 0..time_steps
    /\ time_hours \in Seq(Int) /\ crack_length \in Seq(Int)
    /\ time_to_failure \in Int /\ predicted \in Int
    /\ risk_level \in {"LOW", "CRITICAL", "HIGH", "NEGLIGIBLE"}
    /\ phase \in {"idle", "loop", "read", "done", "killed"}

InTime(k) == time_hours[k] <= 720 * time_steps

(* Whatever horizon is configured and wherever the curve ends, the length  *)
(* that is stored as the one in 720 hours (http_server.cpp l.152,          *)
(* fatigue_predictor_module.h l.46) is the last point of the curve not     *)
(* after 720 hours; a failure that is announced lies within the curve or   *)
(* was estimated for a crack that is not critical; and only a horizon of 0 *)
(* ends the process.                                                       *)
ForecastAt720 ==
    /\ phase = "killed" => horizon = 0
    /\ phase = "done" =>
        /\ predicted \in 1..Len(crack_length)
        /\ horizon > 0 =>
            /\ InTime(predicted)
            /\ predicted < Len(crack_length) => ~InTime(predicted + 1)
        /\ initial < critical_crack_length => time_to_failure > 0

-----------------------------------------------------------------------------
(* The inductive invariant: the curve has a point for each turn of the     *)
(* loop, at its time, and only a crack that was critical ends it early.    *)

CurveInv ==
    /\ Len(crack_length) = Len(time_hours)
    /\ \A k \in 1..Len(time_hours) : time_hours[k] = (k - 1) * horizon
    /\ phase \in {"idle", "loop"} => Len(time_hours) = i /\ time_to_failure = -1
    /\ phase = "loop" => a = initial
    /\ phase = "read" => Len(time_hours) = i + 1
    /\ phase = "read" /\ initial < critical_crack_length => time_to_failure = -1
    /\ phase = "idle" => i = 0

IInv == TypeOK /\ CurveInv /\ ForecastAt720

=============================================================================
