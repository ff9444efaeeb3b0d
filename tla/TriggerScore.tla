---------------------------- MODULE TriggerScore ----------------------------
(***************************************************************************)
(* How observations become a trigger score, and a score a vault state:     *)
(* score and should_alert of beacon-core, evaluate of scheduler.rs.        *)
(*                                                                         *)
(* Contributions and weights are percentages, so a product of the two is a *)
(* number of ten-thousandths.  The score is the square root of a sum of    *)
(* squares clamped to 1: it is compared by comparing squares, with         *)
(* thresholds of at most 1.  Rounding of f32 is left out.                  *)
(***************************************************************************)
EXTENDS Integers, FiniteSets

CONSTANTS
  Weight,      \* Weight[s]: weight of the enabled subscription to source s
  Threshold,   \* trigger_threshold
  MinClasses,  \* min_independent_signals
  MaxGap       \* heartbeat_max_gap_seconds

Source == {"HEARTBEAT", "CDR", "APPLE", "GOOGLE", "MICROSOFT", "CALENDAR", "EMAIL",
           "BUDDY", "GUARDIAN", "DEATH_REGISTRY", "SENTINEL"}

ASSUME ScoreAssumption ==
  /\ DOMAIN Weight \subseteq Source
  /\ \A s \in DOMAIN Weight : Weight[s] \in 0..100
  /\ Threshold \in 1..100
  /\ MinClasses \in Nat \ {0}
  /\ MaxGap \in Nat \ {0}

DefaultWeight ==
  [s \in Source |->
     CASE s = "HEARTBEAT" -> 30 [] s = "CDR" -> 25 [] s = "APPLE" -> 18
       [] s \in {"GOOGLE", "MICROSOFT"} -> 15 [] s \in {"CALENDAR", "EMAIL"} -> 10
       [] s = "BUDDY" -> 20 [] s = "GUARDIAN" -> 40 [] s = "DEATH_REGISTRY" -> 60
       [] s = "SENTINEL" -> 5]

IndependenceClass(s) ==
  CASE s \in {"CALENDAR", "EMAIL"} -> "social_meta"
    [] s \in {"BUDDY", "GUARDIAN"} -> "human_attestation"
    [] OTHER -> s

\* score: observations are a function from the sources observed to their
\* contributions.  The sum over the sources is written out, since the provers
\* cannot reason about a fold over a set.
Squared(obs, s) ==
  IF s \in DOMAIN obs THEN (Weight[s] * obs[s]) * (Weight[s] * obs[s]) ELSE 0

SumOfSquares(obs) ==
  Squared(obs, "HEARTBEAT") + Squared(obs, "CDR") + Squared(obs, "APPLE")
    + Squared(obs, "GOOGLE") + Squared(obs, "MICROSOFT") + Squared(obs, "CALENDAR")
    + Squared(obs, "EMAIL") + Squared(obs, "BUDDY") + Squared(obs, "GUARDIAN")
    + Squared(obs, "DEATH_REGISTRY") + Squared(obs, "SENTINEL")

ScoreAtLeast(obs, tenThousandths) ==
  SumOfSquares(obs) >= tenThousandths * tenThousandths

IndependentClasses(obs) ==
  Cardinality({IndependenceClass(s) : s \in {t \in DOMAIN obs : obs[t] >= 20}})

\* A bug: the number of classes is not looked at.
ShouldAlert_ScoreOnly(obs) == ScoreAtLeast(obs, Threshold * 100)

ShouldAlert(obs) ==
  ScoreAtLeast(obs, Threshold * 100) /\ IndependentClasses(obs) >= MinClasses

SoftThreshold(obs) ==
  ScoreAtLeast(obs, Threshold * 50) /\ IndependentClasses(obs) >= 1

\* A bug: an alert is dropped when the full threshold is met again.
Evaluate_AlertFlips(current, obs) ==
  CASE current \in {"ACTIVE", "SUSPICIOUS"} /\ ShouldAlert(obs) -> "ALERT"
    [] current = "ACTIVE" /\ SoftThreshold(obs) /\ ~ShouldAlert(obs) -> "SUSPICIOUS"
    [] current = "SUSPICIOUS" /\ ~ScoreAtLeast(obs, 1000) /\ ~ShouldAlert(obs) -> "ACTIVE"
    [] current = "ALERT" /\ ShouldAlert(obs) -> "SUSPICIOUS"
    [] OTHER -> current

\* evaluate: the arms are tried from the first to the last.
Evaluate(current, obs) ==
  CASE current \in {"ACTIVE", "SUSPICIOUS"} /\ ShouldAlert(obs) -> "ALERT"
    [] current = "ACTIVE" /\ SoftThreshold(obs) /\ ~ShouldAlert(obs) -> "SUSPICIOUS"
    [] current = "SUSPICIOUS" /\ ~ScoreAtLeast(obs, 1000) /\ ~ShouldAlert(obs) -> "ACTIVE"
    [] current = "ALERT" /\ SoftThreshold(obs) -> "COOLING_OFF"
    [] current = "ALERT" /\ ~SoftThreshold(obs) -> "SUSPICIOUS"
    [] OTHER -> current

\* Staleness of the last attestation: from 0 to 1 over heartbeat_max_gap_seconds.
Staleness(elapsed) == IF elapsed >= MaxGap THEN 100 ELSE (elapsed * 100) \div MaxGap

=============================================================================
