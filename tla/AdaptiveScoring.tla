-------------------------- MODULE AdaptiveScoring --------------------------
(***************************************************************************)
(* What the scoring package learns: the adaptive multipliers of            *)
(* RiskScoringEngine and the violation history of ClassificationEngine     *)
(* (packages/scoring/src), with the operations through which               *)
(* HumanOverrideInterface and ThresholdOptimizationEngine change them.     *)
(*                                                                         *)
(* A number is a multiple of 1/Scale; a product or a quotient is cut off   *)
(* towards zero, where the code computes with doubles.                     *)
(***************************************************************************)
EXTENDS Integers, Sequences

CONSTANT HistoryWindow   \* historyWindowSize of ClassificationEngine

ASSUME HistoryWindowAssumption == HistoryWindow \in Nat \ {0}

VARIABLES multipliers,       \* adaptiveMultipliers of RiskScoringEngine
          violationHistory   \* violationHistory of ClassificationEngine

Scale == 10000

RiskDimension ==
    {"operationalRisk", "regulatoryExposure", "financialCost", "reputationalImpact",
     "cooperativeSystemStability", "predictedComplianceProbability", "simulationImpact",
     "opportunityCostProjection", "strategicMisalignment"}

Neutral == [d \in RiskDimension |-> Scale]

Clamp(value, low, high) ==
    IF value \in low .. high THEN value
    ELSE IF value < low /\ low <= high THEN low ELSE high

Clamp01(value) == Clamp(value, 0, Scale)

Quotient(a, b) == IF a < 0 THEN -((-a) \div b) ELSE a \div b

\* The product of two numbers.
Part(a, b) == Quotient(a * b, Scale)

\* The last n elements of s, as slice(-n).
Newest(s, n) == IF Len(s) > n THEN SubSeq(s, Len(s) - n + 1, Len(s)) ELSE s

\* The lowest and the highest value of a multiplier.
MinMultiplier == 5000
MaxMultiplier == 25000

Multiplier == MinMultiplier .. MaxMultiplier

ClampMultiplier(value) == Clamp(value, MinMultiplier, MaxMultiplier)

\* applyAdaptiveMultiplierDeltas; a dimension without a delta has delta 0.
ApplyDeltas(m, deltas, learningRate) ==
    LET lr == Clamp(learningRate, 100, 5000)
    IN  [d \in RiskDimension |-> ClampMultiplier(m[d] + Part(deltas[d], lr))]

\* updateCalibrationFromFeedback.  outcome holds complianceObserved,
\* stabilityIncident and costOverrunRatio.
Calibrate(m, predictedCompliance, outcome, learningRate) ==
    LET lr == Clamp(learningRate, 50, 2000)
        error == Clamp(outcome.complianceObserved, 0, Scale) - predictedCompliance
        change ==
            [d \in RiskDimension |->
                CASE d = "regulatoryExposure" -> Part(-error, lr)
                  [] d = "operationalRisk" -> Part(Part(-error, lr), 7000)
                  [] d = "cooperativeSystemStability" /\ outcome.stabilityIncident -> lr
                  [] d = "reputationalImpact" /\ outcome.stabilityIncident -> Part(lr, 6000)
                  [] d = "financialCost" /\ outcome.costOverrunRatio > Scale ->
                        Clamp(Part(outcome.costOverrunRatio - Scale, lr), 0, 2500)
                  [] d = "predictedComplianceProbability"
                        /\ error > 1000 /\ ~outcome.stabilityIncident -> -Part(lr, 4000)
                  [] OTHER -> 0]
    IN  [d \in RiskDimension |-> ClampMultiplier(m[d] + change[d])]

Outcome == [violated : BOOLEAN, severity : 0 .. Scale]

\* recordOutcome, for a sequence of outcomes.
RecordOutcomes(outcomes) ==
    violationHistory' = Newest(violationHistory \o outcomes, HistoryWindow)

AdaptiveTypeOK ==
    /\ multipliers \in [RiskDimension -> Multiplier]
    /\ violationHistory \in Seq(Outcome) /\ Len(violationHistory) <= HistoryWindow

AdaptiveInit == multipliers = Neutral /\ violationHistory = <<>>
=============================================================================
