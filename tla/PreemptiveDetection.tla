------------------------ MODULE PreemptiveDetection ------------------------
(***************************************************************************)
(* PreemptiveDetectionLayer (packages/scoring/src): outcomes of earlier    *)
(* decisions, grouped by what the decisions had in common, lift the risk   *)
(* of the next decision that looks the same.                               *)
(*                                                                         *)
(* patternMap is computed anew from the whole history after every outcome  *)
(* and at no other time; here it is that function of the history.          *)
(***************************************************************************)
EXTENDS AdaptiveScoring, FiniteSets, Functions

CONSTANTS MaxOutcomes,   \* maxHistorySize
          MinSamples     \* minSamplesForActivation

ASSUME PreemptiveAssumption == MaxOutcomes \in Nat \ {0} /\ MinSamples \in Nat \ {0}

VARIABLE outcomes        \* history: the profile of a decision and how it went

MinFailureRate == 4500
MaxRiskLift == 3500
ReviewLift == 1400
BlockLift == 3000

\* getExposureBand
ExposureBand(policyExposure) ==
    LET levels == [i \in DOMAIN policyExposure |-> Clamp01(policyExposure[i].exposureLevel)]
        average == SumFunction(levels) \div Len(policyExposure)
    IN  IF policyExposure = <<>> \/ average < 3300 THEN "LOW"
        ELSE IF average < 6600 THEN "MEDIUM" ELSE "HIGH"

\* What the six signatures of a profile look at.
SignatureFields ==
    {{"action"}, {"action", "layer"}, {"action", "agent"}, {"action", "permissions"},
     {"action", "layer", "agent"}, {"action", "exposure"}}

\* getSignaturesForDecision and getSignaturesForRecord
Signatures(profile) == {[f \in F |-> profile[f]] : F \in SignatureFields}

\* Mutant: the weights of the two kinds of failure are exchanged.
FailureSignal_Exchanged(event) ==
    (IF event.complianceFailure THEN 3500 ELSE 0) + (IF event.downstreamFailure THEN 6500 ELSE 0)

FailureSignal(event) ==
    (IF event.complianceFailure THEN 6500 ELSE 0) + (IF event.downstreamFailure THEN 3500 ELSE 0)

\* computeRiskLift
RiskLift(sampleSize, failureRate, severity) ==
    IF sampleSize < MinSamples \/ failureRate < MinFailureRate THEN 0
    ELSE LET confidence == Clamp01((sampleSize * Scale) \div (MinSamples + 4))
         IN  Part(Clamp01(Part(failureRate, 6500) + Part(severity, 2500) + Part(confidence, 1000)),
                  MaxRiskLift)

\* recomputePatterns, for one signature
PatternLift(signature) ==
    LET events == {i \in DOMAIN outcomes : signature \in Signatures(outcomes[i].profile)}
        failures == SumFunction([i \in events |-> FailureSignal(outcomes[i])])
        severity == SumFunction([i \in events |->
                                    Part(FailureSignal(outcomes[i]), outcomes[i].severity)])
    IN  IF failures = 0 THEN 0
        ELSE RiskLift(Cardinality(events), failures \div Cardinality(events),
                      (severity * Scale) \div failures)

\* assess: the strongest of the patterns that match, 0 if none does
Assess(profile) ==
    LET lifts == {PatternLift(s) : s \in Signatures(profile)}
    IN  CHOOSE lift \in lifts : \A other \in lifts : lift >= other

\* recordDecisionOutcome, through recordOutcome
RecordDownstream(event) ==
    outcomes' = Newest(Append(outcomes, [event EXCEPT !.severity = Clamp01(@)]), MaxOutcomes)
=============================================================================
