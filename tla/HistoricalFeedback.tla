------------------------- MODULE HistoricalFeedback -------------------------
(***************************************************************************)
(* HistoricalFeedbackIntegrator (packages/scoring/src): what was predicted *)
(* against what was realized, applied to the multipliers of scoring, to    *)
(* the assumptions of the simulation and to the biases of the compliance   *)
(* estimator.                                                              *)
(*                                                                         *)
(* A record holds the type of the action and two functions, predicted and  *)
(* realized, from the measures it has to their values.                     *)
(***************************************************************************)
EXTENDS ActionEvaluation

CONSTANTS MaxFeedback,        \* maxHistorySize
          MinimumSampleSize,  \* minimumSampleSize
          WeightLearningRate,      \* of the multipliers of scoring
          SimulationLearningRate,  \* of the assumptions of the simulation
          ComplianceLearningRate   \* of the biases of the compliance estimator

ASSUME FeedbackAssumption ==
    /\ MaxFeedback \in Nat \ {0} /\ MinimumSampleSize \in Nat
    /\ {WeightLearningRate, SimulationLearningRate, ComplianceLearningRate} \subseteq 0 .. Scale

VARIABLE feedback             \* history

SimulationMeasure == {"taskImpact", "synergy", "trust", "intelligenceEvolution"}

Measure == {"score", "overall"} \cup Stage \cup SimulationMeasure

\* HistoricalFeedbackRecord: each side holds some of the measures.
IsFeedbackRecord(record) ==
    /\ record.actionType \in ActionTypes
    /\ \A side \in {record.predicted, record.realized} :
          DOMAIN side \subseteq Measure /\ \A k \in DOMAIN side : side[k] \in Int

Error(record, k) ==
    LET bounded(x) == IF k \in SimulationMeasure THEN x ELSE Clamp01(x)
    IN  bounded(record.realized[k]) - bounded(record.predicted[k])

\* The errors in a measure, by the positions of the records that hold it on both sides.
Errors(records, k) ==
    LET complete == {i \in DOMAIN records :
                        k \in DOMAIN records[i].predicted \cap DOMAIN records[i].realized}
    IN  [i \in complete |-> Error(records[i], k)]

\* mean
Mean(values) ==
    IF DOMAIN values = {} THEN 0
    ELSE Quotient(SumFunction(values), Cardinality(DOMAIN values))

\* stdDev
StdDev(values) ==
    LET mean == Mean(values)
        squares == [i \in DOMAIN values |-> (values[i] - mean) * (values[i] - mean)]
        n == Cardinality(DOMAIN values)
    IN  IF n <= 1 THEN 0 ELSE SquareRoot(SumFunction(squares) \div n)

\* computeSimulationErrors and the means of the score and of compliance
MeanErrors(records) == [k \in Measure |-> Mean(Errors(records, k))]

\* Mutant: predicted minus realized.
StageDeltas_Reversed(error) == [s \in Stage |-> Clamp(-error[s], -2500, 2500)]

\* computeStageBias
StageDeltas(error) == [s \in Stage |-> Clamp(error[s], -2500, 2500)]

\* computeActionTypeViolationDeltas
ViolationDeltas(records) ==
    LET error == Errors(records, "overall")
        OfType(t) == {i \in DOMAIN error : records[i].actionType = t}
    IN  [t \in ActionTypes |->
            Clamp(-Part(Mean(Restrict(error, OfType(t))), 8000), -2500, 2500)]

\* deriveWeightDeltas
WeightDeltas(error) ==
    LET over == Clamp01(-error["score"])
        under == Clamp01(error["score"])
        compliance == Clamp01(-error["overall"])
        simulation == Clamp01(Part(Magnitude(error["taskImpact"]), 4000)
                              + Part(Magnitude(error["synergy"]), 2000)
                              + Part(Magnitude(error["trust"]), 2000)
                              + Part(Magnitude(error["intelligenceEvolution"]), 2000))
    IN  [operationalRisk |-> Part(over, 9000) - Part(under, 4000),
         regulatoryExposure |-> Part(over, 8000) + Part(compliance, 11000) - Part(under, 3000),
         financialCost |-> Part(over, 2500) - Part(under, 1500),
         reputationalImpact |-> Part(over, 5000) + Part(compliance, 4000),
         cooperativeSystemStability |-> Part(over, 7000) + Part(simulation, 4000),
         predictedComplianceProbability |-> Part(compliance, 12000) - Part(under, 2000),
         simulationImpact |-> Part(simulation, 9000) - Part(under, 2000),
         opportunityCostProjection |-> Part(under, 4000) - Part(over, 6000),
         strategicMisalignment |-> Part(over, 3500) - Part(under, 2000)]

\* Mutant: exact predictions add to the noise.
AssumptionDeltas_Noisy(error, uncertainty) ==
    [k \in Assumption |-> IF k = "noiseAmplitude" THEN Part(1200 - uncertainty, 5000)
                          ELSE IF k = "trustBase" THEN Part(error["trust"], 3500) ELSE 0]

\* deriveSimulationAssumptionDeltas
AssumptionDeltas(error, uncertainty) ==
    [taskCriticalityWeight |-> Part(error["taskImpact"], 5000),
     taskIntentClarityWeight |-> Part(error["taskImpact"], 2500),
     excessiveResourcePenalty |-> -Part(error["taskImpact"], 4000),
     synergyPermissionWeight |-> Part(error["synergy"], 3000),
     synergyLayerWeight |-> Part(error["synergy"], 3500),
     trustBase |-> Part(error["trust"], 3500),
     trustPolicyExposurePenaltyWeight |-> -Part(error["trust"], 3000),
     intelligenceSynergyWeight |-> Part(error["intelligenceEvolution"], 3000),
     intelligenceStabilityWeight |-> Part(error["intelligenceEvolution"], 2500),
     impactfulPermissionBoost |-> Part(error["intelligenceEvolution"], 2500),
     noiseAmplitude |-> Part(uncertainty - 1200, 5000)]

\* deriveDriftBiasDelta
DriftDelta(error, stages) ==
    Clamp(-Part(error["overall"], 6000) - Part(stages["persistence"], 4000), -2500, 2500)

\* What a history teaches: the deltas integrate derives from it.
Lesson(sample) ==
    LET error == MeanErrors(sample)
        stages == StageDeltas(error)
        uncertainty == Clamp(StdDev(Errors(sample, "score")), 0, 4000)
    IN  [weights |-> WeightDeltas(error), stages |-> stages, types |-> ViolationDeltas(sample),
         assumptions |-> AssumptionDeltas(error, uncertainty),
         drift |-> DriftDelta(error, stages)]

\* Mutant: the history is not trimmed.
Joined_Untrimmed(records) == feedback \o records

\* The history once the records have joined it.
Joined(records) == Newest(feedback \o records, MaxFeedback)

\* integrate: the records join the history and, once it is long enough, the
\* whole of it is applied again.
Integrate(records) ==
    LET lesson == Lesson(Joined(records))
    IN  /\ records # <<>>
        /\ feedback' = Joined(records)
        /\ IF Len(Joined(records)) < MinimumSampleSize
           THEN UNCHANGED <<multipliers, learnedVars>>
           ELSE /\ multipliers' = ApplyDeltas(multipliers, lesson.weights, WeightLearningRate)
                /\ assumptions' = AdjustedAssumptions(lesson.assumptions, SimulationLearningRate)
                /\ ApplyHistoricalCalibration(lesson.stages, lesson.types, lesson.drift,
                                              ComplianceLearningRate)
=============================================================================
