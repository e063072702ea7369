------------------------------ MODULE RiskScore ------------------------------
(***************************************************************************)
(* RiskScoringEngine.scoreDecision (packages/scoring/src): nine dimension  *)
(* scores, weights recalibrated from the context, the system state and the *)
(* multipliers of AdaptiveScoring, and the composite risk pressure.        *)
(*                                                                         *)
(* Every quantity between 0 and 1 is a multiple of 1/Scale; money is in    *)
(* cents, bandwidth in hundredths of a megabit per second.                 *)
(***************************************************************************)
EXTENDS AdaptiveScoring, FiniteSets, SequencesExt

\* x out of whole, at most one.
Fraction(x, whole) == IF x >= whole THEN Scale ELSE (x * Scale) \div whole

\* A number between -1 and 1 as one between 0 and 1.
Halved(x) == (x + Scale) \div 2

CriticalityFactor == [HIGH |-> Scale, MEDIUM |-> 6000, LOW |-> 3000]

OperationalRisk(decision, system) ==
    LET pressure ==
            SumFunction([i \in DOMAIN decision.requiredResources |->
                            Part(CriticalityFactor[decision.requiredResources[i].criticality],
                                 Fraction(decision.requiredResources[i].amount, 1000))])
        resourceRisk == Clamp01(Part(decision.computationalCostScore, 7000)
                                + Part(Fraction(decision.bandwidthUtilization, 10000), 3000))
    IN  Clamp01(Part(pressure, 3500)
                + Part(Fraction(Cardinality(decision.permissions), 5), 2000)
                + Part(Clamp01(system.loadFactor), 1500) + Part(resourceRisk, 3000))

ExposureSum(decision) ==
    SumFunction([i \in DOMAIN decision.policyExposure |->
                    Clamp01(decision.policyExposure[i].exposureLevel)])

PotentialViolations(decision) ==
    SumFunction([i \in DOMAIN decision.policyExposure |->
                    decision.policyExposure[i].potentialViolations])

RegulatoryExposure(decision, context) ==
    IF decision.policyExposure = <<>> THEN 0
    ELSE Clamp01(Part(ExposureSum(decision) \div Len(decision.policyExposure), 7000)
                 + Part(Fraction(PotentialViolations(decision), 10), 2000)
                 + Part(Clamp01(context.dataSensitivity), 1000))

FinancialCost(decision, context) ==
    Clamp01(Part(Fraction(decision.estimatedFinancialExpenditure, 10000), 7500)
            + Part(Clamp01(context.budgetPressure), 2500))

ReputationalImpact(decision, system) ==
    Clamp01(Part(Fraction(PotentialViolations(decision), 8), 5000)
            + Part(Clamp01(-decision.trustWeightedPropagation), 3000)
            + (IF system.incidentActive THEN 2000 ELSE 0))

CooperativeSystemStability(decision, system) ==
    Clamp01(Part(Clamp01((Scale - decision.systemStabilityScore) \div 2), 5000)
            + Part(Fraction(decision.estimatedRecoveryTimeSeconds, 3600), 3000)
            + Part(Fraction(system.recoveryBacklogSeconds, 7200), 2000))

SimulationImpact(decision) ==
    Clamp01(Part(Halved(decision.realWorldTaskImpact), 4000)
            + Part(decision.predictiveSynergyDensity, 2000)
            + Part(Halved(decision.trustWeightedPropagation), 2000)
            + Part(Halved(decision.cooperativeIntelligenceEvolution), 2000))

OpportunityCostProjection(decision, context) ==
    Clamp01(Part(Fraction(decision.projectedOpportunityCostOfBlocking, 30000), 5000)
            + Part(Clamp01(decision.opportunityTradeoffScore), 3000)
            + Part(Clamp01(decision.economicEfficiencyScore), 2000)
            - Part(Clamp01(context.budgetPressure), 1500))

\* The scores of a decision that carries a compliance forecast and a strategic
\* assessment, as every decision of DecisionEvaluationFramework does.
DimensionScores(decision, context, system) ==
    [operationalRisk |-> OperationalRisk(decision, system),
     regulatoryExposure |-> RegulatoryExposure(decision, context),
     financialCost |-> FinancialCost(decision, context),
     reputationalImpact |-> ReputationalImpact(decision, system),
     cooperativeSystemStability |-> CooperativeSystemStability(decision, system),
     predictedComplianceProbability |-> decision.overallProbability,
     simulationImpact |-> SimulationImpact(decision),
     opportunityCostProjection |-> OpportunityCostProjection(decision, context),
     strategicMisalignment |-> Clamp01(decision.misalignmentPenalty)]

BaseWeights ==
    [operationalRisk |-> 10000, regulatoryExposure |-> 10000, financialCost |-> 8000,
     reputationalImpact |-> 9000, cooperativeSystemStability |-> 10000,
     predictedComplianceProbability |-> 11000, simulationImpact |-> 12000,
     opportunityCostProjection |-> 10000, strategicMisalignment |-> 11500]

When(condition, factor) == IF condition THEN factor ELSE Scale

\* The factors recalibrateWeights applies to a dimension, Scale where there are fewer
\* than three.
WeightFactors(decision, context, system) ==
    LET sensitive == decision.permissions \cap {"WRITE", "DELETE", "ADMIN", "EXECUTE"} # {}
        budget == Clamp01(context.budgetPressure)
        data == Clamp01(context.dataSensitivity)
    IN  [operationalRisk |->
            <<Scale + Part(system.loadFactor, 4000), When(sensitive, 11500), Scale>>,
         regulatoryExposure |->
            <<When(system.regulatoryAlert, 14000), When(sensitive, 11000), Scale + Part(data, 7000)>>,
         financialCost |-> <<Scale + Part(budget, 9000), Scale, Scale>>,
         reputationalImpact |->
            <<When(system.incidentActive, 12000), When(system.regulatoryAlert, 11000),
              Scale + Part(data, 5000)>>,
         cooperativeSystemStability |->
            <<Scale + Part(system.loadFactor, 8000), When(system.incidentActive, 13500), Scale>>,
         predictedComplianceProbability |-> <<When(system.regulatoryAlert, 12500), Scale, Scale>>,
         simulationImpact |-> <<Scale, Scale, Scale>>,
         opportunityCostProjection |->
            <<Scale + Part(Scale - budget, 3500), Scale + Part(Scale - data, 1500), Scale>>,
         strategicMisalignment |-> <<When(sensitive, 11000), Scale, Scale>>]

\* The user's boost of a dimension, if there is a positive one.
Boost(context, d) ==
    IF d \in DOMAIN context.dimensionPriorities /\ context.dimensionPriorities[d] > 0
    THEN context.dimensionPriorities[d] ELSE Scale

\* recalibrateWeights before it normalizes: no weight is negative.
RawWeight(d, decision, context, system, m) ==
    LET factors == WeightFactors(decision, context, system)[d]
        weight == Part(Part(Part(Part(Part(BaseWeights[d], factors[1]), factors[2]), factors[3]),
                            Boost(context, d)), m[d])
    IN  IF weight < 0 THEN 0 ELSE weight

\* normalizeWeights
Weights(decision, context, system, m) ==
    LET raw == [d \in RiskDimension |-> RawWeight(d, decision, context, system, m)]
        sum == SumFunction(raw)
    IN  [d \in RiskDimension |-> IF sum = 0 THEN Scale \div 9 ELSE (raw[d] * Scale) \div sum]

AveragedDimensions ==
    {"operationalRisk", "regulatoryExposure", "financialCost", "reputationalImpact",
     "cooperativeSystemStability", "strategicMisalignment"}

WeightedRisk(scores, weights) ==
    LET sum == SumFunction([d \in AveragedDimensions |-> weights[d]])
    IN  IF sum = 0 THEN 0
        ELSE Quotient(SumFunction([d \in AveragedDimensions |-> scores[d] * weights[d]]), sum)

\* Mutant: the forecast of compliance is not inverted.
RiskPressure_NotInverted(decision, context, system, m) ==
    LET scores == DimensionScores(decision, context, system)
        weights == Weights(decision, context, system, m)
        compliance == Part(scores["predictedComplianceProbability"],
                           weights["predictedComplianceProbability"])
    IN  Clamp01(Part(WeightedRisk(scores, weights), 4500) + Part(compliance, 1300)
                + Part(Clamp01(context.preemptiveRiskLift), 5500))

\* baseRiskPressure of scoreDecision
BasePressure(scores, weights) ==
    LET weighted(d) == Clamp01(Part(scores[d], weights[d]))
    IN  Clamp01(Part(WeightedRisk(scores, weights), 4500)
                + Part(Scale - weighted("predictedComplianceProbability"), 1300)
                + Part(Scale - weighted("simulationImpact"), 1200)
                + Part(Scale - weighted("opportunityCostProjection"), 1200)
                + Part(weighted("strategicMisalignment"), 1800))

\* scoreDecision: riskPressure, before the score of 1 - riskPressure.
RiskPressure(decision, context, system, m) ==
    Clamp01(BasePressure(DimensionScores(decision, context, system),
                         Weights(decision, context, system, m))
            + Part(Clamp01(context.preemptiveRiskLift), 5500))

DecisionScore(decision, context, system, m) ==
    Scale - RiskPressure(decision, context, system, m)
=============================================================================
