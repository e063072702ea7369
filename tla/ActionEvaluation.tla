-------------------------- MODULE ActionEvaluation --------------------------
(***************************************************************************)
(* DecisionEvaluationFramework.evaluateAction (packages/scoring/src) with  *)
(* the modules it asks: ImpactSimulationModule, ResourceAnalyzer,          *)
(* ComplianceEstimator and StrategicAlignmentModule.  A raw action becomes *)
(* a decision; what the simulation and the estimator have learned so far   *)
(* is their state.                                                         *)
(*                                                                         *)
(* A raw action is its type, its text (the words the modules look for),    *)
(* the length of its intent, the number and the bytes of its parameters    *)
(* (less than a megabyte) and the length of its delegation chain.          *)
(***************************************************************************)
EXTENDS StrategicAlignment, RiskScore

CONSTANT ActionTypes

VARIABLES assumptions,     \* assumptions of ImpactSimulationModule
          stageBias,       \* the biases of ComplianceEstimator
          violationBias,   \* actionTypeViolationBias, 0 for a type not in the map
          driftBias

learnedVars == <<assumptions, stageBias, violationBias, driftBias>>

Stage == {"initiation", "execution", "persistence", "termination"}

DefaultAssumptions ==
    [taskCriticalityWeight |-> 6000, taskIntentClarityWeight |-> 4000,
     excessiveResourcePenalty |-> 3000, synergyPermissionWeight |-> 1000,
     synergyLayerWeight |-> 2000, trustBase |-> 5000,
     trustPolicyExposurePenaltyWeight |-> 2000, intelligenceSynergyWeight |-> 5000,
     intelligenceStabilityWeight |-> 5000, impactfulPermissionBoost |-> 12000,
     noiseAmplitude |-> 1000]

Assumption == DOMAIN DefaultAssumptions

\* clampAssumption
ClampAssumption(key, value) ==
    CASE key = "noiseAmplitude" -> Clamp(value, 0, 3000)
      [] key = "impactfulPermissionBoost" -> Clamp(value, 8000, 18000)
      [] OTHER -> Clamp(value, 0, 15000)

\* The largest bias of a stage, of a type of action and of the drift.
MaxStageBias == 3500
MaxTypeBias == 4000
MaxDriftBias == 3000

LearnedInit ==
    /\ assumptions = DefaultAssumptions
    /\ stageBias = [s \in Stage |-> 0]
    /\ violationBias = [t \in ActionTypes |-> 0]
    /\ driftBias = 0

LearnedTypeOK ==
    /\ DOMAIN assumptions = Assumption
    /\ \A k \in Assumption : assumptions[k] = ClampAssumption(k, assumptions[k])
    /\ stageBias \in [Stage -> -MaxStageBias .. MaxStageBias]
    /\ violationBias \in [ActionTypes -> -MaxTypeBias .. MaxTypeBias]
    /\ driftBias \in -MaxDriftBias .. MaxDriftBias

-----------------------------------------------------------------------------
(* The raw action as resources and economics.                              *)

\* calculateRequiredResources; Math.round of the milliseconds, whole megabytes.
RequiredResources(raw) ==
    LET criticality == IF raw.type \in {"DELETE", "ADMIN", "EXECUTE", "MIGRATE", "DEPLOY"}
                       THEN "MEDIUM" ELSE "LOW"
        atLeast(n, low) == IF n < low THEN low ELSE n
    IN  <<[type |-> "api_call", amount |-> atLeast(raw.params, 1), criticality |-> criticality],
          [type |-> "cpu", amount |-> atLeast((raw.bytes * 40 + 256) \div 512, 80),
           criticality |-> criticality],
          [type |-> "network_egress_mb", amount |-> raw.bytes \div 1048576, criticality |-> "LOW"]>>

ApiCalls(raw) == RequiredResources(raw)[1].amount
CpuMillis(raw) == RequiredResources(raw)[2].amount
NetworkMegabytes(raw) == RequiredResources(raw)[3].amount

\* computeComputationalCost
ComputationalCost(raw) ==
    Part(Fraction(CpuMillis(raw), 1500), 7000)
        + Part(Fraction(15 * ApiCalls(raw) + 8 * NetworkMegabytes(raw), 120), 3000)

\* computeFinancialExpenditure, in cents
FinancialExpenditure(raw) ==
    CpuMillis(raw) \div 5 + ApiCalls(raw) + (3 * NetworkMegabytes(raw)) \div 20

\* computeOpportunityTradeoff
OpportunityTradeoff(raw) ==
    LET said(words, share) == IF (raw.text \cup {raw.type}) \cap words # {} THEN share ELSE 0
        costly == FoldLeft(LAMBDA sum, r :
                               sum + (CriticalityFactor[r.criticality] \div 1000) * r.amount,
                           0, RequiredResources(raw))
    IN  Clamp01(said({"INCIDENT", "OUTAGE", "SECURITY", "CRITICAL", "HOTFIX", "RECOVERY"}, 5000)
                + said({"MIGRATE", "DEPLOY", "RELEASE", "AUTOMATE", "OPTIMIZE", "SCALE"}, 3500)
                + said({"CLEANUP", "ARCHIVE", "FORMAT", "REFACTOR"}, 1500)
                - Part(Fraction(costly, 25000), 2500))

\* computeOpportunityCostOfBlockingUSD, in cents
CostOfBlocking(raw) ==
    LET spend == (FinancialExpenditure(raw) * 22) \div 10
        value == (IF spend < 500 THEN 500 ELSE spend) + Part(OpportunityTradeoff(raw), 12000)
    IN  CASE raw.type = "DELETE" -> Part(value, 7000)
          [] raw.type = "DEPLOY" -> Part(value, 16000)
          [] raw.type \in {"RECOVER", "HOTFIX"} -> Part(value, 18000)
          [] OTHER -> value

\* economicEfficiencyScore of analyze
EconomicEfficiency(raw) ==
    Clamp01(Part(Fraction(CostOfBlocking(raw), 30000), 7000)
            + Part(Scale - Fraction(FinancialExpenditure(raw), 20000), 3000))

-----------------------------------------------------------------------------
(* The simulated impact, for an action that executes in one layer with one *)
(* permission and is exposed to one policy at 0.1.                         *)

DefaultExposure == 1000

\* simulateTaskImpact
TaskImpact(raw, a) ==
    LET resources == RequiredResources(raw)
        criticality == [HIGH |-> Scale, MEDIUM |-> 5000, LOW |-> 1000]
        clarity == IF raw.intentLength > 20 THEN 8000 ELSE 4000
        average == FoldLeft(LAMBDA sum, r : sum + criticality[r.criticality], 0, resources)
                   \div Len(resources)
        wasteful == clarity < 5000 /\ ApiCalls(raw) + CpuMillis(raw) + NetworkMegabytes(raw) > 1000
    IN  ClampUnit(Part(average, a.taskCriticalityWeight) + Part(clarity, a.taskIntentClarityWeight)
                  - (IF wasteful THEN a.excessiveResourcePenalty ELSE 0))

\* simulate; noise is what Math.random draws within the amplitude.
Simulation(raw, a, noise) ==
    LET synergy == Clamp01(a.synergyPermissionWeight + a.synergyLayerWeight + noise)
        trust == ClampUnit(a.trustBase + 1000 * raw.delegation
                           - Part(DefaultExposure, a.trustPolicyExposurePenaltyWeight))
        evolution == ClampUnit(Part(Part(synergy, a.intelligenceSynergyWeight)
                                    + Part(5000, a.intelligenceStabilityWeight),
                                    a.impactfulPermissionBoost))
    IN  [realWorldTaskImpact |-> TaskImpact(raw, a),
         predictiveSynergyDensity |-> synergy,
         trustWeightedPropagation |-> trust,
         cooperativeIntelligenceEvolution |-> evolution]

-----------------------------------------------------------------------------
(* The compliance forecast.                                                *)

\* The violation pattern of a stage: the types of action it names and its
\* probability (loadDefaultPatterns).
Pattern ==
    [initiation |-> [types |-> {}, probability |-> 0],
     execution |-> [types |-> {"MIGRATE", "UPDATE", "EXECUTE"}, probability |-> 1200],
     persistence |-> [types |-> {"PERSIST", "MONITOR", "BACKUP"}, probability |-> 1500],
     termination |-> [types |-> {"DEPLOY", "CREATE", "ALLOCATE"}, probability |-> 800]]

\* getViolationPatternFactor
PatternFactor(type, stage, violations) ==
    IF type \in Pattern[stage].types
    THEN Scale - Clamp01(Pattern[stage].probability + violations[type]) ELSE Scale

\* Runtime pressure of the resources, for calculateExecutionCompliance.
ResourcePressure(raw) ==
    LET share == [HIGH |-> 3000, MEDIUM |-> 1000, LOW |-> 500]
        resources == RequiredResources(raw)
    IN  Clamp(SumFunction([i \in DOMAIN resources |-> share[resources[i].criticality]]), 0, 5000)

\* The probability of each stage; the stability that is projected is 0.95, the
\* recovery time 0 and the drift factor of the policy 0.05.
StageCompliance(raw, impact, stages, violations) ==
    LET authority == IF raw.delegation > 0 THEN 9500 ELSE 8500
        factor(stage) == PatternFactor(raw.type, stage, violations)
        base == [initiation |-> Part(authority, 4000) + Part(Scale - DefaultExposure, 4000)
                                + Part(factor("initiation"), 2000),
                 execution |-> Part(Part(9750, Scale - ResourcePressure(raw)),
                                    factor("execution")),
                 persistence |-> Part(Part(Part(Halved(impact.trustWeightedPropagation), 7000),
                                           9500),
                                      factor("persistence")),
                 termination |-> 5000 + Part(impact.predictiveSynergyDensity, 3000)
                                 + Part(factor("termination"), 2000)]
    IN  [s \in Stage |-> Clamp01(base[s] + stages[s])]

\* The largest number whose square is at most x, for x below 2^28.
SquareRoot(x) ==
    LET isRoot(r, step) == r * r <= x /\ x < (r + step) * (r + step)
        coarse == CHOOSE h \in 0 .. 127 : isRoot(128 * h, 128)
    IN  CHOOSE r \in 128 * coarse .. 128 * coarse + 127 : isRoot(r, 1)

\* calculateOverallProbability: the geometric mean of the four stages
OverallProbability(p) ==
    SquareRoot(SquareRoot(p.initiation * p.execution)
               * SquareRoot(p.persistence * p.termination))

-----------------------------------------------------------------------------

\* evaluateAction: the decision that is handed to scoring.
Decision(raw, noise) ==
    LET impact == Simulation(raw, assumptions, noise)
        types == {"api_call", "cpu", "network_egress_mb"}
    IN  [actionType |-> raw.type,
         requiredResources |-> RequiredResources(raw),
         permissions |-> {"EXECUTE"},
         policyExposure |-> <<[exposureLevel |-> DefaultExposure, potentialViolations |-> 0]>>,
         systemStabilityScore |-> 9500,
         estimatedRecoveryTimeSeconds |-> 0,
         realWorldTaskImpact |-> impact.realWorldTaskImpact,
         predictiveSynergyDensity |-> impact.predictiveSynergyDensity,
         trustWeightedPropagation |-> impact.trustWeightedPropagation,
         cooperativeIntelligenceEvolution |-> impact.cooperativeIntelligenceEvolution,
         computationalCostScore |-> ComputationalCost(raw),
         estimatedFinancialExpenditure |-> FinancialExpenditure(raw),
         bandwidthUtilization |-> 10 * NetworkMegabytes(raw),
         opportunityTradeoffScore |-> OpportunityTradeoff(raw),
         projectedOpportunityCostOfBlocking |-> CostOfBlocking(raw),
         economicEfficiencyScore |-> EconomicEfficiency(raw),
         overallProbability |-> OverallProbability(StageCompliance(raw, impact, stageBias,
                                                                  violationBias)),
         misalignmentPenalty |-> MisalignmentPenalty(raw.text, types, impact)]

-----------------------------------------------------------------------------
(* What the integrator of historical feedback applies.                     *)

\* applyAssumptionDeltas; an assumption without a delta has delta 0.
AdjustedAssumptions(deltas, rate) ==
    [k \in Assumption |->
        ClampAssumption(k, assumptions[k] + Part(deltas[k], Clamp(rate, 100, 5000)))]

\* applyHistoricalCalibration, for the stages and the types of action; one
\* without a delta has delta 0.
CalibratedStages(deltas, rate) ==
    [s \in Stage |-> Clamp(stageBias[s] + Part(deltas[s], Clamp(rate, 100, 5000)),
                          -MaxStageBias, MaxStageBias)]

CalibratedTypes(deltas, rate) ==
    [t \in ActionTypes |-> Clamp(violationBias[t] + Part(deltas[t], Clamp(rate, 100, 5000)),
                                -MaxTypeBias, MaxTypeBias)]

ApplyHistoricalCalibration(stages, types, drift, rate) ==
    /\ stageBias' = CalibratedStages(stages, rate)
    /\ violationBias' = CalibratedTypes(types, rate)
    /\ driftBias' = Clamp(driftBias + Part(drift, Clamp(rate, 100, 5000)),
                         -MaxDriftBias, MaxDriftBias)
=============================================================================
