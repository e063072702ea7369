-------------------------- MODULE DecisionBlocking --------------------------
(***************************************************************************)
(* DecisionBlockingAPI (packages/scoring/src), composed with what it asks  *)
(* and with everything that teaches those parts meanwhile.                 *)
(*                                                                         *)
(* evaluateAction awaits the evaluation framework and only then scores and *)
(* classifies: Begin is the part before that await, Finish the rest, and   *)
(* what is learned between them shows in the second part alone.  The lift  *)
(* of PreemptiveDetectionLayer is the caller's to pass on; here a caller   *)
(* passes what the layer assessed when the request was made, or nothing.   *)
(***************************************************************************)
EXTENDS HistoricalFeedback, Classification, PreemptiveDetection

CONSTANTS RawActions,     \* the actions agents submit
          Circumstances,  \* riskContext, systemState, riskPosture, entropyLevel of a request
          Targets,        \* sets of target platforms with a governance mode
          Violations,     \* the outcomes handed to ClassificationEngine.recordOutcome
          Downstream,     \* the outcomes handed to PreemptiveDetectionLayer
          Batches,        \* the batches handed to HistoricalFeedbackIntegrator
          MaxLearned      \* bound: outcomes and batches that are recorded

VARIABLES pending,        \* the request that is being evaluated
          result,         \* the answer that evaluateAction has just returned
          learned         \* how much was recorded, for the bound

blockingVars == <<multipliers, violationHistory, outcomes, feedback, learnedVars,
                  pending, result, learned>>

None == [stage |-> "none"]

\* mapClassificationToEnforcement
EnforcementOutcome(state) ==
    CASE state = "auto-approve" -> "ALLOW" [] state = "flag-for-review" -> "REVIEW"
      [] OTHER -> "BLOCK"

\* buildDirectives; a platform that is named twice has one directive.
Directives(target, outcome) ==
    LET strict(control) == IF target.mode = "strict" THEN {control} ELSE {}
    IN  {CASE outcome = "ALLOW" ->
                [platform |-> p, action |-> outcome, plane |-> "NONE", controls |-> {"log-only"}]
           [] outcome = "REVIEW" ->
                [platform |-> p, action |-> outcome, plane |-> "WORKFLOW_APPROVAL",
                 controls |-> {IF target.mode = "strict" THEN "two-person" ELSE "single-approver",
                               "immutable-audit-log"}]
           [] OTHER ->
                [platform |-> p, action |-> outcome,
                 plane |-> IF p \in {"CLOUD", "KUBERNETES"} THEN "RUNTIME_GATE" ELSE "OS_POLICY",
                 controls |-> {"deny-execution", "immutable-audit-log"} \cup strict("alert-soc")]
         : p \in target.platforms}

\* isCrossPlatformConsistent
Consistent(directives) == Cardinality({d.action : d \in directives}) <= 1

\* buildGovernanceEntries: the steps that do not pass.
Warnings(decision, pressure, state, directives) ==
    {w \in {"policy-exposure-check", "risk-computation", "classification-resolution",
            "cross-platform-enforcement"} :
        CASE w = "policy-exposure-check" ->
                \E i \in DOMAIN decision.policyExposure :
                    decision.policyExposure[i].exposureLevel > 7000
          [] w = "risk-computation" -> pressure > 6600
          [] w = "classification-resolution" -> state = "block"
          [] OTHER -> ~Consistent(directives)}

\* What riskContext and classificationContext hold when the caller passes lift.
Request(raw, circumstances, target, lift) ==
    [raw |-> raw, target |-> target, system |-> circumstances.system,
     risk |-> [dataSensitivity |-> circumstances.dataSensitivity,
               budgetPressure |-> circumstances.budgetPressure,
               dimensionPriorities |-> circumstances.dimensionPriorities,
               preemptiveRiskLift |-> lift],
     classification |-> [riskPosture |-> circumstances.riskPosture,
                         entropyLevel |-> circumstances.entropyLevel,
                         preemptiveRiskLift |-> lift,
                         preemptiveEscalationThreshold |-> ReviewLift,
                         preemptiveBlockThreshold |-> BlockLift]]

\* The profile PreemptiveDetectionLayer sees of the decision on a raw action.
Profile(raw) ==
    [action |-> raw.type, layer |-> "TOOL_EXECUTION", agent |-> raw.agent,
     permissions |-> {"EXECUTE"},
     exposure |-> ExposureBand(<<[exposureLevel |-> DefaultExposure]>>)]

\* An action is of one of the types the code tells apart; what is counted,
\* measured or boosted is a number; recordOutcome limits a severity before it
\* keeps it; what reaches the preemptive layer is the outcome of a decision made
\* here, of any agent.
ASSUME BlockingAssumption ==
    /\ \A raw \in RawActions :
          /\ raw.type \in ActionTypes
          /\ raw.params \in Nat /\ raw.bytes \in Nat /\ raw.delegation \in Nat
    /\ \A c \in Circumstances :
          /\ c.system.loadFactor \in Int /\ c.system.recoveryBacklogSeconds \in Int
          /\ \A d \in DOMAIN c.dimensionPriorities : c.dimensionPriorities[d] \in Int
    /\ Violations \subseteq Outcome
    /\ \A event \in Downstream :
          event \in [profile : {Profile([type |-> event.profile.action,
                                        agent |-> event.profile.agent])},
                    complianceFailure : BOOLEAN, downstreamFailure : BOOLEAN, severity : Int]
    /\ \A batch \in Batches :
          batch \in Seq(Range(batch)) /\ \A record \in Range(batch) : IsFeedbackRecord(record)

\* The state scoring and classification give to a decision after a history.
VerdictAfter(history, decision, request) ==
    Classify(DecisionScore(decision, request.risk, request.system, multipliers),
             request.classification, history)

\* The thresholds that classify sets for a request after a history.
BandAfter(history, request) ==
    ThresholdBand(Clamp01(request.classification.riskPosture),
                  Clamp01(request.classification.entropyLevel), ViolationTrend(history))

\* Enough outcomes of one profile, every one a compliance failure.
Recurring(profile) ==
    LET seen == {i \in DOMAIN outcomes : outcomes[i].profile = profile}
    IN  Cardinality(seen) >= MinSamples /\ \A i \in seen : outcomes[i].complianceFailure

-----------------------------------------------------------------------------

BlockingInit ==
    /\ AdaptiveInit
    /\ LearnedInit
    /\ outcomes = <<>> /\ feedback = <<>>
    /\ pending = None /\ result = None
    /\ learned = 0

\* evaluateAction up to the await: the decision is made from what the
\* simulation and the estimator know now.  recurring is kept for a property.
Begin(raw, circumstances, target, noise, informed) ==
    /\ pending = None
    /\ result' = None
    /\ pending' = [stage |-> "evaluated", informed |-> informed,
                   recurring |-> Recurring(Profile(raw)),
                   decision |-> Decision(raw, noise),
                   request |-> Request(raw, circumstances, target,
                                       IF informed THEN Assess(Profile(raw)) ELSE 0)]
    /\ UNCHANGED <<multipliers, violationHistory, outcomes, feedback, learnedVars, learned>>

\* evaluateAction after the await
Finish ==
    /\ pending.stage = "evaluated"
    /\ LET decision == pending.decision
           request == pending.request
           pressure == RiskPressure(decision, request.risk, request.system, multipliers)
           state == VerdictAfter(violationHistory, decision, request)
           directives == Directives(request.target, EnforcementOutcome(state))
       IN  result' = [stage |-> "answered", state |-> state,
                      outcome |-> EnforcementOutcome(state), directives |-> directives,
                      warnings |-> Warnings(decision, pressure, state, directives)]
    /\ pending' = None
    /\ UNCHANGED <<multipliers, violationHistory, outcomes, feedback, learnedVars, learned>>

Learn ==
    /\ learned < MaxLearned /\ learned' = learned + 1
    /\ result' = None /\ UNCHANGED pending

RecordViolation(outcome) ==
    /\ Learn
    /\ RecordOutcomes(<<outcome>>)
    /\ UNCHANGED <<multipliers, outcomes, feedback, learnedVars>>

RecordDownstreamOutcome(event) ==
    /\ Learn
    /\ RecordDownstream(event)
    /\ UNCHANGED <<multipliers, violationHistory, feedback, learnedVars>>

IntegrateFeedback(batch) ==
    /\ Learn
    /\ Integrate(batch)
    /\ UNCHANGED <<violationHistory, outcomes>>

BlockingNext ==
    \/ \E raw \in RawActions, c \in Circumstances, t \in Targets :
          \E noise \in {-assumptions.noiseAmplitude, assumptions.noiseAmplitude} :
             \E informed \in BOOLEAN : Begin(raw, c, t, noise, informed)
    \/ Finish
    \/ \E outcome \in Violations : RecordViolation(outcome)
    \/ \E event \in Downstream : RecordDownstreamOutcome(event)
    \/ \E batch \in Batches : IntegrateFeedback(batch)

BlockingSpec == BlockingInit /\ [][BlockingNext]_blockingVars

-----------------------------------------------------------------------------
(* Properties.                                                             *)

\* Everything learned stays within the bounds its module clamps it to, and an
\* answer says the same to every platform that was named.
BlockingTypeOK ==
    /\ AdaptiveTypeOK /\ LearnedTypeOK
    /\ Len(outcomes) <= MaxOutcomes /\ Len(feedback) <= MaxFeedback
    /\ pending.stage \in {"none", "evaluated"}
    /\ result = None \/ (/\ result.state \in ClassificationState
                         /\ "cross-platform-enforcement" \notin result.warnings)

\* What an agent repeats is not waved through: once every outcome of a kind of
\* decision was a compliance failure, and there are enough of them, a caller
\* who passes on the assessment never gets an automatic approval, whatever
\* other agents' outcomes and later lessons say (PreemptiveDetectionLayer.assess
\* with ClassificationEngine.applyPreemptiveEscalation).
RecurrenceEscalates ==
    [][pending.stage = "evaluated" /\ pending' = None /\ pending.recurring /\ pending.informed
          => result'.state # "auto-approve"]_blockingVars

\* Wherever it is on record, a violation whose severity is this or more outweighs
\* the fall of the trend that it causes in the older half.
OutweighsTrend == 6500

\* A violation in the recent half of the history never gives a waiting request
\* lower thresholds, and so never a milder verdict, than a clean outcome in its
\* place: rate, severity and momentum pull together
\* (computeViolationTrendSnapshot).  In the older half it makes the trend fall,
\* since the momentum compares the halves; there, or alone on record, only a
\* violation of at least OutweighsTrend is sure not to relax the thresholds.
ViolationNeverRelaxes ==
    pending.stage = "evaluated" =>
        \A i \in DOMAIN violationHistory :
            \A bad \in {v \in Violations : v.violated}, good \in {v \in Violations : ~v.violated} :
                i > OlderHalf(violationHistory) \/ bad.severity >= OutweighsTrend =>
                    LET with(v) == BandAfter([violationHistory EXCEPT ![i] = v], pending.request)
                    IN  /\ with(bad).autoApproveMin >= with(good).autoApproveMin
                        /\ with(bad).blockMax >= with(good).blockMax

\* The risks of a decision, each made larger.
Raised(d) ==
    [misalignmentPenalty |-> Clamp01(d.misalignmentPenalty + 3000),
     overallProbability |-> Clamp01(d.overallProbability - 3000),
     systemStabilityScore |-> d.systemStabilityScore - 9000,
     computationalCostScore |-> Clamp01(d.computationalCostScore + 5000),
     estimatedFinancialExpenditure |-> d.estimatedFinancialExpenditure + 5000,
     policyExposure |-> Append(d.policyExposure,
                               [exposureLevel |-> Scale, potentialViolations |-> 2])]

\* The same decision with one risk made larger.
Riskier(d) == {[d EXCEPT ![f] = Raised(d)[f]] : f \in DOMAIN Raised(d)}

\* Whatever the multipliers have become, more of one risk with the rest equal
\* never gives a decision a higher score or a milder state: nine dimensions are
\* weighted, normalized, inverted and averaged on the way (scoreDecision).
RiskierNeverMilder ==
    pending.stage = "evaluated" =>
        \A worse \in Riskier(pending.decision) :
            LET request == pending.request
                score == DecisionScore(pending.decision, request.risk, request.system, multipliers)
                lower == DecisionScore(worse, request.risk, request.system, multipliers)
            IN  /\ lower <= score
                /\ Strictness(Classify(lower, request.classification, violationHistory))
                     >= Strictness(Classify(score, request.classification, violationHistory))

\* The compliance forecast for an action, with a simulation free of noise.
Forecast(raw, a, stages, violations) ==
    OverallProbability(StageCompliance(raw, Simulation(raw, a, 0), stages, violations))

\* Every record of the history saw no more than was predicted.
AllMissed(records) ==
    \A i \in DOMAIN records : \A k \in Measure :
        k \in DOMAIN records[i].predicted \cap DOMAIN records[i].realized =>
            Error(records[i], k) <= 0

\* Feedback pushes the forecast the way it points: integrating a history in
\* which nothing turned out better than predicted never raises the forecast of
\* any action (the signs of computeStageBias, computeActionTypeViolationDeltas
\* and deriveSimulationAssumptionDeltas).
MissLowersForecast ==
    pending = None =>
        \A batch \in Batches :
            AllMissed(Joined(batch)) =>
                LET lesson == Lesson(Joined(batch))
                IN  \A raw \in RawActions :
                        Forecast(raw, AdjustedAssumptions(lesson.assumptions, SimulationLearningRate),
                                 CalibratedStages(lesson.stages, ComplianceLearningRate),
                                 CalibratedTypes(lesson.types, ComplianceLearningRate))
                            <= Forecast(raw, assumptions, stageBias, violationBias)

\* A history of predictions that all came true leaves every multiplier, weight
\* and bias alone, and only calms the noise of the simulation.
ExactTeachesNothing ==
    [][feedback' # feedback
          /\ (\A i \in DOMAIN feedback' : feedback'[i].predicted = feedback'[i].realized)
          => /\ UNCHANGED <<multipliers, stageBias, violationBias, driftBias>>
             /\ \A k \in Assumption \ {"noiseAmplitude"} : assumptions'[k] = assumptions[k]
             /\ assumptions'.noiseAmplitude <= assumptions.noiseAmplitude]_blockingVars
=============================================================================
