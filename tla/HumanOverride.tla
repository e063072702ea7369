--------------------------- MODULE HumanOverride ---------------------------
(***************************************************************************)
(* HumanOverrideInterface (packages/scoring/src/HumanOverrideInterface.ts):*)
(* a stakeholder approves, rejects or escalates a flagged decision, and    *)
(* the verdict is fed into the scoring and the classification engine.  A   *)
(* method runs to its end before another one starts.                       *)
(***************************************************************************)
EXTENDS AdaptiveScoring, FiniteSets, Functions

CONSTANTS Stakeholders,       \* the stakeholders that are active
          Clearance,          \* their clearance, a number from OBSERVER to ADMIN
          Predictions,        \* predicted compliance of the decisions that are flagged
          Rationales,         \* what a stakeholder states with a verdict
          AdaptationWindow,   \* adaptationWindowSize
          OverrideRate,       \* overrideLearningRate
          MaxRequests         \* bound: override requests created

OBSERVER == 0
REVIEWER == 1
APPROVER == 2
ADMIN == 3

Verdicts == {"APPROVED", "REJECTED", "ESCALATED"}

ASSUME OverrideAssumption ==
    /\ Clearance \in [Stakeholders -> OBSERVER .. ADMIN]
    /\ Predictions \subseteq 0 .. Scale
    /\ \A r \in Rationales :
          /\ r.confidence \in 0 .. Scale
          /\ DOMAIN r.disagreements \subseteq RiskDimension
          /\ \A d \in DOMAIN r.disagreements : r.disagreements[d] \in -Scale .. Scale
    /\ AdaptationWindow \in Nat \ {0} /\ OverrideRate \in 50 .. 2000
    /\ MaxRequests \in Nat

VARIABLES requests,         \* pendingRequests; a request's id is its position
          overrideHistory   \* the audit trail of OverrideRecords

\* A disagreement tells by how much the system scored a dimension too high.
OverrideRecord == [request : 1 .. MaxRequests, verdict : Verdicts, rationale : Rationales]

Request == [prediction : Predictions, resolved : BOOLEAN]

OverrideTypeOK ==
    /\ requests \in Seq(Request) /\ Len(requests) <= MaxRequests
    /\ overrideHistory \in Seq(OverrideRecord)

OverrideInit == requests = <<>> /\ overrideHistory = <<>>

\* createOverrideRequest.
CreateOverrideRequest(p) ==
    /\ Len(requests) < MaxRequests
    /\ requests' = Append(requests, [prediction |-> p, resolved |-> FALSE])
    /\ UNCHANGED <<overrideHistory, multipliers, violationHistory>>

\* authorizeStakeholder for a verdict; a stakeholder that is not active has none.
Authorized(s, verdict) ==
    Clearance[s] >= (IF verdict = "ESCALATED" THEN REVIEWER ELSE APPROVER)

\* feedIntoScoringEngine: the outcome that stands for a verdict.
OutcomeOfVerdict(verdict, confidence) ==
    CASE verdict = "APPROVED" ->
            [complianceObserved |-> 8500 + Part(confidence, 1500),
             stabilityIncident |-> FALSE, costOverrunRatio |-> 6000]
      [] verdict = "REJECTED" ->
            [complianceObserved |-> 2000 + Part(Scale - confidence, 3000),
             stabilityIncident |-> confidence > 7000,
             costOverrunRatio |-> 12000 + Part(confidence, 5000)]
      [] verdict = "ESCALATED" ->
            [complianceObserved |-> 5500, stabilityIncident |-> FALSE,
             costOverrunRatio |-> 10500]

\* feedIntoClassificationEngine: the entry for the violation history.
ViolationOfVerdict(verdict, confidence) ==
    CASE verdict = "APPROVED" -> [violated |-> FALSE, severity |-> 0]
      [] verdict = "REJECTED" -> [violated |-> TRUE, severity |-> 4000 + Part(confidence, 5000)]
      [] verdict = "ESCALATED" -> [violated |-> TRUE, severity |-> 2000]

\* The audit trail after a record: cut to two windows when it is longer than three.
TrailWith(record) ==
    LET trail == Append(overrideHistory, record)
    IN  IF Len(trail) > 3 * AdaptationWindow THEN Newest(trail, 2 * AdaptationWindow)
        ELSE trail

\* Mutant: a resolved request can be resolved again.
SubmitOverride_Again(i, s, verdict, r) ==
    /\ Authorized(s, verdict)
    /\ requests' = [requests EXCEPT ![i].resolved = TRUE]
    /\ multipliers' = Calibrate(multipliers, requests[i].prediction,
                                OutcomeOfVerdict(verdict, r.confidence),
                                Part(OverrideRate, r.confidence))
    /\ RecordOutcomes(<<ViolationOfVerdict(verdict, r.confidence)>>)
    /\ overrideHistory' = TrailWith([request |-> i, verdict |-> verdict, rationale |-> r])

\* submitOverride.
SubmitOverride(i, s, verdict, r) ==
    /\ ~requests[i].resolved
    /\ Authorized(s, verdict)
    /\ requests' = [requests EXCEPT ![i].resolved = TRUE]
    /\ multipliers' = Calibrate(multipliers, requests[i].prediction,
                                OutcomeOfVerdict(verdict, r.confidence),
                                Part(OverrideRate, r.confidence))
    /\ RecordOutcomes(<<ViolationOfVerdict(verdict, r.confidence)>>)
    /\ overrideHistory' = TrailWith([request |-> i, verdict |-> verdict, rationale |-> r])

\* computeAdaptationSignal, from the newest window of the audit trail.
AdaptationSignal ==
    LET window == Newest(overrideHistory, AdaptationWindow)
        With(verdict) == Cardinality({i \in DOMAIN window : window[i].verdict = verdict})
        Rate(n) == IF window = <<>> THEN 0 ELSE Quotient(n, Len(window))
    IN  [sampleSize |-> Len(window),
         approvalRate |-> Rate(With("APPROVED") * Scale),
         rejectionRate |-> Rate(With("REJECTED") * Scale),
         averageConfidence |->
            Rate(SumFunction([i \in DOMAIN window |-> window[i].rationale.confidence]))]

OverrideNext ==
    \/ \E p \in Predictions : CreateOverrideRequest(p)
    \/ \E i \in DOMAIN requests, s \in Stakeholders, v \in Verdicts, r \in Rationales :
          SubmitOverride(i, s, v, r)
=============================================================================
