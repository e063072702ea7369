----------------------------- MODULE Guardrails -----------------------------
(***************************************************************************)
(* The multi-layer enforcement system of packages/enforcement:             *)
(* GuardrailOrchestrator.coordinate with the pre-execution, in-process,    *)
(* post-execution, intervention and remediation layers, the violation      *)
(* propagation module they share, and the two callers, GuardrailsAPI and   *)
(* the enforcement service (service.ts).                                   *)
(*                                                                         *)
(* Node runs one continuation at a time, so an action is the code between  *)
(* two awaits: several calls of coordinate interleave at their awaits and  *)
(* share activeActions, the risk multiplier and the threshold tightness.   *)
(* The event bus calls its listeners synchronously, within the action that *)
(* emits.  Calls that pass the same action id (a request delivered twice,  *)
(* or `act-${Date.now()}` twice in a millisecond) share an entry of        *)
(* activeActions when UniqueIds is FALSE.                                  *)
(*                                                                         *)
(* Units: risks, deviations and the tightness are in thousandths, the      *)
(* risk multiplier in hundredths.  The adaptive profile is at its initial  *)
(* value (a factor of 1): only callers outside src/ record outcomes.       *)
(***************************************************************************)
EXTENDS Integers, FiniteSets

CONSTANTS Calls,       \* calls of coordinate
          ActionIds,   \* the ids the calls pass
          NoCall,      \* no entry in activeActions
          BaseRisks,   \* risk scores before the multiplier, in thousandths
          Deviations,  \* scores of computeDeviationScore, in thousandths
          MaxSteps,    \* bound: execution steps of an action
          UniqueIds,   \* TRUE when no two calls pass the same id
          ViaApi       \* TRUE: GuardrailsAPI calls; FALSE: the service does

ASSUME GuardrailsAssumption ==
    /\ NoCall \notin Calls
    /\ BaseRisks \subseteq Nat /\ Deviations \subseteq Nat
    /\ MaxSteps \in Nat
    /\ UniqueIds \in BOOLEAN /\ ViaApi \in BOOLEAN
    /\ ViaApi => UniqueIds       \* startTrackedAction makes a random id

VARIABLES pc,                  \* where each call is: the await it is suspended at
          actionId,            \* the id of each call
          contexts,            \* the ActionContext of each call
          throttled,           \* the violations of a step that is slowed down
          activeActions,       \* orchestrator.activeActions
          riskMultiplier,      \* ViolationPropagationModule.riskMultiplier
          thresholdTightness,  \* ViolationPropagationModule.thresholdTightness
          liveStatus,          \* GuardrailsAPI.liveStatus: status and isActive
          published            \* what the service has published for each call

vars == <<pc, actionId, contexts, throttled, activeActions, riskMultiplier,
          thresholdTightness, liveStatus, published>>

Severities == {"MEDIUM", "HIGH", "CRITICAL"}

Violation == [call : Calls, source : {"risk", "warn", "pre", "step", "anomaly", "proc", "post"},
              severity : Severities, step : 0 .. MaxSteps]

EnforcementState == {"PENDING", "PRE_EXECUTION_PASSED", "PRE_EXECUTION_FAILED", "EXECUTING",
                     "SUSPENDED", "AUDIT_PASSED", "REMEDIATED"}

\* "interventions" holds the violations an intervention has been made for,
\* "confirmed" those of the remediation report.
Context == [status : EnforcementState, recommendation : {"PROCEED", "HOLD", "BLOCK"},
            violations : SUBSET Violation, interventions : SUBSET Violation,
            confirmed : SUBSET Violation, step : 0 .. MaxSteps]

NewContext(recommendation) ==
    [status |-> "PENDING", recommendation |-> recommendation, violations |-> {},
     interventions |-> {}, confirmed |-> {}, step |-> 0]

Started(c) == pc[c] # "new"
Finished(c) == pc[c] \in {"returned", "answered"}
Running(c) == Started(c) /\ ~Finished(c)

NotShown == [status |-> "none", isActive |-> FALSE]

GuardTypeOK ==
    /\ pc \in [Calls -> {"new", "evaluated", "validated", "slowed", "stepDone", "monitored",
                         "executing", "remediated", "reported", "audited", "returned",
                         "answered"}]
    /\ actionId \in [Calls -> ActionIds]
    /\ contexts \in [Calls -> Context]
    /\ throttled \in [Calls -> SUBSET Violation]
    /\ activeActions \in [ActionIds -> Calls \cup {NoCall}]
    /\ riskMultiplier \in 100 .. 500
    /\ thresholdTightness \in 0 .. 1000
    /\ liveStatus \in [ActionIds -> [status : EnforcementState \cup {"none"}, isActive : BOOLEAN]]
    /\ published \in [Calls -> {"none", "DENIED", "PERMITTED"}]

GuardInit ==
    /\ pc = [c \in Calls |-> "new"]
    /\ actionId \in [Calls -> ActionIds]
    /\ UniqueIds => \A c, d \in Calls : actionId[c] = actionId[d] => c = d
    /\ contexts = [c \in Calls |-> NewContext("PROCEED")]
    /\ throttled = [c \in Calls |-> {}]
    /\ activeActions = [i \in ActionIds |-> NoCall]
    /\ riskMultiplier = 100
    /\ thresholdTightness = 0
    /\ liveStatus = [i \in ActionIds |-> NotShown]
    /\ published = [c \in Calls |-> "none"]

-----------------------------------------------------------------------------
(* Violations.                                                             *)

\* Mutant: no cap.
AtMost_Uncapped(bound, n) == n

AtMost(bound, n) == IF n > bound THEN bound ELSE n

Count(V, severity) == Cardinality({v \in V : v.severity = severity})

MultiplierIncrease(V) ==
    50 * Count(V, "CRITICAL") + 20 * Count(V, "HIGH") + 10 * Count(V, "MEDIUM")

\* base is what a MEDIUM violation adds; a HIGH one adds half as much again.
TightnessIncrease(V, base) ==
    2 * base * Count(V, "CRITICAL") + (base + base \div 2) * Count(V, "HIGH")
      + base * Count(V, "MEDIUM")

\* handleViolation, for every violation emitted; those found after the execution
\* tighten the thresholds the most.
Propagate(V) ==
    LET audited == {v \in V : v.source = "post"}
    IN  /\ riskMultiplier' = AtMost(500, riskMultiplier + MultiplierIncrease(V))
        /\ thresholdTightness' =
              AtMost(1000, thresholdTightness + TightnessIncrease(audited, 200)
                                              + TightnessIncrease(V \ audited, 50))

\* Mutant: MEDIUM violations are left alone.
Intervene_SevereOnly(k) ==
    [k EXCEPT !.interventions = {v \in k.violations : v.severity # "MEDIUM"},
              !.status = IF \E v \in k.violations \ k.interventions : v.severity = "CRITICAL"
                         THEN "SUSPENDED" ELSE @]

\* AdaptiveInterventionLayer.process: an intervention for every violation that
\* has none; one for a CRITICAL violation suspends.
Intervene(k) ==
    [k EXCEPT !.interventions = k.violations,
              !.status = IF \E v \in k.violations \ k.interventions : v.severity = "CRITICAL"
                         THEN "SUSPENDED" ELSE @]

\* The orchestrator's listener: the violation is pushed to the context and processed.
Receive(k, V) == Intervene([k EXCEPT !.violations = @ \cup V])

\* emitViolation for each of V: the listeners of the propagation module and of
\* the orchestrator, which acts on the context registered under the call's id.
Emit(c, ctxs, V) ==
    LET target == activeActions[actionId[c]]
    IN  IF V = {} \/ target = NoCall THEN ctxs
        ELSE [ctxs EXCEPT ![target] = Receive(@, V)]

\* The call pushes V to its own context k, then emits it.
PushAndEmit(c, k, V) ==
    Emit(c, [contexts EXCEPT ![c] = [k EXCEPT !.violations = @ \cup V]], V)

ShowLive(c, status, isActive) ==
    liveStatus' = IF ViaApi
                  THEN [liveStatus EXCEPT ![actionId[c]] =
                           [status |-> status, isActive |-> isActive]]
                  ELSE liveStatus

GoTo(c, label) == pc' = [pc EXCEPT ![c] = label]

\* Mutant: no finally.
Leave_KeepsEntry(c) == GoTo(c, "returned") /\ UNCHANGED activeActions

\* finally { activeActions.delete(actionId) }
Leave(c) ==
    /\ GoTo(c, "returned")
    /\ activeActions' = [activeActions EXCEPT ![actionId[c]] = NoCall]

-----------------------------------------------------------------------------
(* Pre-execution.                                                          *)

\* The score before the multiplier, of an action that deletes or removes, that
\* has network access (weighted by the agent's trust) or sensitive data.
BaseRisk(deletes, network, trusted, sensitive) ==
    100 + (IF deletes THEN 150 ELSE 0)
        + (IF ~network THEN 0 ELSE IF trusted THEN 91 ELSE 364)
        + (IF sensitive THEN 200 ELSE 0)

\* PredictiveRiskEngine.evaluate; the final clamp to 1 changes no recommendation.
Recommendation(base) ==
    IF base * riskMultiplier > 80000 THEN "BLOCK"
    ELSE IF base * riskMultiplier > 40000 THEN "HOLD" ELSE "PROCEED"

\* coordinate registers the action and evaluates its risk; the verdict is used
\* after the await of evaluate.
Coordinate(c) ==
    /\ pc[c] = "new"
    /\ \E base \in BaseRisks :
          contexts' = [contexts EXCEPT ![c] = NewContext(Recommendation(base))]
    /\ activeActions' = [activeActions EXCEPT ![actionId[c]] = c]
    /\ ShowLive(c, "PENDING", TRUE)
    /\ GoTo(c, "evaluated")
    /\ UNCHANGED <<actionId, throttled, riskMultiplier, thresholdTightness, published>>

PreViolation(c, source, severity) ==
    [call |-> c, source |-> source, severity |-> severity, step |-> 0]

\* BLOCK: returns before PRE_EXECUTION_COMPLETED is emitted.
Block(c) ==
    LET V == {PreViolation(c, "risk", "CRITICAL")}
    IN  /\ contexts[c].recommendation = "BLOCK"
        /\ contexts' = PushAndEmit(c, [contexts[c] EXCEPT !.status = "PRE_EXECUTION_FAILED"], V)
        /\ Propagate(V)
        /\ UNCHANGED liveStatus

\* The warning of a HOLD, which is pushed and not emitted.
Warned(c) ==
    IF contexts[c].recommendation = "HOLD"
    THEN [contexts[c] EXCEPT !.violations = @ \cup {PreViolation(c, "warn", "HIGH")}]
    ELSE contexts[c]

RejectUnauthorized(c) ==
    LET V == {PreViolation(c, "pre", "HIGH")}
    IN  /\ contexts[c].recommendation # "BLOCK"
        /\ contexts' = PushAndEmit(c, [Warned(c) EXCEPT !.status = "PRE_EXECUTION_FAILED"], V)
        /\ Propagate(V)
        /\ ShowLive(c, contexts'[c].status, TRUE)

PassPreExecution(c) ==
    /\ contexts[c].recommendation # "BLOCK"
    /\ contexts' = [contexts EXCEPT ![c] = [Warned(c) EXCEPT !.status = "PRE_EXECUTION_PASSED"]]
    /\ ShowLive(c, "PRE_EXECUTION_PASSED", TRUE)
    /\ UNCHANGED <<riskMultiplier, thresholdTightness>>

PreExecution(c) ==
    /\ pc[c] = "evaluated"
    /\ Block(c) \/ RejectUnauthorized(c) \/ PassPreExecution(c)
    /\ GoTo(c, "validated")
    /\ UNCHANGED <<actionId, throttled, activeActions, published>>

-----------------------------------------------------------------------------
(* In-process monitoring.                                                  *)

\* resolveAction.  The clamp to 0.05 .. 0.95 never acts on the default
\* thresholds: 0.25 * 0.3 > 0.05 and 0.8 < 0.95.
Reaches(deviation, threshold) ==
    deviation * 10000 >= threshold * (10000 - 7 * thresholdTightness)

AnomalyAction(deviation) ==
    CASE Reaches(deviation, 800) -> "HALT"
      [] ~Reaches(deviation, 800) /\ Reaches(deviation, 600) -> "REQUIRE_APPROVAL"
      [] ~Reaches(deviation, 600) /\ Reaches(deviation, 400) -> "SLOW"
      [] ~Reaches(deviation, 400) /\ Reaches(deviation, 250) -> "WARN"
      [] OTHER -> "NONE"

AnomalySeverity(action, approved) ==
    CASE action = "HALT" -> {"CRITICAL"}
      [] action = "REQUIRE_APPROVAL" /\ ~approved -> {"HIGH"}
      [] action \in {"SLOW", "WARN"} -> {"MEDIUM"}
      [] OTHER -> {}

\* The violations of one step: what checks 1 to 5 found (intent, scope, APIs,
\* data access, cooperation) and what the anomaly engine decided.
StepViolations(c, n, found, action, approved) ==
    [call : {c}, source : {"step"}, severity : found, step : {n}]
      \cup [call : {c}, source : {"anomaly"}, severity : AnomalySeverity(action, approved),
            step : {n}]

Severe(V) == \E v \in V : v.severity \in {"HIGH", "CRITICAL"}

\* The end of recordStep: push, emit, suspend, IN_PROCESS_UPDATE.
FinishStep(c, k, V) ==
    LET emitted == PushAndEmit(c, k, V)
        after == IF Severe(V) THEN [emitted EXCEPT ![c].status = "SUSPENDED"] ELSE emitted
    IN  /\ contexts' = after
        /\ Propagate(V)
        /\ ShowLive(c, after[c].status, after[c].status = "EXECUTING")
        /\ GoTo(c, "stepDone")

\* recordStep up to its end, or to the delay of a SLOW.
RecordStep(c, k) ==
    /\ k.step < MaxSteps
    /\ \E found \in SUBSET {"MEDIUM", "HIGH"}, deviation \in Deviations, approved \in BOOLEAN :
          LET action == AnomalyAction(deviation)
              V == StepViolations(c, k.step + 1, found, action, approved)
              next == [k EXCEPT !.step = @ + 1]
          IN  \/ /\ action = "SLOW"
                 /\ contexts' = [contexts EXCEPT ![c] = next]
                 /\ throttled' = [throttled EXCEPT ![c] = V]
                 /\ ShowLive(c, k.status, k.status = "EXECUTING")
                 /\ GoTo(c, "slowed")
                 /\ UNCHANGED <<riskMultiplier, thresholdTightness>>
              \/ /\ action # "SLOW"
                 /\ FinishStep(c, next, V)
                 /\ UNCHANGED throttled

\* After the last step, or at the one that suspended: the resource check, and
\* the layer returns.
LeaveMonitoring(c, k) ==
    /\ \E excessive \in BOOLEAN :
          LET V == IF excessive
                   THEN {[call |-> c, source |-> "proc", severity |-> "MEDIUM", step |-> 0]}
                   ELSE {}
          IN  contexts' = PushAndEmit(c, k, V) /\ Propagate(V)
    /\ ShowLive(c, k.status, k.status = "EXECUTING")
    /\ GoTo(c, "monitored")
    /\ UNCHANGED throttled

\* Mutant: PRE_EXECUTION_FAILED is not looked at.
InProcess_NoEarlyReturn(c) ==
    LET k == [contexts[c] EXCEPT !.status = "EXECUTING"]
    IN  /\ pc[c] = "validated"
        /\ \/ /\ contexts[c].status = "SUSPENDED"
              /\ GoTo(c, "monitored")
              /\ UNCHANGED <<contexts, throttled, riskMultiplier, thresholdTightness,
                             liveStatus>>
           \/ /\ contexts[c].status # "SUSPENDED"
              /\ RecordStep(c, k) \/ LeaveMonitoring(c, k)
        /\ UNCHANGED <<actionId, activeActions, published>>

\* coordinate after the pre-execution layer, and the in-process layer up to its
\* first await.  A context that is SUSPENDED already is returned as it is.
InProcess(c) ==
    LET k == [contexts[c] EXCEPT !.status = "EXECUTING"]
    IN  /\ pc[c] = "validated"
        /\ \/ /\ contexts[c].status = "PRE_EXECUTION_FAILED"
              /\ Leave(c)
              /\ UNCHANGED <<contexts, throttled, riskMultiplier, thresholdTightness,
                             liveStatus>>
           \/ /\ contexts[c].status = "SUSPENDED"
              /\ GoTo(c, "monitored")
              /\ UNCHANGED <<contexts, throttled, riskMultiplier, thresholdTightness,
                             liveStatus, activeActions>>
           \/ /\ contexts[c].status = "PRE_EXECUTION_PASSED"
              /\ RecordStep(c, k) \/ LeaveMonitoring(c, k)
              /\ UNCHANGED activeActions
        /\ UNCHANGED <<actionId, published>>

\* The delay of a SLOW is over.
EndDelay(c) ==
    /\ pc[c] = "slowed"
    /\ FinishStep(c, contexts[c], throttled[c])
    /\ throttled' = [throttled EXCEPT ![c] = {}]
    /\ UNCHANGED <<actionId, activeActions, published>>

\* The loop over the steps goes on, unless the action is suspended.
NextStep(c) ==
    /\ pc[c] = "stepDone"
    /\ \/ contexts[c].status # "SUSPENDED" /\ RecordStep(c, contexts[c])
       \/ LeaveMonitoring(c, contexts[c])
    /\ UNCHANGED <<actionId, activeActions, published>>

\* Mutant: SUSPENDED is not looked at.
AfterMonitoring_Unchecked(c) ==
    /\ pc[c] = "monitored"
    /\ GoTo(c, "executing")
    /\ UNCHANGED <<actionId, contexts, throttled, activeActions, riskMultiplier,
                   thresholdTightness, liveStatus, published>>

\* Mutant: a suspended action waits to be resumed, which nothing does.
AfterMonitoring_Waits(c) ==
    /\ pc[c] = "monitored"
    /\ contexts[c].status # "SUSPENDED"
    /\ GoTo(c, "executing")
    /\ UNCHANGED <<actionId, contexts, throttled, activeActions, riskMultiplier,
                   thresholdTightness, liveStatus, published>>

\* coordinate after the in-process layer.
AfterMonitoring(c) ==
    /\ pc[c] = "monitored"
    /\ \/ contexts[c].status = "SUSPENDED" /\ Leave(c)
       \/ /\ contexts[c].status # "SUSPENDED"
          /\ GoTo(c, "executing")
          /\ UNCHANGED activeActions
    /\ UNCHANGED <<actionId, contexts, throttled, riskMultiplier, thresholdTightness,
                   liveStatus, published>>

-----------------------------------------------------------------------------
(* Post-execution.                                                         *)

\* getConfirmedViolations.
Confirmed(k) ==
    IF k.status = "AUDIT_FAILED" THEN k.violations
    ELSE {v \in k.violations : v.severity \in {"HIGH", "CRITICAL"}}

\* RemediationEngine.remediate.
Remediate(k) ==
    IF Confirmed(k) = {} THEN k
    ELSE [k EXCEPT !.confirmed = Confirmed(k), !.status = "REMEDIATED"]

HasCritical(k) == \E v \in k.violations : v.severity = "CRITICAL"

\* Mutant: the audit does not look at the violations.
Complete_NoAudit(c) ==
    /\ pc[c] = "executing"
    /\ contexts' = [contexts EXCEPT ![c].status = "AUDIT_PASSED"]
    /\ ShowLive(c, "AUDIT_PASSED", FALSE)
    /\ GoTo(c, "audited")
    /\ UNCHANGED <<actionId, throttled, activeActions, riskMultiplier, thresholdTightness,
                   published>>

\* The 500 ms are over: the status becomes COMPLETED whatever it was, and the
\* audit follows; a failed audit is emitted and remediated.
Complete(c) ==
    /\ pc[c] = "executing"
    /\ \/ LET V == {[call |-> c, source |-> "post", severity |-> "CRITICAL", step |-> 0]}
              failed == PushAndEmit(c, [contexts[c] EXCEPT !.status = "AUDIT_FAILED"], V)
          IN  \* a CRITICAL violation is there, or params.invalidResult is set
              /\ contexts' = [failed EXCEPT ![c] = Remediate(@)]
              /\ Propagate(V)
              /\ GoTo(c, "remediated")
              /\ UNCHANGED liveStatus
       \/ /\ ~HasCritical(contexts[c])
          /\ contexts' = [contexts EXCEPT ![c].status = "AUDIT_PASSED"]
          /\ ShowLive(c, "AUDIT_PASSED", FALSE)
          /\ GoTo(c, "audited")
          /\ UNCHANGED <<riskMultiplier, thresholdTightness>>
    /\ UNCHANGED <<actionId, throttled, activeActions, published>>

\* REMEDIATION_COMPLETED, emitted when remediate has returned.
ReportRemediation(c) ==
    /\ pc[c] = "remediated"
    /\ ShowLive(c, contexts[c].status, FALSE)
    /\ GoTo(c, "reported")
    /\ UNCHANGED <<actionId, contexts, throttled, activeActions, riskMultiplier,
                   thresholdTightness, published>>

\* AUDIT_COMPLETED, emitted when triggerRemediation has returned.
ReportAudit(c) ==
    /\ pc[c] = "reported"
    /\ ShowLive(c, contexts[c].status, FALSE)
    /\ GoTo(c, "audited")
    /\ UNCHANGED <<actionId, contexts, throttled, activeActions, riskMultiplier,
                   thresholdTightness, published>>

ReturnAudited(c) ==
    /\ pc[c] = "audited"
    /\ Leave(c)
    /\ UNCHANGED <<actionId, contexts, throttled, riskMultiplier, thresholdTightness,
                   liveStatus, published>>

-----------------------------------------------------------------------------
(* The callers.                                                            *)

\* Mutant: the returned context is not shown.
Answer_NotShown(c) ==
    /\ pc[c] = "returned"
    /\ GoTo(c, "answered")
    /\ published' = IF ViaApi THEN published
                    ELSE [published EXCEPT ![c] = IF contexts[c].status = "COMPLETED"
                                                  THEN "PERMITTED" ELSE "DENIED"]
    /\ UNCHANGED <<actionId, contexts, throttled, activeActions, riskMultiplier,
                   thresholdTightness, liveStatus>>

\* startTrackedAction's then, or the service's verdict on the returned context.
Answer(c) ==
    /\ pc[c] = "returned"
    /\ GoTo(c, "answered")
    /\ ShowLive(c, contexts[c].status, FALSE)
    /\ published' = IF ViaApi THEN published
                    ELSE [published EXCEPT ![c] = IF contexts[c].status = "COMPLETED"
                                                  THEN "PERMITTED" ELSE "DENIED"]
    /\ UNCHANGED <<actionId, contexts, throttled, activeActions, riskMultiplier,
                   thresholdTightness>>

Advance(c) ==
    \/ PreExecution(c) \/ InProcess(c) \/ EndDelay(c) \/ NextStep(c) \/ AfterMonitoring(c)
    \/ Complete(c) \/ ReportRemediation(c) \/ ReportAudit(c) \/ ReturnAudited(c) \/ Answer(c)

GuardNext == \E c \in Calls : Coordinate(c) \/ Advance(c)

GuardSpec == GuardInit /\ [][GuardNext]_vars

\* Promises settle and timers fire: a call that has begun goes on.
FairGuardSpec == GuardSpec /\ \A c \in Calls : WF_vars(Advance(c))

-----------------------------------------------------------------------------

\* What the listeners of VIOLATION_DETECTED have been told: the warning of a
\* HOLD is pushed to the context and never emitted.
Emitted(V) == {v \in V : v.source # "warn"}

\* An audit is never passed with a critical violation on record, the violations
\* of another call with the same id included.
CriticalNeverPasses ==
    \A c \in Calls : contexts[c].status = "AUDIT_PASSED" => ~HasCritical(contexts[c])

\* A violation of the pre-execution layer that fails the action.
Rejected(c) == \E v \in contexts[c].violations : v.call = c /\ v.source \in {"risk", "pre"}

\* An action the pre-execution layer has rejected is never executed, although a
\* suspension may have overwritten PRE_EXECUTION_FAILED.
RejectedNeverExecutes ==
    \A c \in Calls :
        Rejected(c) => pc[c] \in {"validated", "monitored", "returned", "answered"}

\* No entry of activeActions outlives the calls, whichever of two calls with the
\* same id deletes it.
NoLeak ==
    (\A c \in Calls : ~Running(c)) => \A i \in ActionIds : activeActions[i] = NoCall

\* Every violation emitted for an action has been answered by an intervention.
\* Holds when ids are unique.
EveryViolationAnswered ==
    \A c \in Calls : Emitted(contexts[c].violations) \subseteq contexts[c].interventions

\* "Immediate suspension of execution pending forensic audit": a suspended action
\* stays suspended.  Holds when ids are unique.
SuspensionIsFinal ==
    [][\A c \in Calls :
          contexts[c].status = "SUSPENDED" => contexts'[c].status = "SUSPENDED"]_vars

\* What the API shows of a finished action is its final status, whatever the
\* violations emitted after the last event it listens to.
LiveStatusIsFinal ==
    \A c \in Calls :
        ViaApi /\ pc[c] = "answered"
           => liveStatus[actionId[c]] = [status |-> contexts[c].status, isActive |-> FALSE]

\* Every action that is started is answered: no await is left hanging.
EveryActionAnswered == \A c \in Calls : pc[c] = "evaluated" ~> pc[c] = "answered"

=============================================================================
