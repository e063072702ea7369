------------------------- MODULE Guardrails_proofs -------------------------
(* Theorems about the enforcement system, for every set of calls, action ids, *)
(* risks and deviations and every number of steps.                            *)
EXTENDS Guardrails, FiniteSetTheorems, TLAPS

(***************************************************************************)
(* The state between two steps: GuardTypeOK without the ranges of the two  *)
(* shared counters, which are sums over sets of violations.                *)
(***************************************************************************)
Labels == {"new", "evaluated", "validated", "slowed", "stepDone", "monitored",
           "executing", "remediated", "reported", "audited", "returned", "answered"}

GuardTypes ==
  /\ pc \in [Calls -> Labels]
  /\ actionId \in [Calls -> ActionIds]
  /\ contexts \in [Calls -> Context]
  /\ throttled \in [Calls -> SUBSET Violation]
  /\ activeActions \in [ActionIds -> Calls \cup {NoCall}]
  /\ liveStatus \in [ActionIds -> [status : EnforcementState \cup {"none"}, isActive : BOOLEAN]]
  /\ published \in [Calls -> {"none", "DENIED", "PERMITTED"}]

\* A context within a step: AUDIT_FAILED lasts until the remediation.
OpenContext == [status : EnforcementState \cup {"AUDIT_FAILED"},
                recommendation : {"PROCEED", "HOLD", "BLOCK"},
                violations : SUBSET Violation, interventions : SUBSET Violation,
                confirmed : SUBSET Violation, step : 0 .. MaxSteps]

-----------------------------------------------------------------------------
(* What emitting violations does to contexts.                              *)

\* A context that received V from the event bus.
Touched(old, new, V) ==
  /\ new.violations = old.violations \cup V
  /\ new.interventions = new.violations
  /\ new.confirmed = old.confirmed
  /\ new.status \in {old.status, "SUSPENDED"}
  /\ (\E v \in V \ old.interventions : v.severity = "CRITICAL") => new.status = "SUSPENDED"

LEMMA ReceiveTouches ==
  ASSUME NEW k \in OpenContext, NEW V \in SUBSET Violation
  PROVE  LET new == Receive(k, V)
         IN  /\ new \in OpenContext
             /\ Touched(k, new, V)
             /\ k \in Context => new \in Context
<1> DEFINE mid == [k EXCEPT !.violations = @ \cup V]
           hit == \E v \in mid.violations \ mid.interventions : v.severity = "CRITICAL"
           new == Receive(k, V)
<1>1. /\ mid \in OpenContext /\ mid.violations = k.violations \cup V
      /\ mid.status = k.status /\ mid.interventions = k.interventions
      /\ mid.confirmed = k.confirmed
      /\ k \in Context => mid \in Context
  BY DEF OpenContext, Context
<1>2. new = [mid EXCEPT !.interventions = mid.violations,
                        !.status = IF hit THEN "SUSPENDED" ELSE @]
  BY DEF Receive, Intervene
<1>3. /\ new \in OpenContext /\ new.violations = mid.violations
      /\ new.interventions = mid.violations /\ new.confirmed = mid.confirmed
      /\ new.status = IF hit THEN "SUSPENDED" ELSE mid.status
      /\ mid \in Context => new \in Context
  <2> HIDE DEF mid
  <2>1. CASE hit
    BY <1>1, <1>2, <2>1 DEF OpenContext, Context, EnforcementState
  <2>2. CASE ~hit
    BY <1>1, <1>2, <2>2 DEF OpenContext, Context, EnforcementState
  <2> QED
    BY <2>1, <2>2
<1>4. (\E v \in V \ k.interventions : v.severity = "CRITICAL") => hit
  BY <1>1
<1> QED
  BY <1>1, <1>3, <1>4 DEF Touched

\* What a call finds after it has pushed V to its context k and emitted it: its
\* own context, and that of the call registered under the same id.
Pushed(c, k, V, after) ==
  /\ after \in [Calls -> OpenContext]
  /\ \A d \in Calls \ {c} :
        \/ after[d] = contexts[d]
        \/ /\ d = activeActions[actionId[c]] /\ after[d] \in Context
           /\ Touched(contexts[d], after[d], V)
  /\ after[c].violations = k.violations \cup V
  /\ after[c].status \in {k.status, "SUSPENDED"}
  /\ after[c].interventions \in {k.interventions, after[c].violations}
  /\ activeActions[actionId[c]] = c =>
        IF V = {} THEN after[c].interventions = k.interventions
        ELSE after[c].interventions = after[c].violations
  /\ k \in Context => after[c] \in Context

LEMMA PushAndEmitFacts ==
  ASSUME GuardTypes, NEW c \in Calls, NEW k \in OpenContext, NEW V \in SUBSET Violation
  PROVE  Pushed(c, k, V, PushAndEmit(c, k, V))
<1> DEFINE own == [k EXCEPT !.violations = @ \cup V]
           ctxs == [contexts EXCEPT ![c] = own]
           target == activeActions[actionId[c]]
           after == PushAndEmit(c, k, V)
<1>1. /\ own \in OpenContext /\ own.violations = k.violations \cup V
      /\ own.status = k.status /\ own.interventions = k.interventions
      /\ k \in Context => own \in Context
  BY DEF OpenContext, Context
<1>2. target \in Calls \cup {NoCall}
  BY DEF GuardTypes
<1>3. \A d \in Calls : contexts[d] \in Context /\ contexts[d] \in OpenContext
  BY DEF GuardTypes, Context, OpenContext
<1>4. /\ ctxs \in [Calls -> OpenContext] /\ ctxs[c] = own
      /\ \A d \in Calls \ {c} : ctxs[d] = contexts[d]
  <2> HIDE DEF own
  <2> QED BY <1>1, <1>3 DEF GuardTypes
<1>5. ASSUME V = {} \/ target = NoCall
      PROVE  Pushed(c, k, V, after)
  <2>1. after = ctxs
    BY <1>5 DEF PushAndEmit, Emit
  <2>2. target # c \/ V = {}
    BY <1>5, GuardrailsAssumption
  <2> HIDE DEF after, ctxs, own
  <2> QED
    BY <1>1, <1>4, <2>1, <2>2 DEF Pushed
<1>6. ASSUME V # {}, target # NoCall
      PROVE  Pushed(c, k, V, after)
  <2> DEFINE hit == Receive(ctxs[target], V)
  <2>1. target \in Calls
    BY <1>2, <1>6
  <2>2. after = [ctxs EXCEPT ![target] = hit]
    BY <1>6 DEF PushAndEmit, Emit
  <2>3. /\ hit \in OpenContext /\ Touched(ctxs[target], hit, V)
        /\ ctxs[target] \in Context => hit \in Context
    <3>1. ctxs[target] \in OpenContext
      <4> HIDE DEF ctxs, target
      <4> QED BY <1>4, <2>1
    <3> HIDE DEF ctxs, target
    <3> QED BY <3>1, ReceiveTouches
  <2>4. /\ after \in [Calls -> OpenContext] /\ after[target] = hit
        /\ \A d \in Calls \ {target} : after[d] = ctxs[d]
    <3> HIDE DEF after, ctxs, hit, target
    <3> QED BY <1>4, <2>1, <2>2, <2>3
  <2>5. CASE target = c
    <3>1. after[c] = hit /\ Touched(own, hit, V) /\ (own \in Context => hit \in Context)
      <4> HIDE DEF after, ctxs, hit, own, target
      <4> QED BY <1>4, <2>3, <2>4, <2>5
    <3>2. \A d \in Calls \ {c} : after[d] = contexts[d]
      <4> HIDE DEF after, ctxs, hit, own, target
      <4> QED BY <1>4, <2>4, <2>5
    <3> HIDE DEF after, ctxs, own, hit
    <3> QED
      BY <1>1, <1>6, <2>4, <2>5, <3>1, <3>2 DEF Touched, Pushed
  <2>6. CASE target # c
    <3>1. /\ after[c] = own /\ after[target] = hit /\ Touched(contexts[target], hit, V)
          /\ hit \in Context
      <4> HIDE DEF after, ctxs, hit, own, target
      <4> QED BY <1>3, <1>4, <2>1, <2>3, <2>4, <2>6
    <3>2. \A d \in Calls \ {c} : d # target => after[d] = contexts[d]
      <4> HIDE DEF after, ctxs, hit, own, target
      <4> QED BY <1>4, <2>4
    <3> HIDE DEF after, ctxs, own, hit
    <3> QED
      BY <1>1, <1>6, <2>1, <2>4, <2>6, <3>1, <3>2 DEF Pushed
  <2> QED
    BY <2>5, <2>6
<1> QED
  BY <1>5, <1>6

-----------------------------------------------------------------------------
(* The invariant.                                                          *)

\* Nothing is answered that was not found, an audit is passed at the end and
\* without critical violations, a rejected action is on its way out, and what a
\* throttled step will report is its own.
SafeCall(c) ==
  /\ contexts[c].interventions \subseteq contexts[c].violations
  /\ contexts[c].status = "AUDIT_PASSED" =>
        pc[c] \in {"audited", "returned", "answered"} /\ ~HasCritical(contexts[c])
  /\ Rejected(c) =>
        \/ pc[c] = "validated" /\ contexts[c].status \in {"PRE_EXECUTION_FAILED", "SUSPENDED"}
        \/ pc[c] = "monitored" /\ contexts[c].status = "SUSPENDED"
        \/ Finished(c)
  /\ \A v \in throttled[c] : v.call = c /\ v.source \in {"step", "anomaly"}

\* An entry of activeActions is a call in progress with that id.
Registered ==
  \A i \in ActionIds :
     activeActions[i] # NoCall => actionId[activeActions[i]] = i /\ Running(activeActions[i])

\* What unique ids add: a call in progress is registered, so that its violations
\* reach its own context and nobody else's do.
OwnContext(c) ==
  /\ Running(c) => activeActions[actionId[c]] = c
  /\ pc[c] \in {"new", "evaluated"} => contexts[c].status = "PENDING"
  /\ pc[c] = "executing" => contexts[c].status # "SUSPENDED"
  /\ Emitted(contexts[c].violations) \subseteq contexts[c].interventions
  /\ ViaApi /\ pc[c] = "answered" =>
        liveStatus[actionId[c]] = [status |-> contexts[c].status, isActive |-> FALSE]

Distinct == \A c, d \in Calls : actionId[c] = actionId[d] => c = d

GuardInv ==
  /\ GuardTypes
  /\ Registered
  /\ \A c \in Calls : SafeCall(c)
  /\ UniqueIds => Distinct /\ \A c \in Calls : OwnContext(c)

(***************************************************************************)
(* What a step of call c does, as far as the invariant can tell: it pushes *)
(* V to the context k, which ends with one of the statuses S.              *)
(***************************************************************************)
Stepped(c, k, V, S) ==
  /\ contexts' \in [Calls -> Context]
  /\ \A d \in Calls \ {c} :
        \/ contexts'[d] = contexts[d]
        \/ d = activeActions[actionId[c]] /\ Touched(contexts[d], contexts'[d], V)
  /\ contexts'[c].violations = k.violations \cup V
  /\ contexts'[c].status \in S
  /\ contexts'[c].interventions \in {k.interventions, contexts'[c].violations}
  /\ activeActions[actionId[c]] = c =>
        IF V = {} THEN contexts'[c].interventions = k.interventions
        ELSE contexts'[c].interventions = contexts'[c].violations

\* The other calls stay where they are; one of them may receive V.
Frame(c, V) ==
  /\ actionId' = actionId
  /\ \A d \in Calls \ {c} :
        /\ pc'[d] = pc[d] /\ throttled'[d] = throttled[d]
        /\ \/ contexts'[d] = contexts[d]
           \/ d = activeActions[actionId[c]] /\ Touched(contexts[d], contexts'[d], V)
  /\ \A i \in ActionIds \ {actionId[c]} : liveStatus'[i] = liveStatus[i]
  /\ \/ activeActions' = activeActions /\ (Running(c) <=> Running(c)')
     \/ activeActions' = [activeActions EXCEPT ![actionId[c]] = c] /\ Running(c)'
     \/ activeActions' = [activeActions EXCEPT ![actionId[c]] = NoCall] /\ ~Running(c)'

CallOf(c) == {v \in Violation : v.call = c}

StepKeeps(c) ==
  /\ GuardTypes'
  /\ \E V \in SUBSET CallOf(c) : Frame(c, V)
  /\ SafeCall(c)'
  /\ UniqueIds => OwnContext(c)'
  /\ UniqueIds => (contexts[c].status = "SUSPENDED" => contexts'[c].status = "SUSPENDED")

\* The other calls lose nothing by a step of c.
LEMMA OthersKeep ==
  ASSUME GuardInv, NEW c \in Calls, StepKeeps(c)
  PROVE  /\ GuardInv'
         /\ UniqueIds => \A d \in Calls \ {c} : contexts'[d] = contexts[d]
<1>1. PICK V \in SUBSET CallOf(c) : Frame(c, V)
  BY DEF StepKeeps
<1>2. ASSUME NEW d \in Calls \ {c}
      PROVE  SafeCall(d)'
  <2>1. SafeCall(d) /\ contexts[d] \in Context /\ contexts'[d] \in Context
    BY DEF GuardInv, GuardTypes, StepKeeps
  <2>2. pc'[d] = pc[d] /\ throttled'[d] = throttled[d]
    BY <1>1 DEF Frame
  <2>3. CASE contexts'[d] = contexts[d]
    BY <2>1, <2>2, <2>3 DEF SafeCall, Rejected, Finished, HasCritical
  <2>4. CASE Touched(contexts[d], contexts'[d], V)
    <3>1. Rejected(d)' <=> Rejected(d)
      BY <2>4 DEF Touched, Rejected, CallOf
    <3>2. contexts'[d].status = "AUDIT_PASSED" =>
             contexts[d].status = "AUDIT_PASSED" /\ ~HasCritical(contexts'[d])
      BY <2>1, <2>4 DEF Touched, HasCritical, SafeCall
    <3> QED
      BY <2>1, <2>2, <2>4, <3>1, <3>2 DEF SafeCall, Touched, Finished
  <2> QED
    BY <1>1, <2>3, <2>4 DEF Frame
<1>3. Registered'
  <2>1. \A i \in ActionIds : activeActions[i] \in Calls \cup {NoCall}
    BY DEF GuardInv, GuardTypes
  <2>2. \A d \in Calls \ {c} : Running(d)' <=> Running(d)
    BY <1>1 DEF Frame, Running, Started, Finished
  <2>3. actionId[c] \in ActionIds /\ activeActions \in [ActionIds -> Calls \cup {NoCall}]
    BY DEF GuardInv, GuardTypes
  <2>4. Registered /\ actionId' = actionId
    BY <1>1 DEF GuardInv, Frame
  <2>5. CASE activeActions' = activeActions /\ (Running(c) <=> Running(c)')
    BY <2>1, <2>2, <2>4, <2>5 DEF Registered
  <2>6. CASE activeActions' = [activeActions EXCEPT ![actionId[c]] = c] /\ Running(c)'
    BY <2>1, <2>2, <2>3, <2>4, <2>6 DEF Registered
  <2>7. CASE activeActions' = [activeActions EXCEPT ![actionId[c]] = NoCall] /\ ~Running(c)'
    BY <2>1, <2>2, <2>3, <2>4, <2>7 DEF Registered
  <2> QED
    BY <1>1, <2>5, <2>6, <2>7 DEF Frame
<1>4. ASSUME UniqueIds, NEW d \in Calls \ {c}
      PROVE  contexts'[d] = contexts[d] /\ OwnContext(d)'
  <2>1. actionId[d] # actionId[c]
    BY <1>4 DEF GuardInv, Distinct
  <2>2. d # activeActions[actionId[c]]
    <3>1. actionId[c] \in ActionIds
      BY DEF GuardInv, GuardTypes
    <3> QED
      BY <2>1, <3>1, GuardrailsAssumption DEF GuardInv, Registered
  <2>3. contexts'[d] = contexts[d] /\ pc'[d] = pc[d] /\ actionId'[d] = actionId[d]
    BY <1>1, <2>2 DEF Frame
  <2>4. /\ activeActions'[actionId[d]] = activeActions[actionId[d]]
        /\ liveStatus'[actionId[d]] = liveStatus[actionId[d]]
    <3>1. actionId[d] \in ActionIds \ {actionId[c]}
      BY <2>1 DEF GuardInv, GuardTypes
    <3> QED
      BY <1>1, <3>1 DEF Frame, GuardInv, GuardTypes
  <2> QED
    BY <1>4, <2>3, <2>4 DEF GuardInv, OwnContext, Running, Started, Finished
<1>5. Distinct => Distinct'
  BY <1>1 DEF Frame, Distinct
<1> QED
  BY <1>2, <1>3, <1>4, <1>5 DEF GuardInv, StepKeeps

-----------------------------------------------------------------------------
(* The pieces that the actions share.                                      *)

LEMMA PushedSteps ==
  ASSUME GuardTypes, NEW c \in Calls, NEW k \in Context, NEW V \in SUBSET Violation,
         contexts' = PushAndEmit(c, k, V)
  PROVE  Stepped(c, k, V, {k.status, "SUSPENDED"})
<1>1. k \in OpenContext
  BY DEF Context, OpenContext
<1>2. Pushed(c, k, V, contexts')
  BY <1>1, PushAndEmitFacts
<1>3. \A d \in Calls : contexts[d] \in Context
  BY DEF GuardTypes
<1>4. \A d \in Calls : contexts'[d] \in Context
  BY <1>2, <1>3 DEF Pushed
<1>5. contexts' \in [Calls -> Context]
  BY <1>2, <1>4 DEF Pushed
<1> QED
  BY <1>2, <1>5 DEF Pushed, Stepped

\* Setting a context without emitting anything.
LEMMA SetSteps ==
  ASSUME GuardTypes, NEW c \in Calls, NEW k \in Context,
         contexts' = [contexts EXCEPT ![c] = k]
  PROVE  Stepped(c, k, {}, {k.status})
BY DEF GuardTypes, Stepped

LEMMA ShowLiveTypes ==
  ASSUME GuardTypes, NEW c \in Calls, NEW status \in EnforcementState,
         NEW isActive \in BOOLEAN, ShowLive(c, status, isActive)
  PROVE  /\ liveStatus' \in [ActionIds -> [status : EnforcementState \cup {"none"},
                                          isActive : BOOLEAN]]
         /\ \A i \in ActionIds \ {actionId[c]} : liveStatus'[i] = liveStatus[i]
         /\ ViaApi => liveStatus'[actionId[c]] = [status |-> status, isActive |-> isActive]
BY DEF ShowLive, GuardTypes

LEMMA StepViolationsFacts ==
  ASSUME NEW c \in Calls, NEW n \in 0 .. MaxSteps, NEW found \in SUBSET {"MEDIUM", "HIGH"},
         NEW action, NEW approved
  PROVE  LET V == StepViolations(c, n, found, action, approved)
         IN  /\ V \in SUBSET CallOf(c)
             /\ \A v \in V : v.source \in {"step", "anomaly"}
<1>1. AnomalySeverity(action, approved) \subseteq Severities
  BY DEF AnomalySeverity, Severities
<1> QED
  BY <1>1 DEF StepViolations, CallOf, Violation, Severities

\* The end of recordStep.
LEMMA FinishStepFacts ==
  ASSUME GuardTypes, NEW c \in Calls, NEW k \in Context, NEW V \in SUBSET CallOf(c),
         FinishStep(c, k, V)
  PROVE  /\ Stepped(c, k, V, {k.status, "SUSPENDED"})
         /\ pc' = [pc EXCEPT ![c] = "stepDone"]
         /\ liveStatus' \in [ActionIds -> [status : EnforcementState \cup {"none"},
                                          isActive : BOOLEAN]]
         /\ \A i \in ActionIds \ {actionId[c]} : liveStatus'[i] = liveStatus[i]
<1> DEFINE emitted == PushAndEmit(c, k, V)
           after == IF Severe(V) THEN [emitted EXCEPT ![c].status = "SUSPENDED"] ELSE emitted
<1>1. V \in SUBSET Violation /\ k \in OpenContext
  BY DEF CallOf, Context, OpenContext
<1>2. Pushed(c, k, V, emitted)
  BY <1>1, PushAndEmitFacts
<1>3. \A d \in Calls : contexts[d] \in Context
  BY DEF GuardTypes
<1>4. emitted \in [Calls -> Context]
  <2> HIDE DEF emitted
  <2>1. \A d \in Calls : emitted[d] \in Context
    BY <1>2, <1>3 DEF Pushed
  <2> QED
    BY <1>2, <2>1 DEF Pushed
<1>5. /\ after \in [Calls -> Context]
      /\ \A d \in Calls \ {c} : after[d] = emitted[d]
      /\ after[c].violations = emitted[c].violations
      /\ after[c].interventions = emitted[c].interventions
      /\ after[c].status \in {emitted[c].status, "SUSPENDED"}
  <2>1. "SUSPENDED" \in EnforcementState
    BY DEF EnforcementState
  <2> HIDE DEF emitted
  <2> QED
    BY <1>4, <2>1 DEF Context
<1>6. contexts' = after /\ ShowLive(c, after[c].status, after[c].status = "EXECUTING")
      /\ GoTo(c, "stepDone")
  BY DEF FinishStep
<1>7. Stepped(c, k, V, {k.status, "SUSPENDED"})
  <2> HIDE DEF emitted, after
  <2> QED
    BY <1>2, <1>5, <1>6 DEF Pushed, Stepped
<1>8. after[c].status \in EnforcementState /\ (after[c].status = "EXECUTING") \in BOOLEAN
  <2> HIDE DEF after
  <2> QED BY <1>5 DEF Context
<1>9. pc' = [pc EXCEPT ![c] = "stepDone"]
  BY <1>6 DEF GoTo
<1> HIDE DEF after
<1> QED
  BY <1>6, <1>7, <1>8, <1>9, ShowLiveTypes

-----------------------------------------------------------------------------
(* The in-process layer.                                                   *)

InProcessSources == {"step", "anomaly", "proc"}

\* A piece of the in-process layer for a call whose context, apart from the step
\* count, is k.
Monitored(c, k, V) ==
  /\ V \in SUBSET CallOf(c) /\ \A v \in V : v.source \in InProcessSources
  /\ Stepped(c, k, V, {k.status, "SUSPENDED"})
  /\ \E label \in {"slowed", "stepDone", "monitored"} : pc' = [pc EXCEPT ![c] = label]
  /\ throttled' \in [Calls -> SUBSET Violation]
  /\ \A d \in Calls \ {c} : throttled'[d] = throttled[d]
  /\ \A v \in throttled'[c] : v.call = c /\ v.source \in {"step", "anomaly"}
  /\ liveStatus' \in [ActionIds -> [status : EnforcementState \cup {"none"}, isActive : BOOLEAN]]
  /\ \A i \in ActionIds \ {actionId[c]} : liveStatus'[i] = liveStatus[i]

LEMMA RecordStepMonitors ==
  ASSUME GuardTypes, NEW c \in Calls, SafeCall(c), NEW k \in Context, RecordStep(c, k)
  PROVE  \E V \in SUBSET CallOf(c) : Monitored(c, k, V)
<1> DEFINE next == [k EXCEPT !.step = @ + 1]
<1>1. PICK found \in SUBSET {"MEDIUM", "HIGH"}, deviation \in Deviations, approved \in BOOLEAN :
         LET action == AnomalyAction(deviation)
             V == StepViolations(c, k.step + 1, found, action, approved)
         IN  \/ /\ contexts' = [contexts EXCEPT ![c] = next]
                /\ throttled' = [throttled EXCEPT ![c] = V]
                /\ ShowLive(c, k.status, k.status = "EXECUTING")
                /\ GoTo(c, "slowed")
             \/ FinishStep(c, next, V) /\ UNCHANGED throttled
  BY DEF RecordStep
<1> DEFINE V == StepViolations(c, k.step + 1, found, AnomalyAction(deviation), approved)
<1>2. k.step + 1 \in 0 .. MaxSteps
  BY GuardrailsAssumption DEF RecordStep, Context
<1>3. V \in SUBSET CallOf(c) /\ (\A v \in V : v.source \in {"step", "anomaly"})
  BY <1>2, StepViolationsFacts
<1>4. /\ next \in Context /\ next.status = k.status /\ next.violations = k.violations
      /\ next.interventions = k.interventions
  BY <1>2 DEF Context
<1>5. /\ \A v \in throttled[c] : v.call = c /\ v.source \in {"step", "anomaly"}
      /\ throttled \in [Calls -> SUBSET Violation] /\ pc \in [Calls -> Labels]
      /\ k.status \in EnforcementState /\ (k.status = "EXECUTING") \in BOOLEAN
  BY DEF SafeCall, GuardTypes, Context
<1>6. V \in SUBSET Violation /\ \A v \in V : v.call = c
  BY <1>3 DEF CallOf
<1> HIDE DEF V, next
<1>7. CASE /\ contexts' = [contexts EXCEPT ![c] = next]
           /\ throttled' = [throttled EXCEPT ![c] = V]
           /\ ShowLive(c, k.status, k.status = "EXECUTING")
           /\ GoTo(c, "slowed")
  <2>1. Stepped(c, next, {}, {k.status})
    BY <1>4, <1>7, SetSteps
  <2>2. Stepped(c, k, {}, {k.status, "SUSPENDED"})
    BY <1>4, <2>1 DEF Stepped
  <2>3. /\ throttled' \in [Calls -> SUBSET Violation] /\ throttled'[c] = V
        /\ \A d \in Calls \ {c} : throttled'[d] = throttled[d]
    BY <1>5, <1>6, <1>7
  <2>4. /\ liveStatus' \in [ActionIds -> [status : EnforcementState \cup {"none"},
                                          isActive : BOOLEAN]]
        /\ \A i \in ActionIds \ {actionId[c]} : liveStatus'[i] = liveStatus[i]
    BY <1>5, <1>7, ShowLiveTypes
  <2>5. pc' = [pc EXCEPT ![c] = "slowed"]
    BY <1>7 DEF GoTo
  <2>6. Monitored(c, k, {})
    BY <1>3, <1>6, <2>2, <2>3, <2>4, <2>5 DEF Monitored
  <2> QED
    BY <2>6
<1>8. CASE FinishStep(c, next, V) /\ UNCHANGED throttled
  <2>1. /\ Stepped(c, next, V, {next.status, "SUSPENDED"})
        /\ pc' = [pc EXCEPT ![c] = "stepDone"]
        /\ liveStatus' \in [ActionIds -> [status : EnforcementState \cup {"none"},
                                          isActive : BOOLEAN]]
        /\ \A i \in ActionIds \ {actionId[c]} : liveStatus'[i] = liveStatus[i]
    BY <1>3, <1>4, <1>8, FinishStepFacts
  <2>2. Stepped(c, k, V, {k.status, "SUSPENDED"})
    BY <1>4, <2>1 DEF Stepped
  <2>3. Monitored(c, k, V)
    BY <1>3, <1>5, <1>8, <2>1, <2>2 DEF Monitored, InProcessSources
  <2> QED
    BY <1>3, <2>3
<1> QED
  BY <1>1, <1>7, <1>8 DEF V, next

LEMMA LeaveMonitoringMonitors ==
  ASSUME GuardTypes, NEW c \in Calls, SafeCall(c), NEW k \in Context, LeaveMonitoring(c, k)
  PROVE  \E V \in SUBSET CallOf(c) : Monitored(c, k, V)
<1>1. PICK V \in {{}, {[call |-> c, source |-> "proc", severity |-> "MEDIUM", step |-> 0]}} :
         contexts' = PushAndEmit(c, k, V)
  BY DEF LeaveMonitoring
<1>2. V \in SUBSET CallOf(c) /\ \A v \in V : v.source \in InProcessSources
  BY GuardrailsAssumption DEF CallOf, Violation, Severities, InProcessSources
<1>3. Stepped(c, k, V, {k.status, "SUSPENDED"})
  BY <1>1, <1>2, PushedSteps DEF CallOf
<1>4. k.status \in EnforcementState /\ (k.status = "EXECUTING") \in BOOLEAN
  BY DEF Context
<1>5. /\ liveStatus' \in [ActionIds -> [status : EnforcementState \cup {"none"},
                                        isActive : BOOLEAN]]
      /\ \A i \in ActionIds \ {actionId[c]} : liveStatus'[i] = liveStatus[i]
  BY <1>4, ShowLiveTypes DEF LeaveMonitoring
<1>6. pc' = [pc EXCEPT ![c] = "monitored"] /\ throttled' = throttled
  BY DEF LeaveMonitoring, GoTo
<1>7. Monitored(c, k, V)
  BY <1>2, <1>3, <1>5, <1>6 DEF Monitored, GuardTypes, SafeCall
<1> QED
  BY <1>2, <1>7

LEMMA MonitoredKeeps ==
  ASSUME GuardInv, NEW c \in Calls, NEW k, NEW V \in SUBSET CallOf(c), Monitored(c, k, V),
         pc[c] \in {"validated", "slowed", "stepDone"}, ~Rejected(c),
         k.violations = contexts[c].violations, k.interventions = contexts[c].interventions,
         k.status # "AUDIT_PASSED", contexts[c].status = "SUSPENDED" => k.status = "SUSPENDED",
         UNCHANGED <<actionId, activeActions, published>>
  PROVE  StepKeeps(c)
<1>1. PICK label \in {"slowed", "stepDone", "monitored"} : pc' = [pc EXCEPT ![c] = label]
  BY DEF Monitored
<1>2. pc' \in [Calls -> Labels] /\ pc'[c] = label /\ \A d \in Calls \ {c} : pc'[d] = pc[d]
  BY <1>1 DEF GuardInv, GuardTypes, Labels
<1>3. Running(c) /\ Running(c)' /\ ~Finished(c)'
  BY <1>2 DEF Running, Started, Finished
<1>4. Frame(c, V)
  BY <1>2, <1>3 DEF Monitored, Stepped, Frame
<1>5. GuardTypes'
  BY <1>2 DEF GuardInv, GuardTypes, Monitored, Stepped
<1>6. ~Rejected(c)'
  BY DEF Rejected, Monitored, Stepped, InProcessSources
<1>7. SafeCall(c)'
  <2>1. contexts'[c].interventions \subseteq contexts'[c].violations
    BY DEF Monitored, Stepped, GuardInv, SafeCall
  <2>2. contexts'[c].status # "AUDIT_PASSED"
    BY DEF Monitored, Stepped
  <2> QED
    BY <1>6, <2>1, <2>2 DEF SafeCall, Monitored
<1>8. ASSUME UniqueIds
      PROVE  OwnContext(c)'
  <2>1. activeActions[actionId[c]] = c /\ Emitted(contexts[c].violations) \subseteq k.interventions
    BY <1>3, <1>8 DEF GuardInv, OwnContext
  <2>2. Emitted(contexts'[c].violations) \subseteq contexts'[c].interventions
    BY <2>1 DEF Monitored, Stepped, Emitted
  <2> QED
    BY <1>2, <2>1, <2>2 DEF OwnContext
<1>9. contexts[c].status = "SUSPENDED" => contexts'[c].status = "SUSPENDED"
  BY DEF Monitored, Stepped
<1> QED
  BY <1>4, <1>5, <1>7, <1>8, <1>9 DEF StepKeeps

-----------------------------------------------------------------------------
(* One lemma per action.                                                   *)

LEMMA CoordinateKeeps ==
  ASSUME GuardInv, NEW c \in Calls, Coordinate(c)
  PROVE  StepKeeps(c)
<1>1. PICK k : /\ contexts' = [contexts EXCEPT ![c] = k]
               /\ \E base \in BaseRisks : k = NewContext(Recommendation(base))
  BY DEF Coordinate
<1>2. /\ k \in Context /\ k.status = "PENDING" /\ k.violations = {} /\ k.interventions = {}
  BY <1>1, GuardrailsAssumption DEF NewContext, Recommendation, Context, EnforcementState
<1>3. Stepped(c, k, {}, {"PENDING"})
  BY <1>1, <1>2, SetSteps DEF GuardInv
<1>4. pc' = [pc EXCEPT ![c] = "evaluated"] /\ pc[c] = "new"
  BY DEF Coordinate, GoTo
<1>5. /\ liveStatus' \in [ActionIds -> [status : EnforcementState \cup {"none"},
                                        isActive : BOOLEAN]]
      /\ \A i \in ActionIds \ {actionId[c]} : liveStatus'[i] = liveStatus[i]
  BY ShowLiveTypes DEF Coordinate, GuardInv, EnforcementState
<1>6. /\ activeActions' = [activeActions EXCEPT ![actionId[c]] = c]
      /\ UNCHANGED <<actionId, throttled, published>>
  BY DEF Coordinate
<1>7. actionId[c] \in ActionIds
  BY DEF GuardInv, GuardTypes
<1>8. GuardTypes'
  BY <1>3, <1>4, <1>5, <1>6, <1>7 DEF GuardInv, GuardTypes, Stepped, Labels
<1>9. pc'[c] = "evaluated" /\ \A d \in Calls \ {c} : pc'[d] = pc[d]
  BY <1>4 DEF GuardInv, GuardTypes
<1>10. Frame(c, {})
  BY <1>3, <1>5, <1>6, <1>9 DEF Frame, Stepped, Running, Started, Finished
<1>11. contexts'[c].violations = {} /\ contexts'[c].status = "PENDING"
       /\ contexts'[c].interventions = {}
  BY <1>2, <1>3 DEF Stepped
<1>12. SafeCall(c)'
  BY <1>6, <1>11 DEF SafeCall, Rejected, GuardInv
<1>13. ASSUME UniqueIds
       PROVE  OwnContext(c)' /\ contexts[c].status # "SUSPENDED"
  <2>1. activeActions'[actionId'[c]] = c
    BY <1>6, <1>7 DEF GuardInv, GuardTypes
  <2>2. contexts[c].status = "PENDING"
    BY <1>4, <1>13 DEF GuardInv, OwnContext
  <2> QED
    BY <1>9, <1>11, <2>1, <2>2 DEF OwnContext, Emitted
<1> QED
  BY <1>8, <1>10, <1>12, <1>13 DEF StepKeeps

LEMMA PreExecutionKeeps ==
  ASSUME GuardInv, NEW c \in Calls, PreExecution(c)
  PROVE  StepKeeps(c)
<1>1. /\ pc[c] = "evaluated" /\ pc' = [pc EXCEPT ![c] = "validated"]
      /\ UNCHANGED <<actionId, throttled, activeActions, published>>
  BY DEF PreExecution, GoTo
<1>2. contexts[c] \in Context /\ SafeCall(c) /\ ~Rejected(c)
  BY <1>1 DEF GuardInv, GuardTypes, SafeCall, Finished
<1> DEFINE warn == PreViolation(c, "warn", "HIGH")
<1>3. /\ Warned(c) \in Context /\ Warned(c).violations \in {contexts[c].violations,
                                             contexts[c].violations \cup {warn}}
      /\ Warned(c).interventions = contexts[c].interventions
  <2>1. warn \in Violation /\ {warn} \in SUBSET Violation
    BY GuardrailsAssumption DEF PreViolation, Violation, Severities
  <2> HIDE DEF warn
  <2> QED
    BY <1>2, <2>1 DEF Warned, Context, warn
<1>4. \E k \in Context, V \in SUBSET CallOf(c), status \in {"PRE_EXECUTION_FAILED",
                                                          "PRE_EXECUTION_PASSED"} :
         /\ k.violations \in {contexts[c].violations, contexts[c].violations \cup {warn}}
         /\ k.interventions = contexts[c].interventions
         /\ Stepped(c, k, V, {status, "SUSPENDED"})
         /\ status = "PRE_EXECUTION_PASSED" => V = {}
  <2>1. CASE Block(c)
    <3> DEFINE V == {PreViolation(c, "risk", "CRITICAL")}
               k == [contexts[c] EXCEPT !.status = "PRE_EXECUTION_FAILED"]
    <3>1. V \in SUBSET CallOf(c)
      BY GuardrailsAssumption DEF PreViolation, CallOf, Violation, Severities
    <3>2. /\ k \in Context /\ k.status = "PRE_EXECUTION_FAILED"
          /\ k.violations = contexts[c].violations
          /\ k.interventions = contexts[c].interventions
      BY <1>2 DEF Context, EnforcementState
    <3>3. contexts' = PushAndEmit(c, k, V)
      BY <2>1 DEF Block
    <3>4. V \in SUBSET Violation
      BY <3>1 DEF CallOf
    <3> HIDE DEF V, k
    <3>5. Stepped(c, k, V, {"PRE_EXECUTION_FAILED", "SUSPENDED"})
      BY <3>2, <3>3, <3>4, PushedSteps DEF GuardInv
    <3> QED
      BY <3>1, <3>2, <3>5
  <2>2. CASE RejectUnauthorized(c)
    <3> DEFINE V == {PreViolation(c, "pre", "HIGH")}
               k == [Warned(c) EXCEPT !.status = "PRE_EXECUTION_FAILED"]
    <3>1. V \in SUBSET CallOf(c)
      BY GuardrailsAssumption DEF PreViolation, CallOf, Violation, Severities
    <3>2. /\ k \in Context /\ k.status = "PRE_EXECUTION_FAILED"
          /\ k.violations = Warned(c).violations
          /\ k.interventions = Warned(c).interventions
      BY <1>3 DEF Context, EnforcementState
    <3>3. contexts' = PushAndEmit(c, k, V)
      BY <2>2 DEF RejectUnauthorized
    <3>4. V \in SUBSET Violation
      BY <3>1 DEF CallOf
    <3> HIDE DEF V, k
    <3>5. Stepped(c, k, V, {"PRE_EXECUTION_FAILED", "SUSPENDED"})
      BY <3>2, <3>3, <3>4, PushedSteps DEF GuardInv
    <3> QED
      BY <1>3, <3>1, <3>2, <3>5
  <2>3. CASE PassPreExecution(c)
    <3> DEFINE k == [Warned(c) EXCEPT !.status = "PRE_EXECUTION_PASSED"]
    <3>1. /\ k \in Context /\ k.status = "PRE_EXECUTION_PASSED"
          /\ k.violations = Warned(c).violations
          /\ k.interventions = Warned(c).interventions
      BY <1>3 DEF Context, EnforcementState
    <3>2. contexts' = [contexts EXCEPT ![c] = k]
      BY <2>3 DEF PassPreExecution
    <3> HIDE DEF k
    <3>3. Stepped(c, k, {}, {"PRE_EXECUTION_PASSED"})
      BY <3>1, <3>2, SetSteps DEF GuardInv
    <3>4. Stepped(c, k, {}, {"PRE_EXECUTION_PASSED", "SUSPENDED"})
      BY <3>3 DEF Stepped
    <3> QED
      BY <1>3, <3>1, <3>4
  <2> QED
    BY <2>1, <2>2, <2>3 DEF PreExecution
<1>5. PICK k \in Context, V \in SUBSET CallOf(c), status \in {"PRE_EXECUTION_FAILED",
                                                           "PRE_EXECUTION_PASSED"} :
         /\ k.violations \in {contexts[c].violations, contexts[c].violations \cup {warn}}
         /\ k.interventions = contexts[c].interventions
         /\ Stepped(c, k, V, {status, "SUSPENDED"})
         /\ status = "PRE_EXECUTION_PASSED" => V = {}
  BY <1>4
<1>6. warn.call = c /\ warn.source = "warn"
  BY DEF PreViolation
<1> HIDE DEF warn
<1>7. contexts'[c] \in Context /\ contexts'[c].status \in EnforcementState
  BY <1>5 DEF Stepped, Context
<1>8. /\ liveStatus' \in [ActionIds -> [status : EnforcementState \cup {"none"},
                                        isActive : BOOLEAN]]
      /\ \A i \in ActionIds \ {actionId[c]} : liveStatus'[i] = liveStatus[i]
  <2>1. CASE Block(c)
    BY <2>1 DEF Block, GuardInv, GuardTypes
  <2>2. CASE RejectUnauthorized(c)
    BY <1>7, <2>2, ShowLiveTypes DEF RejectUnauthorized, GuardInv
  <2>3. CASE PassPreExecution(c)
    BY <2>3, ShowLiveTypes DEF PassPreExecution, GuardInv, EnforcementState
  <2> QED
    BY <2>1, <2>2, <2>3 DEF PreExecution
<1>9. pc' \in [Calls -> Labels] /\ pc'[c] = "validated" /\ \A d \in Calls \ {c} : pc'[d] = pc[d]
  BY <1>1 DEF GuardInv, GuardTypes, Labels
<1>10. GuardTypes'
  BY <1>1, <1>5, <1>8, <1>9 DEF GuardInv, GuardTypes, Stepped
<1>11. Running(c) /\ Running(c)'
  BY <1>1, <1>9 DEF Running, Started, Finished
<1>12. Frame(c, V)
  BY <1>1, <1>5, <1>8, <1>9, <1>11 DEF Frame, Stepped
<1>13. SafeCall(c)'
  <2>1. contexts'[c].interventions \subseteq contexts'[c].violations
    BY <1>2, <1>5 DEF Stepped, SafeCall
  <2>2. contexts'[c].status # "AUDIT_PASSED"
    BY <1>5 DEF Stepped
  <2>3. Rejected(c)' => contexts'[c].status \in {"PRE_EXECUTION_FAILED", "SUSPENDED"}
    BY <1>2, <1>5, <1>6 DEF Stepped, Rejected
  <2> QED
    BY <1>1, <1>2, <1>9, <2>1, <2>2, <2>3 DEF SafeCall
<1>14. ASSUME UniqueIds
       PROVE  OwnContext(c)' /\ contexts[c].status # "SUSPENDED"
  <2>1. /\ activeActions[actionId[c]] = c /\ contexts[c].status = "PENDING"
        /\ Emitted(contexts[c].violations) \subseteq contexts[c].interventions
    BY <1>1, <1>11, <1>14 DEF GuardInv, OwnContext
  <2>2. Emitted(k.violations) \subseteq k.interventions
    BY <1>5, <1>6, <2>1 DEF Emitted
  <2>3. Emitted(contexts'[c].violations) \subseteq contexts'[c].interventions
    BY <1>5, <2>1, <2>2 DEF Stepped, Emitted
  <2> QED
    BY <1>1, <1>9, <2>1, <2>3 DEF OwnContext
<1> QED
  BY <1>10, <1>12, <1>13, <1>14 DEF StepKeeps

LEMMA InProcessKeeps ==
  ASSUME GuardInv, NEW c \in Calls, InProcess(c)
  PROVE  StepKeeps(c)
<1> DEFINE k == [contexts[c] EXCEPT !.status = "EXECUTING"]
<1>1. /\ pc[c] = "validated" /\ contexts[c] \in Context /\ SafeCall(c) /\ Running(c)
      /\ UNCHANGED <<actionId, published>>
  BY DEF InProcess, GuardInv, GuardTypes, Running, Started, Finished
<1>2. /\ k \in Context /\ k.status = "EXECUTING" /\ k.violations = contexts[c].violations
      /\ k.interventions = contexts[c].interventions
  BY <1>1 DEF Context, EnforcementState
<1>3. CASE /\ contexts[c].status = "PRE_EXECUTION_FAILED" /\ Leave(c)
           /\ UNCHANGED <<contexts, throttled, liveStatus>>
  <2>1. /\ pc' \in [Calls -> Labels] /\ pc'[c] = "returned"
        /\ \A d \in Calls \ {c} : pc'[d] = pc[d]
    BY <1>3 DEF Leave, GoTo, GuardInv, GuardTypes, Labels
  <2>2. activeActions' = [activeActions EXCEPT ![actionId[c]] = NoCall] /\ ~Running(c)'
    BY <1>3, <2>1 DEF Leave, Running, Finished
  <2>3. GuardTypes' /\ Frame(c, {})
    BY <1>1, <1>3, <2>1, <2>2 DEF GuardInv, GuardTypes, Frame
  <2>4. SafeCall(c)'
    BY <1>1, <1>3, <2>1 DEF SafeCall, Finished, Rejected
  <2>5. UniqueIds => OwnContext(c)'
    BY <1>1, <1>3, <2>1, <2>2 DEF GuardInv, OwnContext
  <2> QED
    BY <1>3, <2>3, <2>4, <2>5 DEF StepKeeps
<1>4. CASE /\ contexts[c].status = "SUSPENDED" /\ GoTo(c, "monitored")
           /\ UNCHANGED <<contexts, throttled, liveStatus, activeActions>>
  <2>1. /\ pc' \in [Calls -> Labels] /\ pc'[c] = "monitored"
        /\ \A d \in Calls \ {c} : pc'[d] = pc[d]
    BY <1>4 DEF GoTo, GuardInv, GuardTypes, Labels
  <2>2. Running(c)'
    BY <2>1 DEF Running, Started, Finished
  <2>3. GuardTypes' /\ Frame(c, {})
    BY <1>1, <1>4, <2>1, <2>2 DEF GuardInv, GuardTypes, Frame
  <2>4. SafeCall(c)'
    BY <1>1, <1>4, <2>1 DEF SafeCall, Finished, Rejected
  <2>5. UniqueIds => OwnContext(c)'
    BY <1>1, <1>4, <2>1, <2>2 DEF GuardInv, OwnContext
  <2> QED
    BY <1>4, <2>3, <2>4, <2>5 DEF StepKeeps
<1>5. CASE /\ contexts[c].status = "PRE_EXECUTION_PASSED"
           /\ RecordStep(c, k) \/ LeaveMonitoring(c, k)
           /\ UNCHANGED activeActions
  <2>1. PICK V \in SUBSET CallOf(c) : Monitored(c, k, V)
    <3> HIDE DEF k
    <3> QED BY <1>1, <1>2, <1>5, RecordStepMonitors, LeaveMonitoringMonitors DEF GuardInv
  <2>2. ~Rejected(c)
    BY <1>1, <1>5 DEF SafeCall, Finished
  <2> HIDE DEF k
  <2> QED
    BY <1>1, <1>2, <1>5, <2>1, <2>2, MonitoredKeeps
<1> QED
  BY <1>3, <1>4, <1>5 DEF InProcess

LEMMA EndDelayKeeps ==
  ASSUME GuardInv, NEW c \in Calls, EndDelay(c)
  PROVE  StepKeeps(c)
<1>1. /\ pc[c] = "slowed" /\ FinishStep(c, contexts[c], throttled[c])
      /\ throttled' = [throttled EXCEPT ![c] = {}]
      /\ UNCHANGED <<actionId, activeActions, published>>
  BY DEF EndDelay
<1>2. /\ contexts[c] \in Context /\ SafeCall(c) /\ ~Rejected(c)
      /\ throttled[c] \in SUBSET CallOf(c)
      /\ contexts[c].status # "AUDIT_PASSED"
  BY <1>1 DEF GuardInv, GuardTypes, SafeCall, Finished, CallOf
<1>3. /\ Stepped(c, contexts[c], throttled[c], {contexts[c].status, "SUSPENDED"})
      /\ pc' = [pc EXCEPT ![c] = "stepDone"]
      /\ liveStatus' \in [ActionIds -> [status : EnforcementState \cup {"none"},
                                        isActive : BOOLEAN]]
      /\ \A i \in ActionIds \ {actionId[c]} : liveStatus'[i] = liveStatus[i]
  BY <1>1, <1>2, FinishStepFacts DEF GuardInv
<1>4. /\ throttled' \in [Calls -> SUBSET Violation] /\ throttled'[c] = {}
      /\ \A d \in Calls \ {c} : throttled'[d] = throttled[d]
  BY <1>1 DEF GuardInv, GuardTypes
<1>5. Monitored(c, contexts[c], throttled[c])
  BY <1>2, <1>3, <1>4 DEF Monitored, SafeCall, InProcessSources
<1> QED
  BY <1>1, <1>2, <1>5, MonitoredKeeps

LEMMA NextStepKeeps ==
  ASSUME GuardInv, NEW c \in Calls, NextStep(c)
  PROVE  StepKeeps(c)
<1>1. /\ pc[c] = "stepDone"
      /\ RecordStep(c, contexts[c]) \/ LeaveMonitoring(c, contexts[c])
      /\ UNCHANGED <<actionId, activeActions, published>>
  BY DEF NextStep
<1>2. /\ contexts[c] \in Context /\ SafeCall(c) /\ ~Rejected(c)
      /\ contexts[c].status # "AUDIT_PASSED"
  BY <1>1 DEF GuardInv, GuardTypes, SafeCall, Finished
<1>3. PICK V \in SUBSET CallOf(c) : Monitored(c, contexts[c], V)
  BY <1>1, <1>2, RecordStepMonitors, LeaveMonitoringMonitors DEF GuardInv
<1> QED
  BY <1>1, <1>2, <1>3, MonitoredKeeps

\* A step of c that only moves it on: where to, and what must be known of it.
LEMMA MovesKeep ==
  ASSUME GuardInv, NEW c \in Calls, NEW label \in Labels, Running(c),
         pc' = [pc EXCEPT ![c] = label], UNCHANGED <<actionId, contexts, throttled, published>>,
         liveStatus' \in [ActionIds -> [status : EnforcementState \cup {"none"},
                                       isActive : BOOLEAN]],
         \A i \in ActionIds \ {actionId[c]} : liveStatus'[i] = liveStatus[i],
         \/ activeActions' = activeActions /\ label \in {"executing", "reported", "audited"}
         \/ /\ activeActions' = [activeActions EXCEPT ![actionId[c]] = NoCall]
            /\ label = "returned",
         contexts[c].status = "AUDIT_PASSED" => label \in {"audited", "returned"},
         Rejected(c) => label = "returned",
         label = "executing" => contexts[c].status # "SUSPENDED"
  PROVE  StepKeeps(c)
<1>1. /\ pc' \in [Calls -> Labels] /\ pc'[c] = label
      /\ \A d \in Calls \ {c} : pc'[d] = pc[d]
  BY DEF GuardInv, GuardTypes
<1>2. Running(c)' <=> label # "returned"
  BY <1>1 DEF Running, Started, Finished
<1>3. GuardTypes'
  BY <1>1 DEF GuardInv, GuardTypes
<1>4. Frame(c, {})
  BY <1>1, <1>2 DEF Frame
<1>5. SafeCall(c)'
  BY <1>1 DEF GuardInv, SafeCall, Finished, Rejected
<1>6. UniqueIds => OwnContext(c)'
  BY <1>1, <1>2 DEF GuardInv, OwnContext
<1> QED
  BY <1>3, <1>4, <1>5, <1>6 DEF StepKeeps

LEMMA AfterMonitoringKeeps ==
  ASSUME GuardInv, NEW c \in Calls, AfterMonitoring(c)
  PROVE  StepKeeps(c)
<1>1. /\ pc[c] = "monitored" /\ Running(c)
      /\ UNCHANGED <<actionId, contexts, throttled, published, liveStatus>>
  BY DEF AfterMonitoring, Running, Started, Finished
<1>2. /\ contexts[c].status # "AUDIT_PASSED"
      /\ Rejected(c) => contexts[c].status = "SUSPENDED"
      /\ liveStatus \in [ActionIds -> [status : EnforcementState \cup {"none"},
                                       isActive : BOOLEAN]]
  BY <1>1 DEF GuardInv, GuardTypes, SafeCall, Finished
<1>3. CASE contexts[c].status = "SUSPENDED" /\ Leave(c)
  <2>1. /\ pc' = [pc EXCEPT ![c] = "returned"]
        /\ activeActions' = [activeActions EXCEPT ![actionId[c]] = NoCall]
        /\ "returned" \in Labels
    BY <1>3 DEF Leave, GoTo, Labels
  <2> QED
    BY <1>1, <1>2, <1>3, <2>1, MovesKeep
<1>4. CASE contexts[c].status # "SUSPENDED" /\ GoTo(c, "executing") /\ UNCHANGED activeActions
  <2>1. /\ pc' = [pc EXCEPT ![c] = "executing"]
        /\ activeActions' = activeActions
        /\ "executing" \in Labels
    BY <1>4 DEF GoTo, Labels
  <2> QED
    BY <1>1, <1>2, <1>4, <2>1, MovesKeep
<1> QED
  BY <1>3, <1>4 DEF AfterMonitoring

LEMMA ReportsKeep ==
  ASSUME GuardInv, NEW c \in Calls, ReportRemediation(c) \/ ReportAudit(c)
  PROVE  StepKeeps(c)
<1>1. /\ pc[c] \in {"remediated", "reported"} /\ Running(c)
      /\ ShowLive(c, contexts[c].status, FALSE)
      /\ UNCHANGED <<actionId, contexts, throttled, published, activeActions>>
  BY DEF ReportRemediation, ReportAudit, Running, Started, Finished
<1>2. PICK label \in {"reported", "audited"} : pc' = [pc EXCEPT ![c] = label]
  BY DEF ReportRemediation, ReportAudit, GoTo
<1>3. contexts[c] \in Context /\ contexts[c].status # "AUDIT_PASSED" /\ ~Rejected(c)
  BY <1>1 DEF GuardInv, GuardTypes, SafeCall, Finished
<1>4. contexts[c].status \in EnforcementState
  BY <1>3 DEF Context
<1>5. /\ liveStatus' \in [ActionIds -> [status : EnforcementState \cup {"none"},
                                        isActive : BOOLEAN]]
      /\ \A i \in ActionIds \ {actionId[c]} : liveStatus'[i] = liveStatus[i]
  BY <1>1, <1>4, ShowLiveTypes DEF GuardInv
<1>6. label \in Labels
  BY DEF Labels
<1> QED
  BY <1>1, <1>2, <1>3, <1>5, <1>6, MovesKeep

LEMMA ReturnAuditedKeeps ==
  ASSUME GuardInv, NEW c \in Calls, ReturnAudited(c)
  PROVE  StepKeeps(c)
<1>1. /\ pc[c] = "audited" /\ Running(c)
      /\ UNCHANGED <<actionId, contexts, throttled, published, liveStatus>>
      /\ pc' = [pc EXCEPT ![c] = "returned"] /\ "returned" \in Labels
      /\ activeActions' = [activeActions EXCEPT ![actionId[c]] = NoCall]
  BY DEF ReturnAudited, Leave, Running, Started, Finished, GoTo, Labels
<1>2. liveStatus \in [ActionIds -> [status : EnforcementState \cup {"none"}, isActive : BOOLEAN]]
  BY DEF GuardInv, GuardTypes
<1> QED
  BY <1>1, <1>2, MovesKeep

LEMMA CompleteKeeps ==
  ASSUME GuardInv, NEW c \in Calls, Complete(c)
  PROVE  StepKeeps(c)
<1>0. /\ pc[c] = "executing" /\ contexts[c] \in Context /\ SafeCall(c)
  BY DEF Complete, GuardInv, GuardTypes
<1>1. /\ pc[c] = "executing" /\ Running(c) /\ contexts[c] \in Context
      /\ contexts[c] \in OpenContext
      /\ SafeCall(c) /\ ~Rejected(c) /\ contexts[c].status # "AUDIT_PASSED"
      /\ UNCHANGED <<actionId, throttled, activeActions, published>>
  <2>1. contexts[c] \in OpenContext
    BY <1>0 DEF Context, OpenContext
  <2>2. Running(c) /\ ~Rejected(c) /\ contexts[c].status # "AUDIT_PASSED"
    BY <1>0 DEF Running, Started, Finished, SafeCall
  <2> QED
    BY <1>0, <2>1, <2>2 DEF Complete
<1>2. ASSUME UniqueIds
      PROVE  /\ activeActions[actionId[c]] = c /\ contexts[c].status # "SUSPENDED"
             /\ Emitted(contexts[c].violations) \subseteq contexts[c].interventions
  BY <1>1, <1>2 DEF GuardInv, OwnContext
<1> DEFINE V == {[call |-> c, source |-> "post", severity |-> "CRITICAL", step |-> 0]}
           k == [contexts[c] EXCEPT !.status = "AUDIT_FAILED"]
           failed == PushAndEmit(c, k, V)
<1>3. CASE /\ contexts' = [failed EXCEPT ![c] = Remediate(@)]
           /\ GoTo(c, "remediated") /\ UNCHANGED liveStatus
  <2>1. V \in SUBSET CallOf(c)
    BY GuardrailsAssumption DEF CallOf, Violation, Severities
  <2>2. V \in SUBSET Violation /\ V # {} /\ (\A v \in V : v.source = "post")
        /\ (\A v \in V : v.severity = "CRITICAL")
    BY <2>1 DEF CallOf
  <2>3. /\ k \in OpenContext /\ k.status = "AUDIT_FAILED"
        /\ k.violations = contexts[c].violations
        /\ k.interventions = contexts[c].interventions
    BY <1>1 DEF OpenContext
  <2> HIDE DEF V, k
  <2>4. Pushed(c, k, V, failed)
    BY <2>2, <2>3, PushAndEmitFacts DEF GuardInv
  <2> HIDE DEF failed
  <2>5. /\ failed \in [Calls -> OpenContext] /\ failed[c] \in OpenContext
        /\ V \subseteq failed[c].violations
    BY <2>4 DEF Pushed
  <2>6. Confirmed(failed[c]) # {} /\ Confirmed(failed[c]) \in SUBSET Violation
    BY <2>2, <2>5 DEF Confirmed, OpenContext
  <2>7. Remediate(failed[c]) = [failed[c] EXCEPT !.confirmed = Confirmed(failed[c]),
                                                 !.status = "REMEDIATED"]
    BY <2>6 DEF Remediate
  <2>8. /\ Remediate(failed[c]) \in Context
        /\ Remediate(failed[c]).status = "REMEDIATED"
        /\ Remediate(failed[c]).violations = failed[c].violations
        /\ Remediate(failed[c]).interventions = failed[c].interventions
    BY <2>5, <2>6, <2>7 DEF OpenContext, Context, EnforcementState
  <2>9. contexts'[c] = Remediate(failed[c]) /\ \A d \in Calls \ {c} : contexts'[d] = failed[d]
    BY <1>3, <2>5
  <2>10. contexts' \in [Calls -> Context]
    <3>1. \A d \in Calls : contexts'[d] \in Context
      BY <2>4, <2>8, <2>9 DEF Pushed, GuardInv, GuardTypes
    <3>2. contexts' = [d \in Calls |-> contexts'[d]]
      BY <1>3, <2>5
    <3> QED
      BY <3>1, <3>2
  <2>11. Stepped(c, k, V, {"REMEDIATED"})
    BY <2>2, <2>4, <2>8, <2>9, <2>10 DEF Stepped, Pushed
  <2>12. /\ pc' \in [Calls -> Labels] /\ pc'[c] = "remediated"
         /\ \A d \in Calls \ {c} : pc'[d] = pc[d]
    BY <1>3 DEF GoTo, GuardInv, GuardTypes, Labels
  <2>13. Running(c)'
    BY <2>12 DEF Running, Started, Finished
  <2>14. GuardTypes'
    BY <1>1, <1>3, <2>10, <2>12 DEF GuardInv, GuardTypes
  <2>15. Frame(c, V)
    BY <1>1, <1>3, <2>11, <2>12, <2>13 DEF Frame, Stepped
  <2>16. SafeCall(c)'
    <3>1. ~Rejected(c)'
      BY <1>1, <2>2, <2>3, <2>11 DEF Rejected, Stepped
    <3> QED
      BY <1>1, <2>3, <2>11, <3>1 DEF SafeCall, Stepped
  <2>17. UniqueIds => OwnContext(c)'
    BY <1>1, <1>2, <2>2, <2>11, <2>12 DEF OwnContext, Stepped, Emitted
  <2> QED
    BY <1>2, <2>1, <2>14, <2>15, <2>16, <2>17 DEF StepKeeps
<1>4. CASE /\ ~HasCritical(contexts[c])
           /\ contexts' = [contexts EXCEPT ![c].status = "AUDIT_PASSED"]
           /\ ShowLive(c, "AUDIT_PASSED", FALSE)
           /\ GoTo(c, "audited")
  <2> DEFINE passed == [contexts[c] EXCEPT !.status = "AUDIT_PASSED"]
  <2>1. /\ passed \in Context /\ passed.status = "AUDIT_PASSED"
        /\ passed.violations = contexts[c].violations
        /\ passed.interventions = contexts[c].interventions
    BY <1>1 DEF Context, EnforcementState
  <2>2. contexts' = [contexts EXCEPT ![c] = passed]
    BY <1>4
  <2> HIDE DEF passed
  <2>3. Stepped(c, passed, {}, {"AUDIT_PASSED"})
    BY <2>1, <2>2, SetSteps DEF GuardInv
  <2>4. /\ liveStatus' \in [ActionIds -> [status : EnforcementState \cup {"none"},
                                          isActive : BOOLEAN]]
        /\ \A i \in ActionIds \ {actionId[c]} : liveStatus'[i] = liveStatus[i]
    BY <1>4, ShowLiveTypes DEF GuardInv, EnforcementState
  <2>5. /\ pc' \in [Calls -> Labels] /\ pc'[c] = "audited"
        /\ \A d \in Calls \ {c} : pc'[d] = pc[d]
    BY <1>4 DEF GoTo, GuardInv, GuardTypes, Labels
  <2>6. Running(c)'
    BY <2>5 DEF Running, Started, Finished
  <2>7. GuardTypes'
    BY <1>1, <2>3, <2>4, <2>5 DEF GuardInv, GuardTypes, Stepped
  <2>8. Frame(c, {})
    BY <1>1, <2>3, <2>4, <2>5, <2>6 DEF Frame, Stepped
  <2>9. SafeCall(c)'
    <3>1. ~Rejected(c)' /\ ~HasCritical(contexts'[c])
      BY <1>1, <1>4, <2>1, <2>3 DEF Rejected, HasCritical, Stepped
    <3> QED
      BY <1>1, <2>1, <2>3, <2>5, <3>1 DEF SafeCall, Stepped
  <2>10. UniqueIds => OwnContext(c)'
    BY <1>1, <1>2, <2>1, <2>3, <2>5 DEF OwnContext, Stepped, Emitted
  <2> QED
    BY <1>2, <2>7, <2>8, <2>9, <2>10 DEF StepKeeps
<1> QED
  BY <1>3, <1>4 DEF Complete

LEMMA AnswerKeeps ==
  ASSUME GuardInv, NEW c \in Calls, Answer(c)
  PROVE  StepKeeps(c)
<1>1. /\ pc[c] = "returned" /\ ~Running(c) /\ ShowLive(c, contexts[c].status, FALSE)
      /\ pc' = [pc EXCEPT ![c] = "answered"]
      /\ UNCHANGED <<actionId, contexts, throttled, activeActions>>
  BY DEF Answer, GoTo, Running, Finished
<1>2. /\ pc' \in [Calls -> Labels] /\ pc'[c] = "answered"
      /\ \A d \in Calls \ {c} : pc'[d] = pc[d]
  BY <1>1 DEF GuardInv, GuardTypes, Labels
<1>3. contexts[c] \in Context /\ SafeCall(c) /\ actionId[c] \in ActionIds
  BY DEF GuardInv, GuardTypes
<1>4. contexts[c].status \in EnforcementState
  BY <1>3 DEF Context
<1>5. /\ liveStatus' \in [ActionIds -> [status : EnforcementState \cup {"none"},
                                        isActive : BOOLEAN]]
      /\ \A i \in ActionIds \ {actionId[c]} : liveStatus'[i] = liveStatus[i]
      /\ ViaApi => liveStatus'[actionId[c]] = [status |-> contexts[c].status, isActive |-> FALSE]
  BY <1>1, <1>4, ShowLiveTypes DEF GuardInv
<1>6. published' \in [Calls -> {"none", "DENIED", "PERMITTED"}]
  BY DEF Answer, GuardInv, GuardTypes
<1>7. ~Running(c)'
  BY <1>2 DEF Running, Finished
<1>8. GuardTypes' /\ Frame(c, {})
  BY <1>1, <1>2, <1>5, <1>6, <1>7 DEF GuardInv, GuardTypes, Frame
<1>9. SafeCall(c)'
  BY <1>1, <1>2, <1>3 DEF SafeCall, Finished
<1>10. UniqueIds => OwnContext(c)'
  BY <1>1, <1>2, <1>5, <1>7 DEF GuardInv, OwnContext
<1> QED
  BY <1>1, <1>8, <1>9, <1>10 DEF StepKeeps

-----------------------------------------------------------------------------
(* The theorems.                                                           *)

LEMMA GuardInitInv == GuardInit => GuardInv
<1> SUFFICES ASSUME GuardInit PROVE GuardInv
  OBVIOUS
<1>1. NewContext("PROCEED") \in Context
  BY GuardrailsAssumption DEF NewContext, Context, EnforcementState
<1>2. GuardTypes
  BY <1>1 DEF GuardInit, GuardTypes, Labels, NotShown
<1>3. Registered
  BY DEF GuardInit, Registered
<1>4. \A c \in Calls : SafeCall(c) /\ (UniqueIds => OwnContext(c))
  BY DEF GuardInit, NewContext, SafeCall, Rejected, OwnContext, Running, Started, Emitted
<1>5. UniqueIds => Distinct
  BY DEF GuardInit, Distinct
<1> QED
  BY <1>2, <1>3, <1>4, <1>5 DEF GuardInv

LEMMA GuardStep ==
  ASSUME GuardInv, [GuardNext]_vars
  PROVE  /\ GuardInv'
         /\ UniqueIds => \A c \in Calls :
               contexts[c].status = "SUSPENDED" => contexts'[c].status = "SUSPENDED"
<1>1. CASE GuardNext
  <2>1. PICK c \in Calls : Coordinate(c) \/ Advance(c)
    BY <1>1 DEF GuardNext
  <2>2. StepKeeps(c)
    BY <2>1, CoordinateKeeps, PreExecutionKeeps, InProcessKeeps, EndDelayKeeps, NextStepKeeps,
       AfterMonitoringKeeps, CompleteKeeps, ReportsKeep, ReturnAuditedKeeps,
       AnswerKeeps DEF Advance
  <2>3. /\ GuardInv'
        /\ UniqueIds => \A d \in Calls \ {c} : contexts'[d] = contexts[d]
    BY <2>2, OthersKeep
  <2> QED
    BY <2>2, <2>3 DEF StepKeeps
<1>2. CASE UNCHANGED vars
  BY <1>2 DEF vars, GuardInv, GuardTypes, Registered, SafeCall, OwnContext, Distinct, Running,
     Started, Finished, Rejected
<1> QED
  BY <1>1, <1>2

(***************************************************************************)
(* The two shared counters.  They grow by sums over the violations that    *)
(* are emitted, which are natural numbers because a step emits finitely    *)
(* many: what a throttled step holds back must be finite too.              *)
(***************************************************************************)
Counters ==
  /\ riskMultiplier \in 100 .. 500
  /\ thresholdTightness \in 0 .. 1000
  /\ \A c \in Calls : IsFiniteSet(throttled[c])

LEMMA CountIsNatural ==
  ASSUME NEW V, IsFiniteSet(V), NEW severity
  PROVE  Count(V, severity) \in Nat
<1>1. {v \in V : v.severity = severity} \in SUBSET V
  OBVIOUS
<1>2. IsFiniteSet({v \in V : v.severity = severity})
  BY <1>1, FS_Subset
<1> QED
  BY <1>2, FS_CardinalityType DEF Count

LEMMA IncreasesAreNatural ==
  ASSUME NEW V, IsFiniteSet(V), NEW base \in Nat
  PROVE  MultiplierIncrease(V) \in Nat /\ TightnessIncrease(V, base) \in Nat
<1>1. /\ Count(V, "CRITICAL") \in Nat /\ Count(V, "HIGH") \in Nat
      /\ Count(V, "MEDIUM") \in Nat
  BY CountIsNatural
<1> DEFINE a == Count(V, "CRITICAL")
           b == Count(V, "HIGH")
           d == Count(V, "MEDIUM")
           half == base + base \div 2
<1>2. half \in Nat
  OBVIOUS
<1> HIDE DEF half
<1>3. base * a \in Nat /\ half * b \in Nat /\ base * d \in Nat
  <2> HIDE DEF a, b, d
  <2> QED BY <1>1, <1>2 DEF a, b, d
<1>4. 2 * base * a \in Nat
  <2> HIDE DEF a
  <2> QED BY <1>1 DEF a
<1>5. TightnessIncrease(V, base) = 2 * base * a + half * b + base * d
  BY DEF TightnessIncrease, half
<1> HIDE DEF a, b, d
<1>6. 2 * base * a + half * b + base * d \in Nat
  BY <1>3, <1>4
<1> QED
  BY <1>1, <1>5, <1>6 DEF MultiplierIncrease

\* The caps of handleViolation hold the counters in their ranges.
LEMMA PropagateRanges ==
  ASSUME Counters, NEW V, IsFiniteSet(V), Propagate(V)
  PROVE  riskMultiplier' \in 100 .. 500 /\ thresholdTightness' \in 0 .. 1000
<1> DEFINE audited == {v \in V : v.source = "post"}
<1>1. IsFiniteSet(audited) /\ IsFiniteSet(V \ audited)
  BY FS_Subset
<1> HIDE DEF audited
<1>2. /\ MultiplierIncrease(V) \in Nat
      /\ TightnessIncrease(audited, 200) \in Nat
      /\ TightnessIncrease(V \ audited, 50) \in Nat
  BY <1>1, IncreasesAreNatural
<1>3. /\ riskMultiplier' = AtMost(500, riskMultiplier + MultiplierIncrease(V))
      /\ thresholdTightness' =
            AtMost(1000, thresholdTightness + TightnessIncrease(audited, 200)
                                            + TightnessIncrease(V \ audited, 50))
  BY DEF Propagate, audited
<1>4. riskMultiplier \in 100 .. 500 /\ thresholdTightness \in 0 .. 1000
  BY DEF Counters
<1> HIDE DEF Counters, Propagate
<1>5. riskMultiplier' \in 100 .. 500
  BY <1>2, <1>3, <1>4 DEF AtMost
<1>6. thresholdTightness' \in 0 .. 1000
  <2> DEFINE sum == thresholdTightness + TightnessIncrease(audited, 200)
                                       + TightnessIncrease(V \ audited, 50)
  <2>1. sum \in Nat
    BY <1>2, <1>4
  <2>2. thresholdTightness' = AtMost(1000, sum)
    BY <1>3
  <2> HIDE DEF sum
  <2> QED
    BY <2>1, <2>2 DEF AtMost
<1> QED
  BY <1>5, <1>6

LEMMA StepViolationsFinite ==
  ASSUME NEW c, NEW n, NEW found \in SUBSET {"MEDIUM", "HIGH"}, NEW action, NEW approved
  PROVE  IsFiniteSet(StepViolations(c, n, found, action, approved))
<1> DEFINE As(source, severity) ==
              [call |-> c, source |-> source, severity |-> severity, step |-> n]
           Of(source) == {As(source, "MEDIUM")} \cup {As(source, "HIGH")}
                            \cup {As(source, "CRITICAL")}
<1>1. \A source : IsFiniteSet(Of(source))
  BY FS_Singleton, FS_Union
<1>2. [call : {c}, source : {"step"}, severity : found, step : {n}] \in SUBSET Of("step")
  <2> SUFFICES ASSUME NEW v \in [call : {c}, source : {"step"}, severity : found, step : {n}]
               PROVE  v \in Of("step")
    OBVIOUS
  <2>1. v = As("step", v.severity) /\ v.severity \in {"MEDIUM", "HIGH"}
    OBVIOUS
  <2> QED
    BY <2>1, Zenon
<1>3. AnomalySeverity(action, approved) \in SUBSET Severities
  BY DEF AnomalySeverity, Severities
<1>4. [call : {c}, source : {"anomaly"}, severity : AnomalySeverity(action, approved),
       step : {n}] \in SUBSET Of("anomaly")
  BY <1>3 DEF Severities
<1>5. /\ IsFiniteSet([call : {c}, source : {"step"}, severity : found, step : {n}])
      /\ IsFiniteSet([call : {c}, source : {"anomaly"},
                      severity : AnomalySeverity(action, approved), step : {n}])
  <2> HIDE DEF Of
  <2> QED BY <1>1, <1>2, <1>4, FS_Subset
<1> QED
  BY <1>5, FS_Union DEF StepViolations

LEMMA RecordStepCounts ==
  ASSUME GuardTypes, Counters, NEW c \in Calls, NEW k, RecordStep(c, k)
  PROVE  Counters'
<1> DEFINE V(found, deviation, approved) ==
              StepViolations(c, k.step + 1, found, AnomalyAction(deviation), approved)
<1>1. PICK found \in SUBSET {"MEDIUM", "HIGH"}, deviation \in Deviations, approved \in BOOLEAN :
         \/ /\ throttled' = [throttled EXCEPT ![c] = V(found, deviation, approved)]
            /\ UNCHANGED <<riskMultiplier, thresholdTightness>>
         \/ Propagate(V(found, deviation, approved)) /\ UNCHANGED throttled
  BY DEF RecordStep, FinishStep
<1>2. IsFiniteSet(V(found, deviation, approved))
  BY StepViolationsFinite
<1> HIDE DEF V
<1>3. ASSUME throttled' = [throttled EXCEPT ![c] = V(found, deviation, approved)],
             UNCHANGED <<riskMultiplier, thresholdTightness>>
      PROVE  Counters'
  <2>1. \A d \in Calls : IsFiniteSet(throttled'[d])
    BY <1>2, <1>3 DEF Counters, GuardTypes
  <2> QED
    BY <1>3, <2>1 DEF Counters
<1>4. ASSUME Propagate(V(found, deviation, approved)), UNCHANGED throttled
      PROVE  Counters'
  <2>1. riskMultiplier' \in 100 .. 500 /\ thresholdTightness' \in 0 .. 1000
    BY <1>2, <1>4, PropagateRanges, Zenon
  <2> QED
    BY <1>4, <2>1 DEF Counters
<1> QED
  BY <1>1, <1>3, <1>4

LEMMA LeaveMonitoringCounts ==
  ASSUME Counters, NEW c \in Calls, NEW k, LeaveMonitoring(c, k)
  PROVE  Counters'
<1>1. PICK V \in {{}, {[call |-> c, source |-> "proc", severity |-> "MEDIUM", step |-> 0]}} :
         Propagate(V)
  BY DEF LeaveMonitoring
<1>2. IsFiniteSet(V)
  <2>1. CASE V = {}
    BY <2>1, FS_EmptySet
  <2>2. CASE V = {[call |-> c, source |-> "proc", severity |-> "MEDIUM", step |-> 0]}
    BY <2>2, FS_Singleton, Zenon
  <2> QED
    BY <2>1, <2>2
<1>3. riskMultiplier' \in 100 .. 500 /\ thresholdTightness' \in 0 .. 1000
  BY <1>1, <1>2, PropagateRanges, Zenon
<1> QED
  BY <1>3 DEF Counters, LeaveMonitoring

\* An action that emits the violations V, or none.
LEMMA EmissionCounts ==
  ASSUME Counters, NEW V, IsFiniteSet(V),
         Propagate(V) \/ UNCHANGED <<riskMultiplier, thresholdTightness>>, UNCHANGED throttled
  PROVE  Counters'
<1>1. riskMultiplier' \in 100 .. 500 /\ thresholdTightness' \in 0 .. 1000
  <2>1. CASE Propagate(V)
    BY <2>1, PropagateRanges, Zenon
  <2>2. CASE UNCHANGED <<riskMultiplier, thresholdTightness>>
    BY <2>2 DEF Counters
  <2> QED
    BY <2>1, <2>2
<1>2. \A c \in Calls : IsFiniteSet(throttled'[c])
  BY DEF Counters
<1> QED
  BY <1>1, <1>2 DEF Counters

LEMMA CountersStep == GuardInv /\ Counters /\ [GuardNext]_vars => Counters'
<1> SUFFICES ASSUME GuardInv, Counters, [GuardNext]_vars PROVE Counters'
  OBVIOUS
<1>1. ASSUME NEW c \in Calls, Coordinate(c) \/ AfterMonitoring(c) \/ ReportRemediation(c)
                              \/ ReportAudit(c) \/ ReturnAudited(c) \/ Answer(c)
      PROVE  Counters'
  <2>1. UNCHANGED <<throttled, riskMultiplier, thresholdTightness>>
    BY <1>1, Zenon DEF Coordinate, AfterMonitoring, ReportRemediation, ReportAudit, ReturnAudited,
                       Answer
  <2> QED
    BY <2>1 DEF Counters
<1>2. ASSUME NEW c \in Calls, PreExecution(c)
      PROVE  Counters'
  <2>1. UNCHANGED throttled
    BY <1>2 DEF PreExecution
  <2>2. \E V \in {{PreViolation(c, "risk", "CRITICAL")}, {PreViolation(c, "pre", "HIGH")}} :
           Propagate(V) \/ UNCHANGED <<riskMultiplier, thresholdTightness>>
    BY <1>2 DEF PreExecution, Block, RejectUnauthorized, PassPreExecution
  <2>3. PICK V \in {{PreViolation(c, "risk", "CRITICAL")}, {PreViolation(c, "pre", "HIGH")}} :
           Propagate(V) \/ UNCHANGED <<riskMultiplier, thresholdTightness>>
    BY <2>2
  <2>4. IsFiniteSet(V)
    BY FS_Singleton, Zenon
  <2> QED
    BY <2>1, <2>3, <2>4, EmissionCounts, Zenon
<1>3. ASSUME NEW c \in Calls, InProcess(c)
      PROVE  Counters'
  <2>1. \/ UNCHANGED <<throttled, riskMultiplier, thresholdTightness>>
        \/ \E k : RecordStep(c, k) \/ LeaveMonitoring(c, k)
    BY <1>3 DEF InProcess
  <2> QED
    BY <2>1, RecordStepCounts, LeaveMonitoringCounts DEF Counters, GuardInv
<1>4. ASSUME NEW c \in Calls, EndDelay(c)
      PROVE  Counters'
  <2>1. Propagate(throttled[c]) /\ throttled' = [throttled EXCEPT ![c] = {}]
    BY <1>4 DEF EndDelay, FinishStep
  <2>2. \A d \in Calls : throttled'[d] \in {throttled[d], {}}
    BY <2>1 DEF GuardInv, GuardTypes
  <2>3. \A d \in Calls : IsFiniteSet(throttled'[d])
    BY <2>2, FS_EmptySet DEF Counters
  <2>4. IsFiniteSet(throttled[c])
    BY DEF Counters
  <2> QED
    BY <2>1, <2>3, <2>4, PropagateRanges DEF Counters
<1>5. ASSUME NEW c \in Calls, NextStep(c)
      PROVE  Counters'
  BY <1>5, RecordStepCounts, LeaveMonitoringCounts DEF NextStep, GuardInv
<1>6. ASSUME NEW c \in Calls, Complete(c)
      PROVE  Counters'
  <2>1. UNCHANGED throttled
    BY <1>6 DEF Complete
  <2> DEFINE V == {[call |-> c, source |-> "post", severity |-> "CRITICAL", step |-> 0]}
  <2>2. Propagate(V) \/ UNCHANGED <<riskMultiplier, thresholdTightness>>
    BY <1>6 DEF Complete
  <2>3. IsFiniteSet(V)
    BY FS_Singleton
  <2> HIDE DEF V
  <2> QED
    BY <2>1, <2>2, <2>3, EmissionCounts
<1>7. CASE UNCHANGED vars
  BY <1>7 DEF vars, Counters
<1> QED
  BY <1>1, <1>2, <1>3, <1>4, <1>5, <1>6, <1>7 DEF GuardNext, Advance

\* Every variable but the two shared counters is of its type, entries of
\* activeActions are calls in progress, and what SafeCall and OwnContext say.
THEOREM GuardInvariant == GuardSpec => []GuardInv
<1>1. GuardInv /\ [GuardNext]_vars => GuardInv'
  BY GuardStep
<1> QED
  BY <1>1, GuardInitInv, PTL DEF GuardSpec

\* Every variable is of its type in every state; in particular the risk
\* multiplier stays between 1 and 5 and the tightness between 0 and 1, whatever
\* the actions of the process have been found guilty of (the Math.min of
\* handleViolation).
THEOREM GuardTypesHold == GuardSpec => []GuardTypeOK
<1>1. GuardInit => Counters
  BY FS_EmptySet DEF GuardInit, Counters
<1>2. GuardInv /\ Counters => GuardTypeOK
  BY DEF GuardInv, GuardTypes, Labels, Counters, GuardTypeOK
<1> QED
  BY <1>1, <1>2, GuardInvariant, CountersStep, PTL DEF GuardSpec

\* An audit is never passed with a critical violation on record, however many
\* calls share an action id (PostExecutionLayer.audit, AdaptiveInterventionLayer).
THEOREM GuardCriticalNeverPasses == GuardSpec => []CriticalNeverPasses
<1>1. GuardInv => CriticalNeverPasses
  BY DEF GuardInv, SafeCall, CriticalNeverPasses
<1> QED
  BY <1>1, GuardInvariant, PTL

\* An action that the pre-execution layer has rejected is never executed.
THEOREM GuardRejectedNeverExecutes == GuardSpec => []RejectedNeverExecutes
<1>1. GuardInv => RejectedNeverExecutes
  BY DEF GuardInv, SafeCall, RejectedNeverExecutes, Finished
<1> QED
  BY <1>1, GuardInvariant, PTL

\* When no call is in progress, activeActions is empty.
THEOREM GuardNoLeak == GuardSpec => []NoLeak
<1>1. GuardInv => NoLeak
  BY DEF GuardInv, GuardTypes, Registered, NoLeak
<1> QED
  BY <1>1, GuardInvariant, PTL

\* With unique ids, every violation that is emitted has its intervention.
THEOREM GuardEveryViolationAnswered ==
  ASSUME UniqueIds
  PROVE  GuardSpec => []EveryViolationAnswered
<1>1. GuardInv => EveryViolationAnswered
  BY DEF GuardInv, OwnContext, EveryViolationAnswered
<1> QED
  BY <1>1, GuardInvariant, PTL

\* What GuardrailsAPI shows of a finished action is its final status.
THEOREM GuardLiveStatusIsFinal == GuardSpec => []LiveStatusIsFinal
<1>1. GuardInv => LiveStatusIsFinal
  BY GuardrailsAssumption DEF GuardInv, OwnContext, LiveStatusIsFinal
<1> QED
  BY <1>1, GuardInvariant, PTL

\* With unique ids, a suspended action stays suspended.
THEOREM GuardSuspensionIsFinal ==
  ASSUME UniqueIds
  PROVE  GuardSpec => SuspensionIsFinal
<1>1. GuardInv /\ [GuardNext]_vars =>
         [\A c \in Calls :
             contexts[c].status = "SUSPENDED" => contexts'[c].status = "SUSPENDED"]_vars
  BY GuardStep
<1> QED
  BY <1>1, GuardInvariant, PTL DEF GuardSpec, SuspensionIsFinal
=============================================================================
