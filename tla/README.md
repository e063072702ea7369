# Verification of guard_backbone

TLA+ specifications of the parts of guard_backbone that decide, record and enforce, checked by
TLC on small instances and, for the results listed below, proved by TLAPS for every value of
the constants. Every definition is translated from the source; `PROJECT.json` maps each one to
its lines, lists the runs, the mutants that show that a property can fail, the findings, the
hazards and the theorems.

Contents: [the system](#1-the-system) · [how the modules fit](#2-the-modules) ·
[module by module](#3-from-the-code-to-the-model) · [the runs](#4-what-is-checked) ·
[the proofs](#5-what-is-proved) · [findings](#6-where-the-code-disagrees-with-its-documents) ·
[what is left out](#7-what-is-not-modelled) · [the plan](#8-the-plan)

To check a run: `tlc -config MCAuditStore_crash.cfg MCAuditStore.tla`; to check the proofs of a
module: `tlapm SafetyLoop_proofs.tla`.

## 1. The system

guard_backbone authorizes what autonomous agents do. A Python core decides on a request
(`packages/core`), behind a FastAPI gateway (`apps/gateway`) that Envoy asks, or in the
client's own process (`packages/sdk`). A TypeScript package (`packages/enforcement`) watches an
action while it is executed; another one (`packages/scoring`) scores actions and tunes the
scores. A third group (`packages/logic`) keeps, versions, deploys and distributes the policies.

### Safety loop and audit trail (Python)

| Part | State | Operations | Talks to |
|---|---|---|---|
| `AutonomyCore` (core/engine.py) | none of its own: the request in progress | `authorize_action`: identity, policy, budget, simulation, score, gate, record; an except clause that denies | the five providers; the state store |
| `EnforcementLayer`, `ScoringModule` | none | `validate`, `calculate_score`, each saving an audit event | the state store |
| `FileStateStore` (core/state/impl.py) | `last_audit_hash.txt`, one file per event under `audit_events/`, agents, proposals, decisions | `save_audit_event`, `get_audit_events`, plain saves and loads | the file system; **every process that uses the default configuration uses the same directory** |
| Gateway (app.py) | event bus with a queue per SSE subscriber | `/v1/authorize`, `/ext_authz`, queries | `AutonomyCore` |
| SDK (client.py, middleware.py) | none | REST calls, or an in-process `AutonomyCore`; `circuit_breaker` | `AutonomyCore` or the gateway |
| Envoy (envoy.yaml) | none | asks `/ext_authz` with a timeout of 0.5 s, `failure_mode_allow: false` | gateway |

*Hard:* two processes in one directory without a lock; files that are truncated before they are
written; a crash or an I/O error between any two file operations, in particular between an
approval that has been computed and the record of it; event ids built from memory addresses;
two notions of approval (the flag for Envoy, the score for the circuit breaker).
*Correct when:* an approval has passed every check and nothing raised; the decision that was
returned is the one on file; the trail links every record to its predecessor and loses none;
every request is answered; both kinds of caller act on the same verdict.

### Runtime enforcement (TypeScript, `packages/enforcement`)

| Part | State | Operations | Talks to |
|---|---|---|---|
| `GuardrailOrchestrator` | `activeActions`: action id → context | `coordinate` | the layers, the event bus |
| Pre-execution layer, `PredictiveRiskEngine` | behaviour vectors | `validate`, `evaluate` → PROCEED, HOLD, BLOCK | propagation (multiplier) |
| In-process layer, monitor, anomaly engine | steps of the action | `execute`, `recordStep` | propagation (tightness) |
| Intervention layer | applied interventions | `process` | the context |
| Post-execution layer, remediation engine, stability feedback | trust penalties | `audit`, `remediate` | the context |
| `ViolationPropagationModule` | `riskMultiplier`, `thresholdTightness` | `handleViolation`, `recalibrate` | all later actions |
| Threshold adaptation | outcome window, profile | `recordOutcome` | risk and anomaly engines |
| `GuardrailsAPI` | `liveStatus` | `startTrackedAction`, queries | orchestrator; event bus |
| `service.ts` | none | answers `IDENTITY_VERIFIED` | orchestrator; event bus |

*Hard:* calls interleave at every await and share the multiplier, the tightness and, for equal
action ids, an entry of `activeActions`; listeners run synchronously inside the emission, so a
status is overwritten inside the statement that set another one; a verdict is computed before
an await and used after it; the status is overwritten after the 500 ms of execution.
*Correct when:* a rejected action never executes; an audit with a critical violation on record
never passes; a suspension is final; every violation is answered and counted once; nothing is
left in `activeActions`; what the API shows of a finished action is final; every action is
answered.

### Policies (Python, `packages/logic`)

| Part | State | Operations | Talks to |
|---|---|---|---|
| `LiveUpdateEngine` | `_states`, `_workflows`, `_subscriptions`, the monitor thread and its event | `start`, `stop`, `register_workflow`, `unregister_workflow`, `apply_change`, `sync_once` | change source; translator; the workflows' stores |
| `VersionControlEngine` | table of deployments, table of adoptions | `prepare_deployment`, `record_test_results`, `promote_to_production`, `rollback`, `track_adoption` | SQLite through SQLAlchemy; `PolicyRepository` |
| `TamperEvidentLedger` | table of decisions, each with the hash of the one before | `record_decision`, `verify_chain` | SQLite |
| `PolicyRepository` | table of policies and templates | `save_policy`, `get_policy`, `clone_template`, listings | SQLite |
| `PolicyEnforcer`, OPA | none | `evaluate` | HTTP |
| `TemplateExtensibilityModule` | none of its own | `create_template`, `customize_template`: check, save, integrate | repository; live update |
| `PolicyConflictDetector` | `_audit_log` | `scan_once` | repository |
| Translator, parser | none | pure functions on texts | |

*Hard:* two locks of which each guards half of what a registration reads; a broadcast outside
both; a monitor thread that dies of an exception in the middle of a batch; `stop` that gives up
waiting; transactions that begin with the first write, after the reads they depend on; checks and
saves of templates and reads and inserts of the ledger in transactions of their own; records
ordered by a clock that may stand still.
*Correct when:* every registered workflow has the current policies; a policy never goes back to
an older text; the last change pushed wins; every change arrives; one deployment is in
production, it was promoted there, and nothing takes the last one away; what the ledger accepts
is one chain and a change to it is found; templates on file do not clash, what becomes live is a
stored policy without a forbidden keyword, and a contradiction is reported exactly when there is
one.

### Scoring (TypeScript, `packages/scoring`)

| Part | State | Operations | Talks to |
|---|---|---|---|
| `RiskScoringEngine` | adaptive weights, `adaptiveMultipliers` | `scoreDecision`, `updateCalibrationFromFeedback`, `applyAdaptiveMultiplierDeltas` | |
| `ClassificationEngine` | `violationHistory` | `classify`, `recordOutcome` | the preemptive detection's risk lift |
| `HumanOverrideInterface` | `pendingRequests`, `overrideHistory` | `createOverrideRequest`, `submitOverride`, `computeAdaptationSignal` | both engines |
| `ThresholdOptimizationEngine` | signal buffer and archive, sensitivities, bias, versions | `ingestSignal`, `optimize`, `rollback` | both engines; the pattern of the overrides |
| `DecisionBlockingAPI` | none of its own | `evaluateAction`: evaluate, await, score, classify, directives | evaluation framework; both engines |
| `PreemptiveDetectionLayer` | outcomes of earlier decisions | `recordOutcome`, `assess` → a risk lift | the caller passes the lift on |
| `HistoricalFeedbackIntegrator` | history of predictions and outcomes | `integrate` | scoring multipliers, simulation assumptions, compliance biases |
| Simulation, compliance estimator | assumptions; biases | `simulate`, `estimate`, calibration | |
| Resource analyzer, strategic alignment | goals, initiatives, objectives | functions of an action | |

*Hard:* two loops change the same multipliers and the same history, at different rates and
through different clamps; an override reaches both loops, once directly and once as a signal;
versions, signals, overrides and outcomes are trimmed, each by a rule of its own; a rollback
restores one part of the state and approaches the other; a request is evaluated before an await
and classified after it, with what was learned in between; errors are predicted minus realized in
one place and the other way round in another.
*Correct when:* every multiplier, sensitivity and threshold stays within its clamps; a request is
resolved once; every signal is processed once; an outcome is counted once; the active version
is what is in force; a signal pushes the scores to its own side; more risk never makes a verdict
milder, nor does a recent violation, or a severe one anywhere in the history, in the place of a
clean outcome; feedback moves a forecast towards what was observed, and feedback
that found no error moves nothing.

The rest of the repository (dashboards, launchers, the compiled copy of the scoring package,
deployment files) has no state to check. `PROJECT.json` lists all of the parts with their
status.

## 2. The modules

```
HashChain                     the abstract trail: append a record that names the tip
  ^ implemented by
AuditStore                    the file operations of save_audit_event, any processes
  ^ EXTENDS
SafetyLoop                    authorize_action on top of it, and its callers

Guardrails                    coordinate, its layers, propagation, the API, the service
LiveUpdate                    the monitor, registrations, the workflows' stores
VersionControl                deployments of a policy
Ledger                        record_decision and verify_chain
PolicyConflicts               the detector's operators
  ^ EXTENDS
PolicyTemplates               templates, the repository, what becomes live, scans

AdaptiveScoring               the multipliers and the violation history, and what changes them
  ^ EXTENDS          ^ EXTENDS
HumanOverride        ThresholdOptimization
  ^ EXTENDS          ^ EXTENDS
ScoringFeedback               both on the same engines, and what passes between them

AdaptiveScoring
  ^ EXTENDS
Classification, PreemptiveDetection, RiskScore, StrategicAlignment (StrategicContext: its data)
  ^ EXTENDS
ActionEvaluation              evaluateAction of the framework, and what it has learned
  ^ EXTENDS
HistoricalFeedback            a batch of feedback, applied to three modules
  ^ EXTENDS
DecisionBlocking              a request around its await, with everything that teaches meanwhile
```

`MC*` modules give names to small instances, one `.cfg` per run. `*_proofs` modules hold the
theorems. An operator whose name continues another one's after an underscore
(`Poll_LastFirst`) is that operator with a plausible bug; no specification uses it, the mutants
of `PROJECT.json` do.

## 3. From the code to the model

**HashChain.** `README.md:46`: "Each record includes the hash of its predecessor". A set of
records and a tip; `Append` is the only step.

**AuditStore.** One variable per file: `last_audit_hash` and `audit_events`; `save[w]` is the
program counter of the save that process `w` is in. `ReadLastHash` is `_get_last_hash` and the
computation in memory (impl.py 101-113), `OpenEvent`/`DumpEvent` the `open(..., "w")` and the
`json.dump` of `_write_json` (70-72), `OpenLastHash`/`WriteLastHash` the truncation and the write
of `write_text` (58-59). `AbortSave` cuts a save short at any of them: a kill or an `OSError`, in
the processes of `MayAbort`. A second writer of an event's file may leave the tail of the longer
text: `Garbled`. SHA-256 is free of collisions: hashes are numbers in the order of computation.
The field `by` is auxiliary.

**SafetyLoop.** Each process runs one `authorize_action` at a time: no await of the loop
suspends (the providers are synchronous below their `async`). Between two saves the loop touches
nothing shared, so the checks up to the next save are one step with the read that begins that
save: `Submit` (identity, policy; engine.py 52-66), `Assess` (policy verdict, budget, simulation,
score; 65-84), `Gate` (83-101), `Return`; `SimulationRaises`, `SaveRaises`, `Failure` are the
except clause (103-117) and what leads to it; `Crash` kills the process. The providers are
modelled by what they can answer: the budget says no or raises (both deny in the code), the
simulation returns one of `Impacts` or raises. Scores are in tenths.

**Guardrails.** `pc[c]` is the await at which call `c` is suspended; an action is the code
between two awaits, listeners included, since the event bus calls them in place. `Emit` is
`emitViolation`: propagation (`Propagate`) and the orchestrator's listener, which intervenes in
the context that `activeActions` holds *now* under the call's id. `BaseRisk`, `Recommendation`,
`AnomalyAction`, `MultiplierIncrease` and `TightnessIncrease` are the code's formulas in
thousandths or hundredths. A step finds any violations that checks 1-5 can produce, one of each
severity at most, and the anomaly engine's.

**LiveUpdate.** Two locks and the accesses outside of them: `Register`, `RegisterNext`,
`RegisterApply`, `RegisterEnds` are one `register_workflow`, which holds `_workflow_lock`
throughout and reads `_states` item by item; `Resized` is the RuntimeError of that iteration.
`Poll`, `Commit`, `Snapshot`, `Install`, `EndBroadcast` are the monitor: `fetch_changes`, the
commit under `_state_lock`, the snapshot under `_workflow_lock`, a store at a time. `ApplyRaises`
is an exception in the translator or in a store, after which the thread is `dying` and `dead`; a
store that raises in a registration ends that (`RegisterEnds`). `start` may run while `stop` is in
`join`: `stopping` keeps which thread that waits for. Calls of `start` do not overlap, nor do
calls of `stop`; each one's assignments are one step. `changes` numbers the changes as they are
pushed; `ready`, `missed` and `lost` are auxiliary. `Policies` is finite (`LiveUpdateAssumption`):
it is the key set of a dict, and a registration compares sizes.

**VersionControl.** A session is one SELECT (two for `rollback`), then one write that is atomic:
SQLite through SQLAlchemy begins the transaction with the first write, and writes the attributes
that differ from what was loaded. Thus `BeginPromote`/`CommitPromote` and so on; the bulk UPDATE
of `promote_to_production` works on the table as it is, the status that `rollback` sets on the
record it has loaded. `WithResults` shows that a JSON column whose dict is changed in place and
assigned again is not written. `utcnow()` never gives a time twice. `promoted`, `raced` and
`issued` are auxiliary.

**Scoring.** The methods are synchronous and run on one thread: each one is a step. A number
is a multiple of 1/10000 and every product and quotient is cut off towards zero, where the
code computes with doubles; the constants of the code are exact in this scale. The limits of a
shift (`maxShiftPerCycle`) and the clamps of sensitivities, bias and multipliers have the code's
default values. **AdaptiveScoring** has the two operations on the multipliers (`Calibrate`,
RiskScoringEngine 243-299; `ApplyDeltas`, 142-160) and `RecordOutcomes`. **HumanOverride** has
`SubmitOverride` with its checks in their order and with both engines fed in the same step, since
nothing between `resolved = true` and the last feed can raise or suspend; `AdaptationSignal` is
`computeAdaptationSignal`. **ThresholdOptimization** has `DemandOf` for the four types of signal,
`DimensionDelta` and `ConservatismDelta` for the two weighted means, `CappedDeltas` for
`capDeltas`, and `Optimize`, `CreateVersion`, `Rollback`. A signal's `weight` is its confidence
after the decay by its age. **ScoringFeedback** composes them: a record of the override history
may become a signal (`createOverrideSignal`), any number of times, and `optimize` may be called
with or without the pattern of the overrides. Left out because they reach the report alone: the
running error rates, the shift of the threshold band, whether a delta was capped.

**Ledger.** `record_decision` takes the time, fetches the latest record and inserts, with nothing
that joins the three: `Begin`, `Fetch`, `Insert`, and `Fail` at any of them. `Tick` moves the
clock, which may stand still between two calls; `Latest` may then be any of several records, as
`order_by(timestamp)` leaves it open. A hash is the triple that is hashed. `verify_chain` is
`Verified` on one of the `Orders` the query may return. `seen` and `disturbed` are auxiliary.

**PolicyTemplates, PolicyConflicts.** Every method of `PolicyRepository` is a session of its own,
so a call is three steps: `CreateTemplate` or `CustomizeTemplate` (what is read and checked),
`Save`, `Integrate`; the validation of `customize_template` comes after its save. `Save` respects
the unique index of id and version, and may fail otherwise too. The detector is a set of operators
(`NumericBounds`, `IntersectionExists`, `ConditionsContradict`, `LatestByPolicyId`, `Scans`) and
one action, `Scan`. Texts are members of a small set, of which `Forbidden` names those with a
forbidden keyword. `seen` is auxiliary.

**A decision.** `evaluateAction` of `DecisionBlockingAPI` awaits the evaluation framework: `Begin`
is the code up to there, `Finish` what follows, and violations (`ClassificationEngine`),
downstream outcomes (`PreemptiveDetectionLayer`) and feedback (`HistoricalFeedbackIntegrator`)
may be recorded in between. **ActionEvaluation** computes what the framework computes of a raw
action: simulated impact, resources, compliance per stage with the learned biases, strategic
alignment (**StrategicAlignment**, on the default goals of **StrategicContext**). **RiskScore** is
`scoreDecision`: nine dimensions, their weights recalibrated by the context and normalised.
**Classification** is `classify`: the trend of the violation history, the shift of both
thresholds, the least gap between them, the escalation by a lift. **HistoricalFeedback** derives
the lesson of a history and applies it, to the whole of the history each time as the code does.
An action is its type, the indicators its text contains and the sizes that are compared. The
noise of the simulation is drawn at either end of its amplitude. A sum of the code is a
`SumFunction` over the indices it adds up; weights that are all 0 fall back to uniform ones, as
`normalizeWeights` does.

## 4. What is checked

Every run is exhaustive within its bounds. `feedback_cycle` takes about two minutes, every other
run less than one or little more.

| Run | Instance | Shows |
|---|---|---|
| `store_crash` | 2 processes, 3 ids used once, 4 saves, any save of one process cut short | `NoGap`: no record and no tip names a record that is not there; `RecordsKept`: a record is never changed; `OwnBranch`: the process that is not cut short never forks its own branch |
| `loop_crash` | 1 process, 2 requests, every check failing or passing, crash and I/O error anywhere | `ApprovedOnlyIfChecked`, `BreakerAgrees`, `DecisionOnRecord`, `ApprovalHasEvidence`, `EveryRequestAnswered` |
| `loop_gap` | 1 process, 2 requests at one address | *violation* of `LedgerHasNoGap` (finding 1) |
| `guard_api` | 2 actions of the API with their own ids, 1 step each | `EveryViolationAnswered`, `SuspensionIsFinal`, `LiveStatusIsFinal`, `EveryActionAnswered`, `GuardTypeOK` |
| `guard_shared` | 2 calls of the service with one id, 2 steps each | `CriticalNeverPasses`, `RejectedNeverExecutes`, `NoLeak` |
| `live_one` | 1 monitor, 2 policies, 2 texts, 1 workflow, 2 changes, exceptions | `WorkflowsUpToDate`, `NoDowngrade`, `LastChangeWins`, `EveryChangeArrives` |
| `version_shared` | 2 sessions, 2 versions, 2 environments, 3 rows | `OneProduction`, `OnlyPromotedInProduction`, `StaysInProduction` |
| `version_results` | 1 session | *violation* of `ResultsRecorded` (finding 2) |
| `feedback_cycle` | 2 override requests, 2 stakeholders, 2 rationales; 2 signals of any type, 3 cycles or rollbacks | `ActiveVersionIsState`, `SignalsProcessedOnce`, `OutcomesCounted`, `RollbackApproaches`, `SignalsPushTheirWay` |
| `decide_learned` | 2 actions, 2 contexts, 3 lessons out of 3 outcomes (clean, or a violation of severity 0.65 or 0.2), 2 downstream outcomes and 3 batches, before a request or during its await | `ViolationNeverRelaxes`, `RiskierNeverMilder`, `MissLowersForecast`, `RecurrenceEscalates`, `ExactTeachesNothing`, `BlockingTypeOK` |
| `ledger_shared` | 2 writers, 3 ids, 2 decisions, a clock of 3 values, failures at any step | `ChainVerifies`, `AcceptedIsOneChain`, `ChangeDetected` |
| `policies_shared` | 2 callers, 3 templates that bound one amount, 6 customizations, 2 records, 1 scan | `TitlesClashOnlyInOverlap`, `LiveIsStored`, `ScanFindsContradictions` |

**Bounds.** A fork, a gap or an overwritten record needs two saves that overlap; three ids and
four saves leave room for one more in each process. Two requests are what it takes to reuse an
address and to interleave two loops; the hashes (`MaxHash`) cover every save they make. Two steps
let a suspension hit the first and the second one; the multiplier needs eight critical violations
to saturate, which the type invariant does not depend on, so the cap is exercised on the
tightness. Two changes are the fewest that can overtake each other (the safety properties of
LiveUpdate also hold with three). Three deployments are the fewest with one in production, one
archived and one to be restored; all rows a rollback inserts count. In `feedback_cycle` the sizes
that the code keeps at 10 or more are scaled down so that they are reached: the violation history
holds 3 outcomes of the 4 that can come, the window of the overrides 1 of 2 and 2 versions are
kept of 4 (a version that was trimmed cannot be rolled back to); a pattern of overrides needs one
sample where the code needs 5. Two signals are the fewest that can be processed together or in two
cycles, with a rollback before, between and after. In `decide_learned` three lessons
(`MaxLearned`) are enough for the recurrence of a failure to be counted (`MinSamples` 2 where the
default is 3, `MinimumSampleSize` 1 where it is 8), for the violation history of three to have a
recent and an older half, and for a history of two batches to be trimmed; the three learning
rates, all 0.2 by default, differ; the actions are one whose text serves the default goals and one
that undermines them, the contexts one at rest and one with every alarm on. In `ledger_shared`
three ids give a chain with an inner record, and a clock of `MaxTime` 2 lets two of three records
share a time. In `policies_shared` two records (`MaxRecords`, a constraint) are what a clash, a
contradiction and an outdated version take, and the bounds meet at one number, open, closed or
excluded; `MaxLog` 1 lets one scan that finds something in. `CHECK_DEADLOCK FALSE` everywhere: the
counters that bound a run end it, and a system without requests rests.

**Fairness.**
- `WF(Work(w))`: a process that is not killed goes on with its request. Nothing in the loop
  waits for another process; `Crash` and the raising actions are not fair.
- `WF(Advance(c))`: promises settle and timers fire, for an action that has begun.
- LiveUpdate: `SF` of the monitor's step, since the lock of the workflows is free again and again
  while callers register, and a thread that waits for it gets it in the end; `WF` of the steps
  of a registration. Nothing obliges anybody to start the monitor: `EveryChangeArrives` speaks
  of changes while a monitor is alive, and exempts what an exception has dropped.

**Preconditions that matter.** `NoGap` and `RecordsKept` need ids that are not reused
(`UniqueIds`), which the score event breaks. `BreakerAgrees` needs a threshold of at most 85.0
(the default). `EveryViolationAnswered` and `SuspensionIsFinal` need unique action ids;
the properties of `guard_shared` do not. `DecisionOnRecord` needs that no action id is sent
twice: a retry overwrites the decision. The properties of LiveUpdate hold for one monitor; with
`MayOverrun` and two monitors, which `start` after a `stop` that timed out makes possible,
`WorkflowsUpToDate`, `NoDowngrade` and `LastChangeWins` fail. `OneProduction` excludes
environments where a rollback has acted on a stale read, until the next promotion.
`SignalsPushTheirWay` speaks of cycles whose signals are of one type; a mixed cycle weighs them.
`OutcomesCounted` speaks of the time until the archive of the signals is cut for the first time,
since the archive tells which of them were outcomes; `SignalsProcessedOnce` holds after it too.
`TitlesClashOnlyInOverlap` needs customizations that leave `is_template` alone.
`ScanFindsContradictions` speaks of numeric conditions, and excepts the pairs of finding 3
(`MistakenForDisjoint`).
`OwnBranch` speaks of processes that are not in `MayAbort`. `ChainVerifies` needs that calls do
not overlap and the clock moves between them (`disturbed`); without that an untouched ledger may
fail to verify. `MissLowersForecast` speaks of histories in which nothing turned out better than
predicted; mixed histories are weighed.

`ViolationNeverRelaxes` does not speak of a violation in the older half of the history (or of a
history of one) whose severity is below `OutweighsTrend`, 0.65: it does relax the thresholds, since
the momentum of the trend compares the recent half with the older one.

`BlockingAssumption` says what the code guarantees of its inputs: `recordOutcome` limits a
severity before it keeps it (164-168); lengths and counts are natural, loads and boosts are
numbers, and an action is of one of the types; what reaches the preemptive layer is the outcome
of a decision made here, of any agent.

## 5. What is proved

For any number of processes, ids, requests, sessions, versions, environments, calls, policies,
workflows, decisions, templates, customizations, signals, outcomes, actions and batches of
feedback, and any bounds, windows and rates.

| Theorem | States | Assumes |
|---|---|---|
| `StoreTypeOK`, `StoreNoGap`, `StoreKeepsRecords` | `TypeOK`, `NoGap`, `RecordsKept` | the last two: `UniqueIds` |
| `StoreOwnBranch` | two records of a process never name one predecessor, if its saves are not cut short, whatever the others do | |
| `StoreOneChain`, `StoreKeepsChain` | a single process keeps one chain; `AuditStore` implements `HashChain` | one writer, `UniqueIds`, no save cut short |
| `ChainIntact` | the abstract chain never forks and has no missing link | |
| `LoopTypes` | `LoopTypeOK` | |
| `LoopImplementsStore` | every step of the loop is a step of the store or leaves it alone | |
| `LoopOwnBranch` | `OwnBranch` of the loop, inherited from the store | |
| `LoopApprovesOnlyIfChecked` | default deny, with crashes and I/O errors | |
| `LoopBreakerAgrees` | the breaker runs nothing that was not approved | `Threshold <= 850` |
| `LoopDecisionOnRecord`, `LoopApprovalHasEvidence` | the decision returned is the one on file; an approval on file has its policy verdict, saved before it | `~MayRetry` |
| `GuardInvariant` | the inductive invariant: the types, and what a call's status says of its violations at each await | |
| `GuardTypesHold` | `GuardTypeOK`, with the ranges of the multiplier and the tightness that all actions share | |
| `GuardCriticalNeverPasses`, `GuardRejectedNeverExecutes`, `GuardNoLeak` | the invariants of `guard_shared` | |
| `GuardEveryViolationAnswered`, `GuardLiveStatusIsFinal`, `GuardSuspensionIsFinal` | the safety properties of `guard_api` | the first and the last: `UniqueIds` |
| `LiveInvariant` | the types and what the order of a workflow's policies rests on | `SingleMonitor` |
| `LiveWorkflowsUpToDate`, `LiveLastChangeWins`, `LiveNoDowngrade` | the safety properties of `live_one` | `SingleMonitor` |
| `VersionTypes`, `VersionOnlyPromoted`, `VersionOneProduction` | the invariants of `version_shared` | |
| `VersionStaysInProduction`, `VersionPromoteLeavesOne` | its action property; a promotion leaves one deployment in production | |
| `LedgerVerifies`, `LedgerAcceptedIsOneChain`, `LedgerChangeDetected` | the invariants of `ledger_shared` | |
| `LedgerKeepsChain` | `Ledger` implements `HashChain` until two calls overlap or the clock stands still between them | |
| `ScoringTypes` | `ScoringTypeOK`: every clamp, window and type of the feedback loops | |
| `ScoringActiveVersion`, `ScoringRollback` | `ActiveVersionIsState`, `RollbackApproaches` | |
| `ScoringSignalsOnce`, `ScoringOutcomesCounted` | `SignalsProcessedOnce`, `OutcomesCounted`, through every trimming | |
| `ScoringDirection` | `SignalsPushTheirWay` | |
| `TypesHold`, `LiveStored` | the types of records and calls; `LiveIsStored` | |
| `TitlesClash` | `TitlesClashOnlyInOverlap` | no customization sets `is_template` |
| `ScanReports`, `ScansExist` | `ScanFindsContradictions`; a scan can always put what it found in order | the first: `NumericConditions` |
| `BlockingTypes` | `BlockingTypeOK`: everything learned stays within the clamps of its module | |
| `BlockingRecurrenceEscalates` | `RecurrenceEscalates`, whatever is learned during the await | |
| `BlockingViolationNeverRelaxes` | `ViolationNeverRelaxes`, for any history, posture and entropy | `HistoryWindow <= 500` (the default is 50, `ClassificationEngine.ts:84`): the cut-off of the fixed-point shares must stay small beside one outcome's share |
| `BlockingRiskierNeverMilder` | `RiskierNeverMilder`, for any action, circumstances and multipliers | |
| `BlockingExactTeachesNothing`, `BlockingMissLowersForecast` | what a lesson may do: `ExactTeachesNothing`, `MissLowersForecast` | |

The theorems about decisions assume `BlockingAssumption`, those about templates
`TemplatesAssumption`: what section 4 says of the inputs.

**Why `NoGap` is inductive.** By itself it is not: a save in progress will put its `prev` into a
record and its `hash` into the tip. `GapInv` adds that no two saves have one file and that a
save's file is as far as its program counter says (`OwnsFile`), and that the `prev` of every save
is linked (`SavesLinked`). A record then never changes, so what was linked stays so.

**`OwnBranch`.** `BranchInv` keeps the hashes in play apart (`HashesInPlay`). Its heart is
`Spent`: the predecessor a record names is neither the tip nor about to become it, or else the
process that wrote the record has not finished that very save; and a process only reads the tip
when it has finished. `SameSave` covers the time between the read and the dump.

**The refinement.** The tip of the chain is the hash of the save that has been dumped and not yet
written to `last_audit_hash.txt`, otherwise the file's text. `SingleInv` says that with a single
writer the tip stays what the save in progress has read until its record is there, and that
nobody reads it truncated; the dump is `Append`, every other step stutters.

**`ApprovedOnlyIfChecked`.** `CheckInv` carries the verdicts along the phases of a request: one in
phase `score` has passed identity, policy and budget; one that is recorded as approved has also
passed the gate and has not raised; `failing` can only become a denial. The same invariant says
that every denial has a score above 85.0 or none, hence `BreakerAgrees`.

**`OneProduction`.** What a session knows and no other session can undo is `Known`: the rows it
names exist and are of its environment (`Grows`: rows are never deleted or moved), and a rollback
has chosen a row if it saw any. If the environment is not in `raced`, what it saw is what there
is, at most one row, so it is the chosen one, which is rolled back by the same write that inserts
the new record.

**Scoring.** `Clamp` lands between its limits whatever it is given, which gives the ranges.
`VersionsInOrder` and `NewestInForce` are kept together by `VersionCreated`, for cut and uncut
histories alike; a rollback's arithmetic is `HalfOfTheWay`. `FeedbackInv` follows the signals:
archive and buffer hold the newest of them in the order of their numbers (`SignalsInOrder`), the
versions kept cut the numbers of the processed ones into consecutive runs (`NamedInOrder`), and
the violation history has grown by one for each resolved override and each processed outcome
(`OutcomesCounted`, with `TellingJoined` for what a batch adds). The direction of a cycle is an
argument about signs: all signals of one type demand one direction, so every term of both weighted
means has one sign or is 0, and neither the cap, nor the learning rate, nor the clamps turn it.

**Sums.** The code adds up over batches, dimensions and stages. The induction theorems of the
library cannot be used (see below), so `SumsExist` shows from the least element of a set of
numbers that the recursive function behind `SumFunction` exists, `SumUnfolded` that it is what is
chosen, and `SumsTogether` that a relation which holds of empty sums and which one more element
keeps, holds of the sums of two functions and of their number of terms. `SumStays`, `SumGrows` and
`SumAtLeast` are what the other proofs use.

**Evidence.** `DecisionOnRecord` and `ApprovalHasEvidence` speak of files that other processes
write around. `EvidenceInv` says that an action is in the hands of one process at most
(`OneWorker`), that its files are as far as the phase of its request says (`FilesOf`), and that
hashes are issued in order (`HashesIssued`), so the policy verdict of an approval on file is
older (`Backed`). A retry would put a second process on the same files: hence `~MayRetry`.

**Guardrails.** `Touched` says what a context can look like after it has received violations; the
proofs of the actions need nothing else of the propagation. `GuardInv` has four parts: the types;
`Registered`, an entry of `activeActions` names a call in progress with that id; `SafeCall`, what
each call's status says of its violations at each await, which holds with shared ids too; and, with
unique ids, `Distinct` and `OwnContext`: a call's violations reach its own context, were all
answered, and the API shows the status it ended with. One lemma per action (`CoordinateKeeps` and
so on) derives the parts from what the step does to the calling context and to the others. The two
shared counters grow by a natural number in every step, up to their caps, because a step emits
finitely many violations; what a throttled step holds back must be finite for that as well
(`Counters`, `CountersStep`).

**The live engine.** Two threads write to a workflow without a common lock. `LiveInv` adds that
the batch of the monitor is exactly what is left of the fetched changes, oldest first
(`BatchInOrder`), so a policy's commits have growing numbers (`StatesApplied`) and no workflow
is ahead (`InstalledBehind`); and that the policy a registration holds is current or has one
successor, whose broadcast waits for the lock that the registration holds (`HeldIsCurrent`).
`Replayed` says which policies the registration still owes; it becomes `WorkflowsUpToDate` when
it returns. With two monitors none of this is so, and the properties fail.

**The ledger.** `LedgerInv` is `Rows` (each row is what `RecordOf` built from its predecessor,
and hashes are distinct), `Calls` (what a call fetched was latest at that time) and
`Undisturbed` (while no call overlapped and no time was given twice, the times are distinct and
every row `Follows` the one before it in time). `LedgerVerifies` needs all three; what the
ledger accepts is one chain, and a change is detected, already because of `Rows`.

The refinement maps the rows to the records of `HashChain` and the newest row's hash to its tip.
An insert is `Append` as long as what was fetched is still the newest row, which is what
`disturbed` stays false for.

**Templates.** A call copies a record, changes it and pushes it in three steps, so `Types` says
what a call holds at each of them; a call that is about to push has a record without a forbidden
keyword on file, and records are never taken away: hence `LiveIsStored`. `Titles` adds that a
template about to be saved differs in title from all the templates its check has looked at, so what
it clashes with was saved after that check. For the scan, `ContradictionIsUnsatisfiable` compares
the bounds of two conditions with the values that meet both: they differ at the equalities of
finding 3, in one direction only. `LatestIsOne` gives each policy one record in force, and
`ScanCovers` says that an ordered scan is still all that was found.

**Decisions.** `BlockingInv` keeps every learned number within its clamp, and says of a pending
request that a recurring failure whose assessment was passed on carries a lift that reaches the
threshold of review (`PendingOK`), which `classify` escalates whatever the score.

*A violation never relaxes.* `Worsened` compares two histories that differ in one outcome, violated
in the worse one. The sum of the severities is higher by that of the violation (`SumRaised`), so
the severity rate rises by its share of the history (`SeverityRaised`). In the recent half the
momentum does not fall (`RecentRaises`). In the older half it falls by half of one outcome's share
of that half at most (`OlderLowers`), which 0.3 of the trend weighs; the severity, which 0.7
weighs, makes up for it from 0.65 on (`SeverityOutweighs`). The trend does not fall (`TrendGrows`),
and along the code's own chain neither do the shift of the thresholds and the band (`ShiftGrows`,
`BandGrows`).

*A riskier action is never judged milder.* `EvaluatedOK` says what every decision that the
framework can return looks like. Every way of more risk (`Riskier`) is a case of one relation,
`Worse`. The weights depend on the circumstances and not on the decision, and are natural
(`WeightsAreNatural`), so it is enough that no dimension falls: one lemma per dimension
(`OperationalRiskGrows` and so on), gathered in `ScoresGetWorse`. Weighted risk and pressure grow,
the score falls, the verdict is no milder.

*Lessons.* Predictions that came true have errors of 0, means and deviations of 0
(`ZeroErrorsAre`), and then no limited step moves anything but the noise (`NothingMoves`,
`AssumptionsCalm`). If nothing turned out better than predicted, no mean error is positive
(`MissedMeans`): the steps of biases and assumptions go one way (`LimitedStep`), the simulation and
each stage fall (`SimulationFalls`, `StagesFall`), and so does their geometric mean, as the integer
root, which is found by a coarse and a fine search, is monotone (`RootIs`, `RootGrows`). Nothing is
assumed of what was learned before but its clamps.

**Only model-checked:** the liveness properties `EveryRequestAnswered`, `EveryActionAnswered` and
`EveryChangeArrives`, since TLAPS has no rule for fairness here and `ENABLED` is out of its reach.
Every safety property that a passing run checks is proved. Out of reach as well is induction over
data by the library's theorems, whose hypotheses are operators; where a proof needs one, it takes
the least counterexample (`LeastElement`). `LoopTypeOK`, `LiveTypeOK`, `VersionTypeOK`,
`ScoringTypeOK`, `OneChain` and both `KeepsChain` are proved and in no run.

## 6. Where the code disagrees with its documents

1. **A record is overwritten without anybody tampering** (`loop_gap`). The score event is saved
   under `score_{id(action)}`, an address that a later request can have again; the successor of
   the lost record then names a hash that is nowhere.
2. **Test results are lost** (`version_results`). `record_test_results` changes the loaded dict
   in place: for a deployment that has metadata already, nothing is written.
3. **Conditions that agree are reported as contradictory** (`policies_shared`). Of `amount < 5` and
   `amount == 3` the intersection begins and ends at 3, and `policy_conflict_detector.py:308` asks
   whether the other condition's bound, which 3 is not, is included: "numeric ranges do not
   intersect" (line 293), although 3 meets both. `ScanFindsContradictions` holds with the
   exception `MistakenForDisjoint` only.

Observed while reading, without a run of their own:
- The service denies everything: `service.ts:22` waits for `COMPLETED`, which `coordinate` never
  returns, since it goes on to the audit. `ENFORCEMENT_RESULT` is never published as permitted,
  which the chain in `service.ts:11` names (in the model, `published` is never `PERMITTED`).
- The trail forks: `save_audit_event` reads and rewrites `last_audit_hash.txt` without a lock,
  and the gateway and every in-process client use one directory. With two processes two records
  can name one predecessor, which the comment at `core/state/impl.py:102` and `README.md:46`
  exclude. `OneChain` is therefore stated and proved for one writer only; what remains true of
  many is `NoGap` and `OwnBranch`.
- A rollback asks for a learning rate of 1.0, "direct restoration"
  (`ThresholdOptimizationEngine.ts:691`), which `RiskScoringEngine.ts:146` clamps to 0.5: the
  multipliers go half of the way, and towards a copy of the sensitivities, which is what a
  version holds as its `adaptiveMultipliers`. `RollbackApproaches` states what is true.
- An escalation observes a compliance of 0.55 whatever was predicted: when less was predicted, it
  lowers `regulatoryExposure`, although `HumanOverrideInterface.ts:405` calls it a mild signal
  toward tightening.
- High entropy moves both thresholds up by the same amount; `ClassificationEngine.ts:115` says
  that it widens the review band between them.
- `optimize` multiplies by the learning rate twice, once in `capDeltas` and once in
  `applyAdaptiveMultiplierDeltas`; the shift of the threshold band that it computes is not
  applied anywhere.
- A retry with the same action id overwrites the recorded decision of the first attempt.
- The save in the except clause of `authorize_action` can raise; `README.md:350` says it catches
  all exceptions. The callers still deny (in the model, `SaveRaises`).
- After a save of an approval failed late and the save of the denial failed as well, the file may
  say approved although the caller was refused; `DecisionOnRecord` speaks of returned decisions.
- A BLOCK ends `SUSPENDED`: the listener overwrites `PRE_EXECUTION_FAILED`, which `README.md:694`
  calls terminal. It does not execute (`RejectedNeverExecutes`).
- With two calls of one action id, `COMPLETED` overwrites a suspension
  (`guardrail-orchestrator.ts:111`); the audit still fails it (`CriticalNeverPasses`).
- An exception in the middle of a broadcast leaves the fingerprint committed: pushing the same
  text again changes nothing for the workflows that were not reached.
- Test results recorded for the deployment in production take it out of production, and a
  second rollback finds the same version again.
- `PolicyEnforcer` has neither `policies` nor `add_policy`, which the injected workflow, the
  adaptive guardrails and the feedback connector use.
- `register_agent` does not save the agent; every proposal is answered with HTTP 400.
- A blank or garbled event file makes `get_audit_events`, and with it `/ledger`, raise from then
  on.
- Ledger: the newest record can be deleted without `verify_chain` noticing, although
  `README.md:588` says that any deletion is detected at once. Equal timestamps or overlapping
  calls make a ledger that nobody touched fail `verify_chain`.
- Templates: the updates of `customize_template` may set `is_template`, `version` and
  `policy_id`; a customization that is rejected for a forbidden keyword stays in the repository;
  two overlapping `create_template` can store templates that clash. The detector takes the
  record of the latest `effective_date` for the policy in force, `get_policy` the one created last.
- The live engine translates the raw text again, so conditions that were customized are not what
  is enforced, and a new version with the same text is not applied.
- A violation may relax both thresholds (`ClassificationEngine.ts:247-261`). Of three outcomes, a
  first one violated with severity 0.2 gives a trend of 0.047, a clean one in its place 0.15: the
  momentum falls by a half, and the severity makes up for that from 0.643 on, which the default of
  0.6 (line 167) does not reach. A violation alone on record counts as the older half, too, and
  relaxes below 0.214; in long histories the line is near 0.43. `ViolationNeverRelaxes` states
  what is true wherever the violation stands.
- `PreemptiveDetectionLayer` never lifts the risk for failures downstream alone (0.35 is below the
  least failure rate of 0.45), and `DecisionBlockingAPI` does not hold the layer: callers have to
  pass the lift on.
- The violation bias of an action type that no default pattern names has no effect, and every
  batch makes `HistoricalFeedbackIntegrator` apply the whole history again.
- The weights of `scoreDecision` are normalised, so an alert, an incident or sensitive data may
  improve a score; the pressure has a floor of about 0.33, which keeps the score below about 67:
  with default thresholds (72) nothing is approved automatically.

## 7. What is not modelled

- Abstractions: hashes do not collide; scores and risks take the few values that fall on
  different sides of the code's thresholds; severity LOW, which no layer produces, is left out;
  of several violations of one severity in one step, one is kept;
  the adaptive profile is at its initial value, since nothing in the repository records outcomes
  or calls `recalibrate`; no layer throws inside `coordinate`; versions, diff summaries and a
  direct call of `apply_change` are left out of LiveUpdate (such a caller is what a second
  monitor is); one policy in VersionControl, whose adoption records are a single transaction
  that begins with its UPDATE.
- Values of conditions (PolicyConflicts) are a number with its text; 5 against "5" or 5.0, which
  Python compares with `==` in one place and through `str` in another, is left out.
- A `stakeholderAssessment` is in -1..1, as its type's comment says; `submitOverride` does not
  clamp it.
- Network egress is counted in whole megabytes, where the code keeps four decimals.
- Scoring: overrides of single dimensions and explanations; drift over several steps of an
  action, recommendations and the alignment log; the estimate of the entropy of a context that
  passes none; the decay of a signal's confidence; stakeholders that are not active, whose
  verdicts are refused; doubles other than the fixed-point numbers.
- Threshold adaptation (the profile that every five outcomes adjust), which nothing in the
  repository feeds; the growth of the queues of SSE subscribers; `get_audit_events` on a garbled
  file, which only raises; `apply_policy_update` of the injected workflow, which always raises
  before it changes anything.
- Policies: filters by domain, tag and name, adoption records, workflow policies of the detector
  and the wording of its suggestions.
- Out of scope: text processing (translator, parser), user interface,
  generated code, deployment files, the HTTP exchange with OPA.
- Not yet: see the plan, and the components with status `not_modelled`.

## 8. The plan

Done: HashChain, AuditStore, SafetyLoop, Guardrails, LiveUpdate, VersionControl, the feedback
loops of the scoring package, a decision from the raw action to its directives with what is
learned meanwhile, the ledger, templates and the conflict detector. Every safety property that a
passing run checks is proved, under the assumptions of section 5.

Next, in this order:

1. *Adaptation and remediation.* The outcome window and the profile, composed with Guardrails by
   its factor; trust penalties and the rules of the stability feedback.
2. *The pre-execution firewall*, a module of operators checked against its definition.
3. *Templates with LiveUpdate.* `Integrate` is one step that may fail; composed with LiveUpdate
   it would be a direct `apply_change`, a second monitor.
4. *Proofs.* The lemmas about sums are needed by both the scoring and the decision proofs and
   would be better kept in one module.
