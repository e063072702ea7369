----------------------------- MODULE SafetyLoop -----------------------------
(***************************************************************************)
(* AutonomyCore.authorize_action (packages/core/guard/core/engine.py): the *)
(* sequential checks of the Sovereign Safety Loop, the audit events the    *)
(* loop and its modules save on the way, the answer the gateway gives, and *)
(* what the two kinds of caller (Envoy's ext_authz filter and the SDK's    *)
(* circuit breaker) do with it.                                            *)
(*                                                                         *)
(* Every process (Writers: the gateway, in-process SDK clients) runs one   *)
(* authorize_action at a time: none of the awaits of the loop suspends.    *)
(* Processes share the directory of the file-backed store, so the file     *)
(* operations of AuditStore interleave.  The checks between two saves touch *)
(* nothing shared and are one step with the read that begins the next save. *)
(*                                                                         *)
(* Scores are counted in tenths: 0.8 + impact is 8 + 10 * impact.          *)
(***************************************************************************)
EXTENDS AuditStore, FiniteSets

CONSTANTS Actions,      \* action ids
          ScoreIds,     \* memory addresses a request can have: id(action)
          Impacts,      \* impact scores TerraformSimulator.predict_impact can return
          MayRetry,     \* TRUE when a caller sends an action id again
          MaxRequests,  \* bound: number of requests
          Threshold     \* the circuit breaker's threshold, in tenths

ASSUME SafetyLoopAssumption ==
    /\ EventIds = ({"enf", "decision"} \X Actions) \cup ({"score"} \X ScoreIds)
    /\ Payloads = BOOLEAN
    /\ ~UniqueIds
    /\ Impacts \subseteq Nat
    /\ MaxRequests \in Nat
    /\ Threshold \in Nat

VARIABLES loop,      \* the request each process is working on
          submitted, \* the action ids sent so far
          requests,  \* how many requests have been sent
          replies    \* the answers that have left the core

loopVars == <<loop, submitted, requests, replies>>
vars == <<storeVars, loopVars>>

NoRisk == -1   \* risk_score = None
\* Mutant: a denial carries no risk.
Denied_NoRisk == 0

Denied == 1000 \* risk_score = 100.0

\* Verdicts of the checks, as far as they have been run ("raised" counts any
\* exception), and the response computed so far.
Request == [phase : {"policy", "score", "record", "failing", "failure"},
            action : Actions, identity : BOOLEAN, policy : BOOLEAN, funds : BOOLEAN,
            score : Nat \cup {NoRisk}, raised : BOOLEAN,
            is_authorized : BOOLEAN, risk_score : Nat \cup {NoRisk}]

NoRequest == [phase |-> "idle"]

LoopTypeOK ==
    /\ TypeOK
    /\ loop \in [Writers -> Request \cup {NoRequest}]
    /\ submitted \in SUBSET Actions
    /\ requests \in 0 .. MaxRequests
    /\ replies \subseteq Request

Init ==
    /\ StoreInit
    /\ loop = [w \in Writers |-> NoRequest]
    /\ submitted = {}
    /\ requests = 0
    /\ replies = {}

-----------------------------------------------------------------------------

\* EnforcementLayer.validate: only sre-bot-alpha, and no database work.
Validate(sre, database) == sre /\ ~database

\* TerraformSimulator.predict_impact: 100 for a plan that fails, 0 without one.
BlastRadius(deletions, changes, creations) ==
    deletions * 100 + changes * 50 + creations * 10

\* ScoringModule.calculate_score.
ActionScore(impact) == 8 + 10 * impact
ThresholdMet(score) == score <= 850

\* _record_and_return begins to save decision_{action_id}.
RecordAndReturn(w, r, authorized, risk) ==
    /\ ReadLastHash(w, <<"decision", r.action>>, authorized)
    /\ loop' = [loop EXCEPT ![w] = [r EXCEPT !.phase = "record",
                                             !.is_authorized = authorized,
                                             !.risk_score = risk]]

NewRequest(a, identity, policy) ==
    [phase |-> "policy", action |-> a, identity |-> identity, policy |-> policy,
     funds |-> FALSE, score |-> NoRisk, raised |-> FALSE,
     is_authorized |-> FALSE, risk_score |-> NoRisk]

\* SpiffeIdentityProvider.verify accepts sre-bot-alpha without a certificate.
Verify(sre, valid) == sre => valid

\* A request arrives; 1. identity, 2. policy up to the save of enf_{action_id}.
Submit(w) ==
    /\ loop[w] = NoRequest
    /\ requests < MaxRequests
    /\ requests' = requests + 1
    /\ \E a \in Actions, sre, database, valid \in BOOLEAN :
          /\ MayRetry \/ a \notin submitted
          /\ submitted' = submitted \cup {a}
          /\ Verify(sre, valid)
          /\ \/ /\ ~valid
                /\ RecordAndReturn(w, NewRequest(a, FALSE, FALSE), FALSE, Denied)
             \/ /\ valid
                /\ ReadLastHash(w, <<"enf", a>>, Validate(sre, database))
                /\ loop' = [loop EXCEPT ![w] =
                              NewRequest(a, TRUE, Validate(sre, database))]
    /\ UNCHANGED replies

\* Mutant: the verdict of the policy layer is not looked at.
Assess_NoPolicy(w) ==
    /\ loop[w].phase = "policy"
    /\ ~Busy(w)
    /\ \E impact \in Impacts, n \in ScoreIds :
          LET score == ActionScore(impact)
          IN  /\ ReadLastHash(w, <<"score", n>>, ThresholdMet(score))
              /\ loop' = [loop EXCEPT ![w] = [@ EXCEPT !.phase = "score",
                                      !.funds = TRUE, !.score = score]]
    /\ UNCHANGED <<submitted, requests, replies>>

\* The policy event is saved: 2. policy verdict, 3. budget, 4. simulation and
\* 5. scoring up to the save of score_{id(action)}.
Assess(w) ==
    /\ loop[w].phase = "policy"
    /\ ~Busy(w)
    /\ \/ /\ ~loop[w].policy
          /\ RecordAndReturn(w, loop[w], FALSE, Denied)
       \/ /\ loop[w].policy                     \* has_funds says no, or Stripe raised
          /\ RecordAndReturn(w, loop[w], FALSE, Denied)
       \/ /\ loop[w].policy
          /\ \E impact \in Impacts, n \in ScoreIds :
                LET score == ActionScore(impact)
                IN  /\ ReadLastHash(w, <<"score", n>>, ThresholdMet(score))
                    /\ loop' = [loop EXCEPT ![w] = [@ EXCEPT !.phase = "score",
                                            !.funds = TRUE, !.score = score]]
    /\ UNCHANGED <<submitted, requests, replies>>

\* predict_impact raises: authorize_action goes to its except clause.
SimulationRaises(w) ==
    /\ loop[w].phase = "policy"
    /\ ~Busy(w)
    /\ loop[w].policy
    /\ loop' = [loop EXCEPT ![w] = [@ EXCEPT !.phase = "failing", !.funds = TRUE,
                                              !.raised = TRUE]]
    /\ UNCHANGED <<storeVars, submitted, requests, replies>>

\* 6. The decision gate and 7. the approval.
Gate(w) ==
    /\ loop[w].phase = "score"
    /\ ~Busy(w)
    /\ RecordAndReturn(w, loop[w], ThresholdMet(loop[w].score), loop[w].score)
    /\ UNCHANGED <<submitted, requests, replies>>

\* Mutant: a failure is recorded and never returned.
Return_NotFailures(w) ==
    /\ loop[w].phase = "record"
    /\ ~Busy(w)
    /\ replies' = replies \cup {loop[w]}
    /\ loop' = [loop EXCEPT ![w] = NoRequest]
    /\ UNCHANGED <<storeVars, submitted, requests>>

\* The decision is saved and authorize_action returns it.
Return(w) ==
    /\ loop[w].phase \in {"record", "failure"}
    /\ ~Busy(w)
    /\ replies' = replies \cup {loop[w]}
    /\ loop' = [loop EXCEPT ![w] = NoRequest]
    /\ UNCHANGED <<storeVars, submitted, requests>>

\* Mutant: the except clause returns the denial without recording it.
Failure_NotRecorded(w) ==
    /\ loop[w].phase = "failing"
    /\ loop' = [loop EXCEPT ![w] = [@ EXCEPT !.phase = "failure",
                                              !.is_authorized = FALSE,
                                              !.risk_score = Denied]]
    /\ UNCHANGED <<storeVars, submitted, requests, replies>>

\* Mutant: the except clause records and returns the response computed so far.
Failure_KeepsResponse(w) ==
    /\ loop[w].phase = "failing"
    /\ ReadLastHash(w, <<"decision", loop[w].action>>, loop[w].is_authorized)
    /\ loop' = [loop EXCEPT ![w] = [@ EXCEPT !.phase = "failure"]]
    /\ UNCHANGED <<submitted, requests, replies>>

\* The except clause: a denial, and decision_{action_id} is saved (again).
Failure(w) ==
    /\ loop[w].phase = "failing"
    /\ ReadLastHash(w, <<"decision", loop[w].action>>, FALSE)
    /\ loop' = [loop EXCEPT ![w] = [@ EXCEPT !.phase = "failure",
                                              !.is_authorized = FALSE,
                                              !.risk_score = Denied]]
    /\ UNCHANGED <<submitted, requests, replies>>

\* A file operation raises.  Raised by the save of the except clause, the
\* exception leaves authorize_action: the gateway answers is_authorized=False
\* without a risk score (app.py, 223-228) or 403.
SaveRaises(w) ==
    /\ loop[w] # NoRequest
    /\ AbortSave(w)
    /\ \/ /\ loop[w].phase # "failure"
          /\ loop' = [loop EXCEPT ![w] = [@ EXCEPT !.phase = "failing", !.raised = TRUE]]
          /\ UNCHANGED replies
       \/ /\ loop[w].phase = "failure"
          /\ replies' = replies \cup {[loop[w] EXCEPT !.is_authorized = FALSE,
                                                      !.risk_score = NoRisk]}
          /\ loop' = [loop EXCEPT ![w] = NoRequest]
    /\ UNCHANGED <<submitted, requests>>

\* The process is killed and started again: the request is never answered
\* (Envoy: failure_mode_allow is false, the SDK raises).
Crash(w) ==
    /\ w \in MayAbort
    /\ loop[w] # NoRequest
    /\ AbortSave(w) \/ (~Busy(w) /\ UNCHANGED storeVars)
    /\ loop' = [loop EXCEPT ![w] = NoRequest]
    /\ UNCHANGED <<submitted, requests, replies>>

\* The file operations of a save (AuditStore).
SaveStep(w) == FileStep(w) /\ UNCHANGED loopVars

Work(w) ==
    SaveStep(w) \/ Assess(w) \/ Gate(w) \/ Return(w) \/ Failure(w)

Next ==
    \E w \in Writers :
        Submit(w) \/ Work(w) \/ SimulationRaises(w) \/ SaveRaises(w) \/ Crash(w)

Spec == Init /\ [][Next]_vars

\* A process that is not killed works off the request it has begun.
FairSpec == Spec /\ \A w \in Writers : WF_vars(Work(w))

-----------------------------------------------------------------------------

\* ext_authz answers 200 exactly when the response is an approval.
EnvoyForwards(r) == r.is_authorized

\* circuit_breaker runs the function unless float(risk_score) > threshold;
\* float(None) raises.
BreakerRuns(r) == r.risk_score # NoRisk /\ r.risk_score <= Threshold

-----------------------------------------------------------------------------

\* Default deny: an answer approves only when every check was run and passed
\* and nothing raised on the way, the save of the approval itself included.
ApprovedOnlyIfChecked ==
    \A r \in replies :
        r.is_authorized => /\ r.identity /\ r.policy /\ r.funds
                           /\ r.score # NoRisk /\ ThresholdMet(r.score)
                           /\ ~r.raised

\* With its default threshold the circuit breaker, which looks at the score
\* only, runs nothing that the loop has not approved.
BreakerAgrees == \A r \in replies : BreakerRuns(r) => EnvoyForwards(r)

\* The verdict on file for an event, and the position of its record.
Says(e, verdict) == IsRecord(e) /\ audit_events[e].data = verdict

\* The ledger shows every decision that was returned, with its verdict, in spite
\* of crashes, failed saves and other processes.
DecisionOnRecord ==
    \A r \in replies :
        r.risk_score # NoRisk => Says(<<"decision", r.action>>, r.is_authorized)

\* No save is in progress in any process.
Quiet == \A w \in Writers : ~Busy(w)

\* "Each record includes the hash of its predecessor" once nothing is being
\* written: what a reader of the directory needs to tell a trail from one that
\* has lost a record.
LedgerHasNoGap == Quiet => NoGap

\* An approval on file is backed by the policy verdict that allowed it, saved
\* before it.
ApprovalHasEvidence ==
    \A a \in Actions :
        Says(<<"decision", a>>, TRUE) =>
            /\ Says(<<"enf", a>>, TRUE)
            /\ audit_events[<<"enf", a>>].hash < audit_events[<<"decision", a>>].hash

\* Every request is answered, whatever raises, unless its process is killed.
EveryRequestAnswered ==
    \A w \in Writers : loop[w] # NoRequest ~> loop[w] = NoRequest

=============================================================================
