------------------------- MODULE MCDecisionBlocking -------------------------
(* DecisionBlocking on a small instance.                                     *)
EXTENDS DecisionBlocking, StrategicContext

\* A deployment with a clear intent, and a large deletion with a vague one.
Deployment ==
    [type |-> "DEPLOY", agent |-> "A", text |-> {"deploy", "cloud"},
     intentLength |-> 40, params |-> 2, bytes |-> 64, delegation |-> 1]

Deletion ==
    [type |-> "DELETE", agent |-> "A", text |-> {"delete", "disable logging", "logging"},
     intentLength |-> 12, params |-> 3, bytes |-> 30000, delegation |-> 0]

SomeActions == {Deployment, Deletion}

Calm == [loadFactor |-> 2000, incidentActive |-> FALSE, regulatoryAlert |-> FALSE,
         recoveryBacklogSeconds |-> 0]
Alert == [loadFactor |-> 8000, incidentActive |-> TRUE, regulatoryAlert |-> TRUE,
          recoveryBacklogSeconds |-> 3600]

SomeCircumstances ==
    {[system |-> Calm, dataSensitivity |-> 1000, budgetPressure |-> 1000, riskPosture |-> 0,
      entropyLevel |-> 1000, dimensionPriorities |-> [d \in {} |-> Scale]],
     [system |-> Alert, dataSensitivity |-> 7000, budgetPressure |-> 5000, riskPosture |-> 5000,
      entropyLevel |-> 4000, dimensionPriorities |-> [d \in {"financialCost"} |-> 15000]]}

SomeTargets == {[platforms |-> {"LINUX", "KUBERNETES"}, mode |-> "strict"]}

\* A severe violation, a mild one, and a clean outcome.
SomeViolations ==
    {[violated |-> TRUE, severity |-> 6500], [violated |-> TRUE, severity |-> 2000],
     [violated |-> FALSE, severity |-> 0]}

\* The deletion fails, and another agent's deletion goes well.
SomeDownstream ==
    {[profile |-> Profile(Deletion), complianceFailure |-> TRUE, downstreamFailure |-> FALSE,
      severity |-> 2000],
     [profile |-> [Profile(Deletion) EXCEPT !.agent = "B"], complianceFailure |-> FALSE,
      downstreamFailure |-> FALSE, severity |-> 0]}

Measured(score, overall, stage, impact) ==
    [k \in {"score", "overall", "execution", "persistence", "taskImpact", "trust"} |->
        CASE k = "score" -> score [] k = "overall" -> overall
          [] k \in Stage -> stage [] OTHER -> impact]

\* A prediction that came true, one that was too good, one that was too bad.
SomeBatches ==
    {<<[actionType |-> "DEPLOY", predicted |-> Measured(6000, 8000, 8000, 4000),
        realized |-> r]>> :
        r \in {Measured(6000, 8000, 8000, 4000), Measured(2000, 3000, 2000, -4000),
               Measured(9000, 9500, 9500, 8000)}}
=============================================================================
