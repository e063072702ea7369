--------------------------- MODULE VersionControl ---------------------------
(***************************************************************************)
(* The deployments of one policy in VersionControlEngine                   *)
(* (packages/logic/guard/logic/version_control/engine.py), used by several *)
(* sessions.  The engine reads and writes through SQLAlchemy on SQLite:    *)
(* a SELECT sees the last committed state and locks nothing, and the       *)
(* transaction begins with the first UPDATE or INSERT, which waits for     *)
(* every other writer.  So a method is one SELECT, or two, and then one    *)
(* write that is atomic; what a SELECT has returned may be stale by then.  *)
(* The ORM writes the attributes whose value differs from the loaded one.  *)
(*                                                                         *)
(* A deployment's id is its position in deployments; utcnow() is a clock   *)
(* that never gives the same time twice.                                   *)
(***************************************************************************)
EXTENDS Integers, Sequences

CONSTANTS Sessions,
          Versions,      \* versions of the policy in the repository
          Environments,
          MaxDeployments, \* bound: rows of the table
          MaxTime,       \* bound: readings of the clock
          MaxResults     \* bound: test results recorded

ASSUME VersionControlAssumption == {MaxDeployments, MaxTime, MaxResults} \subseteq Nat

VARIABLES deployments, \* the table of DeploymentRecords
          session,     \* what each session is doing
          clock,       \* readings of utcnow() that were stored
          issued,      \* auxiliary: test results handed to the engine
          promoted,    \* auxiliary: the versions promoted in each environment
          raced        \* auxiliary: environments where a rollback has acted on a stale
                       \* read since the last promotion

vars == <<deployments, session, clock, issued, promoted, raced>>

Never == 0
DeploymentStatus == {"STAGING", "TESTING", "PRODUCTION", "ROLLED_BACK", "ARCHIVED"}

\* "meta" tells whether metadata_json is set, "results" the test results in it.
Deployment == [version : Versions, environment : Environments, status : DeploymentStatus,
               deployedAt : 0 .. MaxTime, meta : BOOLEAN, results : 0 .. MaxResults]

Id == 1 .. MaxDeployments
Idle == [op |-> "none"]

\* A session between its SELECT and its write.  "loaded" is the row as it was read,
\* "current" and "previous" the ids that rollback found, "seen" every id it could find.
Session ==
    {Idle}
    \cup [op : {"tests"}, id : Id, loaded : Deployment, results : 1 .. MaxResults]
    \cup [op : {"promote"}, id : Id]
    \cup [op : {"select"}, environment : Environments, current : SUBSET Id, seen : SUBSET Id]
    \cup [op : {"rollback"}, environment : Environments, current : SUBSET Id,
          seen : SUBSET Id, version : Versions, at : 1 .. MaxTime]

Ids == DOMAIN deployments

\* The types; a deployment that is or was in production has a time of deployment.
VersionTypeOK ==
    /\ deployments \in Seq(Deployment) /\ Len(deployments) <= MaxDeployments
    /\ \A d \in Ids : deployments[d].status \notin {"STAGING", "TESTING"} =>
                         deployments[d].deployedAt # Never
    /\ session \in [Sessions -> Session]
    /\ clock \in 0 .. MaxTime /\ issued \in 0 .. MaxResults
    /\ promoted \in [Environments -> SUBSET Versions]
    /\ raced \in SUBSET Environments

VersionInit ==
    /\ deployments = <<>>
    /\ session = [s \in Sessions |-> Idle]
    /\ clock = 0 /\ issued = 0
    /\ promoted = [e \in Environments |-> {}]
    /\ raced = {}

In(e, st) == {d \in Ids : deployments[d].environment = e /\ deployments[d].status = st}

InProduction(e) == In(e, "PRODUCTION")

Goes(s, r) == session' = [session EXCEPT ![s] = r]

-----------------------------------------------------------------------------

\* prepare_deployment only inserts; the version exists in the repository.
PrepareDeployment ==
    /\ Len(deployments) < MaxDeployments
    /\ \E v \in Versions, e \in Environments :
          deployments' = Append(deployments,
              [version |-> v, environment |-> e, status |-> "STAGING",
               deployedAt |-> Never, meta |-> FALSE, results |-> 0])
    /\ UNCHANGED <<session, clock, issued, promoted, raced>>

\* record_test_results: SELECT.
BeginTests(s) ==
    /\ session[s] = Idle
    /\ issued < MaxResults
    /\ issued' = issued + 1
    /\ \E d \in Ids :
          Goes(s, [op |-> "tests", id |-> d, loaded |-> deployments[d], results |-> issued + 1])
    /\ UNCHANGED <<deployments, clock, promoted, raced>>

\* The status is written when it was not TESTING.  metadata_json is written when it
\* was empty: otherwise the loaded dict is changed in place and assigned to itself,
\* which the ORM does not see.  "d" is the row now, "r.loaded" the row as it was read.
WithResults(d, r) ==
    [d EXCEPT !.status = IF r.loaded.status = "TESTING" THEN d.status ELSE "TESTING",
              !.meta = TRUE,
              !.results = IF r.loaded.meta THEN d.results ELSE r.results]

CommitTests(s) ==
    LET r == session[s]
    IN  /\ r.op = "tests"
        /\ deployments' = [deployments EXCEPT ![r.id] = WithResults(deployments[r.id], r)]
        /\ Goes(s, Idle)
        /\ UNCHANGED <<clock, issued, promoted, raced>>

\* promote_to_production: SELECT.
BeginPromote(s) ==
    /\ session[s] = Idle
    /\ \E d \in Ids : Goes(s, [op |-> "promote", id |-> d])
    /\ UNCHANGED <<deployments, clock, issued, promoted, raced>>

\* The bulk UPDATE archives what is in production now, whatever was read before.
CommitPromote(s) ==
    LET d == session[s].id
        e == deployments[d].environment
    IN  /\ session[s].op = "promote"
        /\ clock < MaxTime
        /\ clock' = clock + 1
        /\ deployments' = [i \in Ids |->
              IF i = d THEN [deployments[i] EXCEPT !.status = "PRODUCTION", !.deployedAt = clock']
              ELSE IF i \in InProduction(e) THEN [deployments[i] EXCEPT !.status = "ARCHIVED"]
              ELSE deployments[i]]
        /\ promoted' = [promoted EXCEPT ![e] = @ \cup {deployments[d].version}]
        /\ raced' = raced \ {e}
        /\ Goes(s, Idle)
        /\ UNCHANGED issued

\* rollback: the SELECT of the current deployment, first() of any there are.
BeginRollback(s) ==
    /\ session[s] = Idle
    /\ \E e \in Environments :
       \E C \in IF InProduction(e) = {} THEN {{}} ELSE {{d} : d \in InProduction(e)} :
          Goes(s, [op |-> "select", environment |-> e, current |-> C, seen |-> InProduction(e)])
    /\ UNCHANGED <<deployments, clock, issued, promoted, raced>>

\* Mutant: the query does not filter by environment.
Latest_Anywhere(e) == {d \in UNION {In(f, "ARCHIVED") : f \in Environments} :
                 \A i \in UNION {In(f, "ARCHIVED") : f \in Environments} : deployments[i].deployedAt <= deployments[d].deployedAt}

\* The archived deployment that was deployed last.
Latest(e) == {d \in In(e, "ARCHIVED") :
                 \A i \in In(e, "ARCHIVED") : deployments[i].deployedAt <= deployments[d].deployedAt}

\* The SELECT of the previous deployment, and the new record.
SelectPrevious(s) ==
    LET r == session[s]
    IN  /\ r.op = "select"
        /\ clock < MaxTime
        /\ \E d \in Latest(r.environment) :
              Goes(s, [op |-> "rollback", environment |-> r.environment, current |-> r.current,
                       seen |-> r.seen, version |-> deployments[d].version, at |-> clock + 1])
        /\ clock' = clock + 1
        /\ UNCHANGED <<deployments, issued, promoted, raced>>

\* Mutant: the status is committed before the previous deployment is looked for.
NoPrevious_Commits(s) ==
    /\ session[s].op = "select"
    /\ Latest(session[s].environment) = {}
    /\ Goes(s, Idle)
    /\ deployments' = [i \in Ids |-> IF i \in session[s].current
                                     THEN [deployments[i] EXCEPT !.status = "ROLLED_BACK"]
                                     ELSE deployments[i]]
    /\ UNCHANGED <<clock, issued, promoted, raced>>

\* Nothing to roll back to: the ValueError leaves the transaction unwritten.
NoPrevious(s) ==
    /\ session[s].op = "select"
    /\ Latest(session[s].environment) = {}
    /\ Goes(s, Idle)
    /\ UNCHANGED <<deployments, clock, issued, promoted, raced>>

\* Mutant: the current deployment is left in production.
CommitRollback_KeepsCurrent(s) ==
    LET r == session[s]
    IN  /\ r.op = "rollback"
        /\ Len(deployments) < MaxDeployments
        /\ deployments' = Append(
              [i \in Ids |-> IF FALSE
                             THEN [deployments[i] EXCEPT !.status = "ROLLED_BACK"]
                             ELSE deployments[i]],
              [version |-> r.version, environment |-> r.environment, status |-> "PRODUCTION",
               deployedAt |-> r.at, meta |-> TRUE, results |-> 0])
        /\ raced' = IF InProduction(r.environment) = r.seen
                    THEN raced ELSE raced \cup {r.environment}
        /\ Goes(s, Idle)
        /\ UNCHANGED <<clock, issued, promoted>>

\* INSERT and UPDATE; the current deployment is rolled back whatever became of it.
CommitRollback(s) ==
    LET r == session[s]
    IN  /\ r.op = "rollback"
        /\ Len(deployments) < MaxDeployments
        /\ deployments' = Append(
              [i \in Ids |-> IF i \in r.current
                             THEN [deployments[i] EXCEPT !.status = "ROLLED_BACK"]
                             ELSE deployments[i]],
              [version |-> r.version, environment |-> r.environment, status |-> "PRODUCTION",
               deployedAt |-> r.at, meta |-> TRUE, results |-> 0])
        /\ raced' = IF InProduction(r.environment) = r.seen
                    THEN raced ELSE raced \cup {r.environment}
        /\ Goes(s, Idle)
        /\ UNCHANGED <<clock, issued, promoted>>

\* The database is locked for too long: the write raises.
Fail(s) ==
    /\ session[s].op \in {"tests", "promote", "rollback"}
    /\ Goes(s, Idle)
    /\ UNCHANGED <<deployments, clock, issued, promoted, raced>>

SessionStep(s) ==
    \/ BeginTests(s) \/ CommitTests(s) \/ BeginPromote(s) \/ CommitPromote(s)
    \/ BeginRollback(s) \/ SelectPrevious(s) \/ NoPrevious(s) \/ CommitRollback(s) \/ Fail(s)

VersionNext == PrepareDeployment \/ \E s \in Sessions : SessionStep(s)

VersionSpec == VersionInit /\ [][VersionNext]_vars

-----------------------------------------------------------------------------

\* At most one deployment of the policy is in production in an environment, although
\* sessions interleave, unless a rollback has acted on a stale read: then there may
\* be two, until the next promotion.
OneProduction ==
    \A e \in Environments : e \notin raced => \A c, d \in InProduction(e) : c = d

\* "Automatically updates previous production deployments to ARCHIVED": a promotion
\* leaves exactly its own deployment in production, even where races have left several
\* and others have changed the table since it read its record.
PromoteLeavesOne ==
    [][\A s \in Sessions, e \in Environments :
           CommitPromote(s) /\ deployments[session[s].id].environment = e =>
               InProduction(e)' = {session[s].id}]_vars

\* A policy that is in production somewhere stays there, with one version or another,
\* through promotions, rollbacks, rollbacks that find nothing and failed writes; only
\* test results recorded for the deployment in production take it away.
StaysInProduction ==
    [][\A e \in Environments : InProduction(e) # {} =>
           InProduction(e)' # {} \/ \E s \in Sessions : CommitTests(s)]_vars

\* What a rollback puts in production has been promoted in that very environment.
OnlyPromotedInProduction ==
    \A e \in Environments, d \in Ids :
        d \in InProduction(e) => deployments[d].version \in promoted[e]

\* record_test_results "Records the results of safety and compliance tests": they are in
\* the record when it returns.
ResultsRecorded ==
    [][\A s \in Sessions : CommitTests(s) =>
           deployments'[session[s].id].results = session[s].results]_vars

=============================================================================
