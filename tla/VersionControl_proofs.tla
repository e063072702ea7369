------------------------ MODULE VersionControl_proofs ------------------------
(* Type correctness and safety of VersionControl for any number of sessions, *)
(* versions, environments and deployments.                                   *)
EXTENDS VersionControl, TLAPS

\* Rewriting the rows of the table gives a table of the same length.
LEMMA RowsRewritten ==
  ASSUME NEW T, NEW q \in Seq(T), NEW f \in [DOMAIN q -> T]
  PROVE  f \in Seq(T) /\ Len(f) = Len(q) /\ DOMAIN f = DOMAIN q
OBVIOUS

\* A row inserted at the end leaves the others where they are.
LEMMA RowInserted ==
  ASSUME NEW T, NEW q \in Seq(T), NEW r \in T
  PROVE  /\ Append(q, r) \in Seq(T) /\ Len(Append(q, r)) = Len(q) + 1
         /\ DOMAIN Append(q, r) = DOMAIN q \cup {Len(q) + 1} /\ Len(q) + 1 \notin DOMAIN q
         /\ Append(q, r)[Len(q) + 1] = r /\ \A i \in DOMAIN q : Append(q, r)[i] = q[i]
OBVIOUS

-----------------------------------------------------------------------------

TableOK ==
    /\ deployments \in Seq(Deployment) /\ Len(deployments) <= MaxDeployments
    /\ \A d \in Ids : deployments[d].status \notin {"STAGING", "TESTING"} =>
                         deployments[d].deployedAt # Never

\* A row that is or was the one in production has been promoted where it is.
PromotedRows ==
    \A d \in Ids : deployments[d].status \in {"PRODUCTION", "ARCHIVED"} =>
                      deployments[d].version \in promoted[deployments[d].environment]

\* What a session has read and no other session can undo: the rows it names exist, those
\* of a rollback are of its environment and have been deployed, it has chosen one if there
\* was one to choose, and the version it is about to restore has been promoted there.
Known(r) ==
    /\ r.op \in {"tests", "promote"} => r.id \in Ids
    /\ r.op \in {"select", "rollback"} =>
          /\ r.current \subseteq r.seen /\ (r.seen # {} => r.current # {})
          /\ \A d \in r.seen : /\ d \in Ids /\ deployments[d].environment = r.environment
                               /\ deployments[d].deployedAt # Never
    /\ r.op = "rollback" => r.version \in promoted[r.environment]

KnownRows == \A s \in Sessions : Known(session[s])

\* No row is deleted, moved to another environment or stripped of its time of deployment,
\* and no promotion is forgotten.
Grows ==
    /\ Ids \subseteq Ids'
    /\ \A i \in Ids : /\ deployments'[i].environment = deployments[i].environment
                      /\ deployments[i].deployedAt # Never => deployments'[i].deployedAt # Never
    /\ \A e \in Environments : promoted[e] \subseteq promoted'[e]

TypeInv == VersionTypeOK /\ PromotedRows /\ KnownRows

\* What a session knows stays true while the table grows.
LEMMA StaysKnown ==
  ASSUME Grows, NEW r \in Session, Known(r)
  PROVE  Known(r)'
<1>1. r.op \in {"tests", "promote"} => r.id \in Ids'
  BY DEF Grows, Known
<1>2. ASSUME r.op \in {"select", "rollback"}, NEW d \in r.seen
      PROVE  /\ d \in Ids' /\ deployments'[d].environment = r.environment
             /\ deployments'[d].deployedAt # Never
  <2>1. d \in Ids /\ deployments[d].environment = r.environment /\ deployments[d].deployedAt # Never
    BY <1>2 DEF Known
  <2> QED
    BY <2>1 DEF Grows
<1>3. ASSUME r.op = "rollback"
      PROVE  r.version \in promoted'[r.environment]
  <2>1. r.environment \in Environments
    BY <1>3 DEF Session, Idle
  <2> QED
    BY <1>3, <2>1 DEF Grows, Known
<1> QED
  BY <1>1, <1>2, <1>3 DEF Known

\* One session goes on to r: the others keep what they have, and know it still.
LEMMA SessionGoes ==
  ASSUME NEW s \in Sessions, NEW r \in Session, Goes(s, r), Grows, Known(r)',
         session \in [Sessions -> Session], KnownRows
  PROVE  session' \in [Sessions -> Session] /\ KnownRows'
<1>1. session' \in [Sessions -> Session] /\ session'[s] = r
      /\ \A t \in Sessions \ {s} : session'[t] = session[t]
  BY DEF Goes
<1>2. ASSUME NEW t \in Sessions, t # s
      PROVE  Known(session[t])'
  <2>1. Known(session[t]) /\ session'[t] = session[t] /\ session[t] \in Session
    BY <1>1, <1>2 DEF KnownRows
  <2>2. \A r_1 \in Session : Known(r_1) => Known(r_1)'
    BY StaysKnown
  <2> QED
    BY <2>1, <2>2 DEF Known
<1>3. Known(session[s])'
  BY <1>1 DEF Known
<1> QED
  BY <1>1, <1>2, <1>3 DEF KnownRows

\* A row is inserted, with its time of deployment if it has been deployed.
LEMMA Inserted ==
  ASSUME TableOK, Len(deployments) < MaxDeployments, VersionControlAssumption,
         NEW q \in Seq(Deployment), Len(q) = Len(deployments),
         \A d \in DOMAIN q : q[d].status \notin {"STAGING", "TESTING"} => q[d].deployedAt # Never,
         NEW r \in Deployment,
         r.status \notin {"STAGING", "TESTING"} => r.deployedAt # Never,
         deployments' = Append(q, r)
  PROVE  /\ TableOK' /\ Ids' = Ids \cup {Len(deployments) + 1} /\ Len(deployments) + 1 \notin Ids
         /\ deployments'[Len(deployments) + 1] = r
         /\ \A i \in Ids : deployments'[i] = q[i]
<1>1. /\ deployments' \in Seq(Deployment) /\ Len(deployments') = Len(q) + 1
      /\ DOMAIN deployments' = DOMAIN q \cup {Len(q) + 1} /\ Len(q) + 1 \notin DOMAIN q
      /\ deployments'[Len(q) + 1] = r /\ \A i \in DOMAIN q : deployments'[i] = q[i]
  BY RowInserted
<1>2. DOMAIN q = Ids
  BY DEF Ids, TableOK
<1>3. Len(deployments') <= MaxDeployments
  BY <1>1 DEF TableOK, VersionControlAssumption
<1>4. ASSUME NEW d \in Ids', deployments'[d].status \notin {"STAGING", "TESTING"}
      PROVE  deployments'[d].deployedAt # Never
  BY <1>1, <1>4 DEF Ids
<1> QED
  BY <1>1, <1>2, <1>3, <1>4 DEF Ids, TableOK

\* Rows are rewritten in place.
LEMMA Rewritten ==
  ASSUME TableOK, deployments' \in [Ids -> Deployment],
         \A d \in Ids : deployments'[d].status \notin {"STAGING", "TESTING"} =>
                            deployments'[d].deployedAt # Never
  PROVE  TableOK' /\ Ids' = Ids
<1>1. /\ deployments' \in Seq(Deployment) /\ Len(deployments') = Len(deployments)
      /\ DOMAIN deployments' = DOMAIN deployments
  BY RowsRewritten DEF Ids, TableOK
<1> QED
  BY <1>1 DEF Ids, TableOK

-----------------------------------------------------------------------------

\* The table is left alone, and one session goes on to a state it knows.
LEMMA OnlySession ==
  ASSUME TypeInv, VersionControlAssumption, NEW s \in Sessions, NEW r \in Session, Goes(s, r),
         Known(r), UNCHANGED <<deployments, promoted, raced>>,
         clock' \in 0 .. MaxTime, issued' \in 0 .. MaxResults
  PROVE  TypeInv'
<1>1. Grows
  BY DEF Grows, Ids
<1>2. Known(r)'
  BY DEF Known, Ids
<1>3. session' \in [Sessions -> Session] /\ KnownRows'
  BY <1>1, <1>2, SessionGoes DEF TypeInv, VersionTypeOK
<1>4. PromotedRows'
  BY DEF TypeInv, PromotedRows, Ids
<1> QED
  BY <1>3, <1>4 DEF TypeInv, VersionTypeOK, Ids

\* One session has written the table and has nothing more to do.
LEMMA Written ==
  ASSUME TypeInv, VersionControlAssumption, NEW s \in Sessions, Goes(s, Idle),
         TableOK', Grows, PromotedRows',
         clock' \in 0 .. MaxTime, issued' = issued,
         promoted' \in [Environments -> SUBSET Versions], raced' \in SUBSET Environments
  PROVE  TypeInv'
<1>1. Idle \in Session /\ Known(Idle)'
  BY DEF Session, Idle, Known
<1>2. session' \in [Sessions -> Session] /\ KnownRows'
  BY <1>1, SessionGoes DEF TypeInv, VersionTypeOK
<1> QED
  BY <1>2 DEF TypeInv, VersionTypeOK, TableOK, Ids

LEMMA PrepareTypes ==
  ASSUME TypeInv, VersionControlAssumption, PrepareDeployment
  PROVE  TypeInv' /\ \A e \in Environments : InProduction(e)' = InProduction(e)
<1>1. PICK v \in Versions, e \in Environments :
        deployments' = Append(deployments,
            [version |-> v, environment |-> e, status |-> "STAGING",
             deployedAt |-> Never, meta |-> FALSE, results |-> 0])
  BY DEF PrepareDeployment
<1> DEFINE row == [version |-> v, environment |-> e, status |-> "STAGING",
                   deployedAt |-> Never, meta |-> FALSE, results |-> 0]
           new == Len(deployments) + 1
<1>2. row \in Deployment /\ row.status = "STAGING"
  BY DEF Deployment, DeploymentStatus, Never, VersionControlAssumption
<1>3. deployments' = Append(deployments, row)
  BY <1>1
<1> HIDE DEF row
<1>4. TableOK
  BY DEF TypeInv, VersionTypeOK, TableOK
<1>5. /\ TableOK' /\ Ids' = Ids \cup {new} /\ new \notin Ids /\ deployments'[new] = row
      /\ \A i \in Ids : deployments'[i] = deployments[i]
  BY <1>2, <1>3, <1>4, Inserted DEF PrepareDeployment, TableOK, Ids
<1> HIDE DEF new
<1>6. Grows
  BY <1>5 DEF Grows, PrepareDeployment
<1>7. PromotedRows'
  BY <1>2, <1>5 DEF PrepareDeployment, PromotedRows, TypeInv
<1>8. KnownRows'
  <2>1. ASSUME NEW s \in Sessions
        PROVE  Known(session[s])'
    <3>1. Known(session[s]) /\ session[s] \in Session
      BY DEF TypeInv, KnownRows, VersionTypeOK
    <3>2. \A r \in Session : Known(r) => Known(r)'
      BY <1>6, StaysKnown
    <3> QED
      BY <3>1, <3>2 DEF PrepareDeployment, Known
  <2> QED
    BY <2>1 DEF KnownRows
<1>9. \A e_1 \in Environments : InProduction(e_1)' = InProduction(e_1)
  BY <1>2, <1>5 DEF InProduction, In
<1> QED
  BY <1>5, <1>7, <1>8, <1>9 DEF PrepareDeployment, TypeInv, VersionTypeOK, TableOK, Ids

LEMMA BeginTestsTypes ==
  ASSUME TypeInv, VersionControlAssumption, NEW s \in Sessions, BeginTests(s)
  PROVE  TypeInv'
<1>1. PICK d \in Ids : Goes(s, [op |-> "tests", id |-> d, loaded |-> deployments[d],
                                results |-> issued + 1])
  BY DEF BeginTests
<1> DEFINE r == [op |-> "tests", id |-> d, loaded |-> deployments[d], results |-> issued + 1]
<1>2. d \in Id /\ deployments[d] \in Deployment /\ issued + 1 \in 1 .. MaxResults
  BY DEF BeginTests, Id, TypeInv, VersionTypeOK, Ids, VersionControlAssumption
<1>3. r \in Session
  BY <1>2 DEF Session
<1>4. Known(r)
  BY DEF Known
<1>5. Goes(s, r)
  BY <1>1
<1> HIDE DEF r
<1> QED
  BY <1>2, <1>3, <1>4, <1>5, OnlySession
     DEF BeginTests, TypeInv, VersionTypeOK, VersionControlAssumption

LEMMA BeginPromoteTypes ==
  ASSUME TypeInv, VersionControlAssumption, NEW s \in Sessions, BeginPromote(s)
  PROVE  TypeInv'
<1>1. PICK d \in Ids : Goes(s, [op |-> "promote", id |-> d])
  BY DEF BeginPromote
<1>2. d \in Id
  BY DEF Id, TypeInv, VersionTypeOK, Ids, VersionControlAssumption
<1>3. [op |-> "promote", id |-> d] \in Session
  BY <1>2 DEF Session
<1>4. Known([op |-> "promote", id |-> d])
  BY DEF Known
<1> QED
  BY <1>1, <1>3, <1>4, OnlySession DEF BeginPromote, TypeInv, VersionTypeOK

LEMMA BeginRollbackTypes ==
  ASSUME TypeInv, VersionControlAssumption, NEW s \in Sessions, BeginRollback(s)
  PROVE  TypeInv'
<1>1. PICK e \in Environments :
        \E C \in IF InProduction(e) = {} THEN {{}} ELSE {{d} : d \in InProduction(e)} :
           Goes(s, [op |-> "select", environment |-> e, current |-> C, seen |-> InProduction(e)])
  BY DEF BeginRollback
<1>2. PICK C \in IF InProduction(e) = {} THEN {{}} ELSE {{d} : d \in InProduction(e)} :
        Goes(s, [op |-> "select", environment |-> e, current |-> C, seen |-> InProduction(e)])
  BY <1>1
<1> DEFINE r == [op |-> "select", environment |-> e, current |-> C, seen |-> InProduction(e)]
<1>3. C \subseteq InProduction(e) /\ (InProduction(e) # {} => C # {})
  OBVIOUS
<1>4. InProduction(e) \subseteq Id
  BY DEF InProduction, In, Id, TypeInv, VersionTypeOK, Ids, VersionControlAssumption
<1>5. r \in Session
  BY <1>3, <1>4 DEF Session
<1>6. Known(r)
  BY <1>3 DEF Known, InProduction, In, TypeInv, VersionTypeOK
<1>7. Goes(s, r)
  BY <1>2
<1> HIDE DEF r
<1> QED
  BY <1>5, <1>6, <1>7, OnlySession DEF BeginRollback, TypeInv, VersionTypeOK

LEMMA SelectPreviousTypes ==
  ASSUME TypeInv, VersionControlAssumption, NEW s \in Sessions, SelectPrevious(s)
  PROVE  TypeInv'
<1> DEFINE q == session[s]
<1>1. PICK d \in Latest(q.environment) :
        Goes(s, [op |-> "rollback", environment |-> q.environment, current |-> q.current,
                 seen |-> q.seen, version |-> deployments[d].version, at |-> clock + 1])
  BY DEF SelectPrevious
<1> DEFINE r == [op |-> "rollback", environment |-> q.environment, current |-> q.current,
                 seen |-> q.seen, version |-> deployments[d].version, at |-> clock + 1]
<1>2. q \in Session /\ q.op = "select" /\ Known(q)
  BY DEF SelectPrevious, TypeInv, VersionTypeOK, KnownRows
<1>3. q.environment \in Environments /\ q.current \in SUBSET Id /\ q.seen \in SUBSET Id
  BY <1>2 DEF Session, Idle
<1>4. d \in Ids /\ deployments[d].environment = q.environment
      /\ deployments[d].status = "ARCHIVED" /\ deployments[d] \in Deployment
  BY DEF Latest, In, Ids, TypeInv, VersionTypeOK
<1>5. deployments[d].version \in Versions /\ deployments[d].version \in promoted[q.environment]
  BY <1>4 DEF TypeInv, PromotedRows, Deployment
<1>6. clock + 1 \in 1 .. MaxTime /\ clock + 1 \in 0 .. MaxTime
  BY DEF SelectPrevious, TypeInv, VersionTypeOK, VersionControlAssumption
<1>7. r \in Session
  BY <1>3, <1>5, <1>6 DEF Session
<1>8. Known(r)
  BY <1>2, <1>5 DEF Known
<1>9. Goes(s, r)
  BY <1>1
<1> HIDE DEF r, q
<1> QED
  BY <1>6, <1>7, <1>8, <1>9, OnlySession DEF SelectPrevious, TypeInv, VersionTypeOK

\* A rollback that finds nothing and a write that fails leave everything alone.
LEMMA LeaveTypes ==
  ASSUME TypeInv, VersionControlAssumption, NEW s \in Sessions, NoPrevious(s) \/ Fail(s)
  PROVE  TypeInv'
<1>1. Idle \in Session /\ Known(Idle)
  BY DEF Session, Idle, Known
<1> QED
  BY <1>1, OnlySession DEF NoPrevious, Fail, TypeInv, VersionTypeOK

-----------------------------------------------------------------------------

\* Test results take at most the deployment they are recorded for out of production.
LEMMA CommitTestsTypes ==
  ASSUME TypeInv, VersionControlAssumption, NEW s \in Sessions, CommitTests(s)
  PROVE  TypeInv' /\ \A e \in Environments : InProduction(e)' \subseteq InProduction(e)
<1> DEFINE q == session[s]
           row(d) == WithResults(d, q)
<1>1. q \in Session /\ q.op = "tests" /\ Known(q)
  BY DEF CommitTests, TypeInv, VersionTypeOK, KnownRows
<1>2. q.id \in Ids /\ q.results \in 0 .. MaxResults
  BY <1>1 DEF Known, Session, Idle, VersionControlAssumption
<1>3. deployments' = [deployments EXCEPT ![q.id] = row(deployments[q.id])]
  BY DEF CommitTests
<1> HIDE DEF q
<1>4. \A i \in Ids : deployments[i] \in Deployment
  BY DEF Ids, TypeInv, VersionTypeOK
<1>5. \A d \in Deployment :
        /\ row(d) \in Deployment /\ row(d).version = d.version
        /\ row(d).environment = d.environment /\ row(d).deployedAt = d.deployedAt
        /\ row(d).status \in {d.status, "TESTING"}
  BY <1>2 DEF WithResults, Deployment, DeploymentStatus
<1> HIDE DEF row
<1>6. \A i \in Ids : deployments'[i] = IF i = q.id THEN row(deployments[i]) ELSE deployments[i]
  BY <1>2, <1>3 DEF Ids
<1>7. \A i \in Ids : /\ deployments'[i] \in Deployment
                     /\ deployments'[i].version = deployments[i].version
                     /\ deployments'[i].environment = deployments[i].environment
                     /\ deployments'[i].deployedAt = deployments[i].deployedAt
                     /\ deployments'[i].status \in {deployments[i].status, "TESTING"}
  BY <1>4, <1>5, <1>6
<1>8. deployments' \in [Ids -> Deployment]
  <2>1. deployments' = [deployments EXCEPT ![q.id] = deployments'[q.id]]
    BY <1>2, <1>3 DEF Ids
  <2>2. deployments \in [Ids -> Deployment]
    BY DEF Ids, TypeInv, VersionTypeOK
  <2> QED
    BY <1>2, <1>7, <2>1, <2>2
<1>9. TableOK' /\ Ids' = Ids
  BY <1>8, <1>7, Rewritten DEF TypeInv, VersionTypeOK, TableOK, Ids
<1>10. Grows
  BY <1>7, <1>9 DEF Grows, CommitTests
<1>11. PromotedRows'
  BY <1>7, <1>9 DEF PromotedRows, CommitTests, TypeInv
<1>12. TypeInv'
  BY <1>9, <1>10, <1>11, Written DEF CommitTests, TypeInv, VersionTypeOK
<1>13. \A e \in Environments : InProduction(e)' \subseteq InProduction(e)
  BY <1>7, <1>9 DEF InProduction, In
<1> QED
  BY <1>12, <1>13

\* A promotion leaves its own deployment alone in production, and other environments as
\* they are.
LEMMA CommitPromoteTypes ==
  ASSUME TypeInv, VersionControlAssumption, NEW s \in Sessions, CommitPromote(s)
  PROVE  /\ TypeInv' /\ session[s].id \in Ids
         /\ \A e \in Environments :
               InProduction(e)' = IF e = deployments[session[s].id].environment
                                  THEN {session[s].id} ELSE InProduction(e)
<1> DEFINE d == session[s].id
           here == deployments[d].environment
<1>1. session[s].op = "promote" /\ d \in Ids
  BY DEF CommitPromote, TypeInv, KnownRows, Known
<1>2. clock' \in 0 .. MaxTime /\ clock' # Never
  <2>1. clock < MaxTime /\ clock' = clock + 1
    BY DEF CommitPromote
  <2>2. clock \in 0 .. MaxTime
    BY DEF TypeInv, VersionTypeOK
  <2> QED
    BY <2>1, <2>2 DEF VersionControlAssumption, Never
<1>3. \A i \in Ids : deployments[i] \in Deployment
  BY DEF Ids, TypeInv, VersionTypeOK
<1>4. here \in Environments /\ deployments[d].version \in Versions
  BY <1>1, <1>3 DEF Deployment
<1>5. deployments' = [i \in Ids |->
        IF i = d THEN [deployments[i] EXCEPT !.status = "PRODUCTION", !.deployedAt = clock']
        ELSE IF i \in InProduction(here) THEN [deployments[i] EXCEPT !.status = "ARCHIVED"]
        ELSE deployments[i]]
  BY DEF CommitPromote
<1>6. promoted' = [promoted EXCEPT ![here] = @ \cup {deployments[d].version}]
  BY DEF CommitPromote
<1> HIDE DEF d, here
<1>7. \A i \in Ids :
        /\ deployments'[i] \in Deployment
        /\ deployments'[i].version = deployments[i].version
        /\ deployments'[i].environment = deployments[i].environment
        /\ i = d => deployments'[i].status = "PRODUCTION" /\ deployments'[i].deployedAt # Never
        /\ i # d => deployments'[i].deployedAt = deployments[i].deployedAt
        /\ i # d /\ i \in InProduction(here) => deployments'[i].status = "ARCHIVED"
        /\ i # d /\ i \notin InProduction(here) => deployments'[i].status = deployments[i].status
  BY <1>2, <1>3, <1>5 DEF Deployment, DeploymentStatus
<1>8. deployments' \in [Ids -> Deployment]
  BY <1>5, <1>7
<1>9. TableOK
  BY DEF TypeInv, VersionTypeOK, TableOK
<1>10. \A i \in Ids : deployments'[i].status \notin {"STAGING", "TESTING"} =>
                           deployments'[i].deployedAt # Never
  BY <1>7, <1>9 DEF TableOK, InProduction, In
<1>11. TableOK' /\ Ids' = Ids
  BY <1>8, <1>9, <1>10, Rewritten
<1>12. /\ promoted' \in [Environments -> SUBSET Versions]
       /\ \A e \in Environments : promoted[e] \subseteq promoted'[e]
       /\ deployments[d].version \in promoted'[here]
  BY <1>4, <1>6 DEF TypeInv, VersionTypeOK
<1>13. Grows
  BY <1>7, <1>11, <1>12 DEF Grows
<1>14. PromotedRows'
  <2>1. ASSUME NEW i \in Ids, deployments'[i].status \in {"PRODUCTION", "ARCHIVED"}
        PROVE  deployments'[i].version \in promoted'[deployments'[i].environment]
    <3>1. CASE i = d
      BY <1>7, <1>12, <3>1 DEF here
    <3>2. CASE i # d
      <4>1. deployments[i].status \in {"PRODUCTION", "ARCHIVED"}
        BY <1>7, <2>1, <3>2 DEF InProduction, In
      <4>2. deployments[i].version \in promoted[deployments[i].environment]
        BY <4>1 DEF TypeInv, PromotedRows
      <4>3. deployments[i].environment \in Environments
        BY <1>3 DEF Deployment
      <4> QED
        BY <1>7, <1>12, <4>2, <4>3
    <3> QED
      BY <3>1, <3>2
  <2> QED
    BY <1>11, <2>1 DEF PromotedRows
<1>15. TypeInv'
  BY <1>2, <1>11, <1>12, <1>13, <1>14, Written DEF CommitPromote, TypeInv, VersionTypeOK
<1>16. ASSUME NEW e \in Environments
       PROVE  InProduction(e)' = IF e = here THEN {d} ELSE InProduction(e)
  <2>1. deployments[d].environment = here
    BY DEF here
  <2>2. \A i \in Ids : i \in InProduction(e)' <=> IF e = here THEN i = d ELSE i \in InProduction(e)
    BY <1>1, <1>7, <1>11, <2>1 DEF InProduction, In
  <2>3. InProduction(e)' \subseteq Ids /\ InProduction(e) \subseteq Ids
    BY <1>11 DEF InProduction, In
  <2> QED
    BY <1>1, <2>2, <2>3
<1> QED
  BY <1>1, <1>15, <1>16 DEF d, here

\* A rollback puts its new record in production and takes out what it found there; other
\* environments are as they were.
LEMMA CommitRollbackTypes ==
  ASSUME TypeInv, VersionControlAssumption, NEW s \in Sessions, CommitRollback(s)
  PROVE  /\ TypeInv'
         /\ session[s].environment \in Environments
         /\ \A e \in Environments :
               InProduction(e)' = IF e = session[s].environment
                                  THEN (InProduction(e) \ session[s].current)
                                           \cup {Len(deployments) + 1}
                                  ELSE InProduction(e)
<1> DEFINE q == session[s]
           new == Len(deployments) + 1
           row == [version |-> q.version, environment |-> q.environment, status |-> "PRODUCTION",
                   deployedAt |-> q.at, meta |-> TRUE, results |-> 0]
           rest == [i \in Ids |-> IF i \in q.current
                                  THEN [deployments[i] EXCEPT !.status = "ROLLED_BACK"]
                                  ELSE deployments[i]]
<1>1. q \in Session /\ q.op = "rollback" /\ Known(q)
  BY DEF CommitRollback, TypeInv, VersionTypeOK, KnownRows
<1>2. /\ q.environment \in Environments /\ q.version \in Versions
      /\ q.at \in 0 .. MaxTime /\ q.at # Never
  BY <1>1 DEF Session, Idle, Never, VersionControlAssumption
<1>3. q.version \in promoted[q.environment]
  BY <1>1 DEF Known
<1>4. \A i \in q.current : i \in Ids /\ deployments[i].environment = q.environment
                            /\ deployments[i] \in Deployment
  BY <1>1 DEF Known, Ids, TypeInv, VersionTypeOK
<1>5. deployments' = Append(rest, row) /\ Len(deployments) < MaxDeployments
  BY DEF CommitRollback
<1>6. row \in Deployment /\ row.status = "PRODUCTION" /\ row.deployedAt # Never
      /\ row.version = q.version /\ row.environment = q.environment
  BY <1>2 DEF Deployment, DeploymentStatus, VersionControlAssumption
<1> HIDE DEF row, q
<1>7. \A i \in Ids : deployments[i] \in Deployment
  BY DEF Ids, TypeInv, VersionTypeOK
<1>8. \A i \in Ids :
        /\ rest[i] \in Deployment /\ rest[i].version = deployments[i].version
        /\ rest[i].environment = deployments[i].environment
        /\ rest[i].deployedAt = deployments[i].deployedAt
        /\ i \in q.current => rest[i].status = "ROLLED_BACK"
        /\ i \notin q.current => rest[i].status = deployments[i].status
  BY <1>7 DEF Deployment, DeploymentStatus
<1>9. TableOK
  BY DEF TypeInv, VersionTypeOK, TableOK
<1>10. \A i \in q.current : deployments[i].deployedAt # Never
  BY <1>1 DEF Known
<1>11. \A i \in Ids : rest[i].status \notin {"STAGING", "TESTING"} => rest[i].deployedAt # Never
  BY <1>8, <1>9, <1>10 DEF TableOK
<1>12. DOMAIN deployments = Ids /\ deployments \in Seq(Deployment)
  BY DEF Ids, TypeInv, VersionTypeOK
<1>13. rest \in Seq(Deployment) /\ Len(rest) = Len(deployments) /\ DOMAIN rest = Ids
  <2>1. rest \in [DOMAIN deployments -> Deployment]
    BY <1>8, <1>12
  <2> HIDE DEF rest
  <2> QED
    BY <1>12, <2>1, RowsRewritten
<1> HIDE DEF rest
<1>14. /\ TableOK' /\ Ids' = Ids \cup {new} /\ new \notin Ids
       /\ deployments'[new] = row /\ \A i \in Ids : deployments'[i] = rest[i]
  BY <1>5, <1>6, <1>9, <1>11, <1>13, Inserted
<1> HIDE DEF new
<1>15. promoted' = promoted
  BY DEF CommitRollback
<1>16. Grows
  BY <1>8, <1>14, <1>15 DEF Grows
<1>17. PromotedRows'
  <2>1. \A i \in Ids : deployments[i].status \in {"PRODUCTION", "ARCHIVED"} =>
                           deployments[i].version \in promoted[deployments[i].environment]
    BY DEF TypeInv, PromotedRows
  <2> QED
    BY <1>3, <1>6, <1>8, <1>14, <1>15, <2>1 DEF PromotedRows
<1>18. raced' \in SUBSET Environments
  BY <1>2 DEF q, CommitRollback, TypeInv, VersionTypeOK
<1>19. TypeInv'
  BY <1>14, <1>15, <1>16, <1>17, <1>18, Written DEF CommitRollback, TypeInv, VersionTypeOK
<1>20. ASSUME NEW e \in Environments
       PROVE  InProduction(e)' = IF e = q.environment
                                 THEN (InProduction(e) \ q.current) \cup {new}
                                 ELSE InProduction(e)
  <2>1. new \in InProduction(e)' <=> e = q.environment
    BY <1>6, <1>14 DEF InProduction, In
  <2>2. ASSUME NEW i \in Ids
        PROVE  i \in InProduction(e)' <=> i \in InProduction(e) /\ i \notin q.current
    BY <1>8, <1>14, <2>2 DEF InProduction, In
  <2>3. \A i \in q.current : i \in InProduction(e) => e = q.environment
    BY <1>4 DEF InProduction, In
  <2>4. InProduction(e)' \subseteq Ids \cup {new} /\ InProduction(e) \subseteq Ids
    BY <1>14 DEF InProduction, In
  <2> QED
    BY <1>14, <2>1, <2>2, <2>3, <2>4
<1> QED
  BY <1>2, <1>19, <1>20 DEF q, new

-----------------------------------------------------------------------------

\* Every step keeps the types and what the sessions know.
LEMMA StepTypes ==
  ASSUME TypeInv, VersionControlAssumption, [VersionNext]_vars
  PROVE  TypeInv'
<1>1. CASE UNCHANGED vars
  BY <1>1 DEF vars, TypeInv, VersionTypeOK, PromotedRows, KnownRows, Known, Ids
<1>2. ASSUME NEW s \in Sessions, SessionStep(s)
      PROVE  TypeInv'
  BY <1>2, BeginTestsTypes, CommitTestsTypes, BeginPromoteTypes, CommitPromoteTypes,
     BeginRollbackTypes, SelectPreviousTypes, CommitRollbackTypes, LeaveTypes DEF SessionStep
<1> QED
  BY <1>1, <1>2, PrepareTypes DEF VersionNext

LEMMA InitTypes ==
  ASSUME VersionInit, VersionControlAssumption
  PROVE  TypeInv
<1>1. Idle \in Session /\ Known(Idle)
  BY DEF Session, Idle, Known
<1>2. deployments \in Seq(Deployment) /\ Len(deployments) = 0 /\ Ids = {}
  BY DEF VersionInit, Ids
<1> QED
  BY <1>1, <1>2 DEF VersionInit, TypeInv, VersionTypeOK, PromotedRows, KnownRows, VersionControlAssumption

LEMMA AlwaysTypes == VersionSpec => []TypeInv
BY InitTypes, StepTypes, VersionControlAssumption, PTL DEF VersionSpec

\* The types hold, and a deployment that is or was in production has a time of deployment
\* (the order that rollback relies on).
THEOREM VersionTypes == VersionSpec => []VersionTypeOK
BY AlwaysTypes, PTL DEF TypeInv

\* What is in production in an environment has been promoted in that very environment,
\* also when rollback has put it there.
THEOREM VersionOnlyPromoted == VersionSpec => []OnlyPromotedInProduction
<1>1. TypeInv => OnlyPromotedInProduction
  BY DEF TypeInv, PromotedRows, OnlyPromotedInProduction, InProduction, In
<1> QED
  BY <1>1, AlwaysTypes, PTL

\* A rollback that is not raced finds all there is in production and takes it out.
LEMMA StepOneProduction ==
  ASSUME TypeInv, VersionControlAssumption, OneProduction, [VersionNext]_vars
  PROVE  OneProduction'
<1> SUFFICES ASSUME NEW e \in Environments, e \notin raced'
             PROVE  \A c, d \in InProduction(e)' : c = d
  BY DEF OneProduction
<1>1. ASSUME InProduction(e)' \subseteq InProduction(e), raced' = raced
      PROVE  \A c, d \in InProduction(e)' : c = d
  BY <1>1 DEF OneProduction
<1>2. CASE PrepareDeployment
  BY <1>1, <1>2, PrepareTypes DEF PrepareDeployment
<1>3. ASSUME NEW s \in Sessions, CommitTests(s)
      PROVE  \A c, d \in InProduction(e)' : c = d
  BY <1>1, <1>3, CommitTestsTypes DEF CommitTests
<1>4. ASSUME NEW s \in Sessions, CommitPromote(s)
      PROVE  \A c, d \in InProduction(e)' : c = d
  <2>1. e # deployments[session[s].id].environment => e \notin raced
    BY <1>4 DEF CommitPromote
  <2>2. InProduction(e)' = IF e = deployments[session[s].id].environment
                           THEN {session[s].id} ELSE InProduction(e)
    BY <1>4, CommitPromoteTypes
  <2> QED
    BY <2>1, <2>2 DEF OneProduction
<1>5. ASSUME NEW s \in Sessions, CommitRollback(s)
      PROVE  \A c, d \in InProduction(e)' : c = d
  <2> DEFINE q == session[s]
  <2>1. InProduction(e)' = IF e = q.environment
                           THEN (InProduction(e) \ q.current) \cup {Len(deployments) + 1}
                           ELSE InProduction(e)
    BY <1>5, CommitRollbackTypes
  <2>2. e \notin raced /\ (e = q.environment => InProduction(e) = q.seen)
    BY <1>5 DEF CommitRollback
  <2>3. q.current \subseteq q.seen /\ (q.seen # {} => q.current # {})
    BY <1>5 DEF CommitRollback, TypeInv, KnownRows, Known
  <2>4. \A c, d \in InProduction(e) : c = d
    BY <2>2 DEF OneProduction
  <2>5. e = q.environment => InProduction(e) \ q.current = {}
    BY <2>2, <2>3, <2>4
  <2> HIDE DEF q
  <2> QED
    BY <2>1, <2>4, <2>5
<1>6. ASSUME UNCHANGED <<deployments, raced>>
      PROVE  \A c, d \in InProduction(e)' : c = d
  BY <1>1, <1>6 DEF InProduction, In, Ids
<1> QED
  BY <1>2, <1>3, <1>4, <1>5, <1>6
     DEF VersionNext, SessionStep, vars, BeginTests, BeginPromote, BeginRollback,
         SelectPrevious, NoPrevious, Fail

\* At most one deployment is in production in an environment where no rollback has acted
\* on a stale read since the last promotion.
THEOREM VersionOneProduction == VersionSpec => []OneProduction
<1>1. VersionInit => OneProduction
  BY DEF VersionInit, OneProduction, InProduction, In, Ids
<1> QED
  BY <1>1, AlwaysTypes, StepOneProduction, VersionControlAssumption, PTL DEF VersionSpec

\* A promotion leaves its own deployment alone in production, whatever was there.
THEOREM VersionPromoteLeavesOne == VersionSpec => PromoteLeavesOne
<1>1. ASSUME TypeInv, NEW s \in Sessions, NEW e \in Environments, CommitPromote(s),
             deployments[session[s].id].environment = e
      PROVE  InProduction(e)' = {session[s].id}
  BY <1>1, CommitPromoteTypes, VersionControlAssumption
<1>2. TypeInv /\ [VersionNext]_vars =>
        [\A s \in Sessions, e \in Environments :
           CommitPromote(s) /\ deployments[session[s].id].environment = e =>
               InProduction(e)' = {session[s].id}]_vars
  BY <1>1
<1> QED
  BY <1>2, AlwaysTypes, PTL DEF VersionSpec, PromoteLeavesOne

\* Only recorded test results can leave an environment without a deployment in production.
THEOREM VersionStaysInProduction == VersionSpec => StaysInProduction
<1>1. ASSUME TypeInv, VersionControlAssumption, [VersionNext]_vars,
             NEW e \in Environments, InProduction(e) # {}, \A s \in Sessions : ~CommitTests(s)
      PROVE  InProduction(e)' # {}
  <2>1. CASE PrepareDeployment
    BY <1>1, <2>1, PrepareTypes
  <2>2. ASSUME NEW s \in Sessions, CommitPromote(s)
        PROVE  InProduction(e)' # {}
    BY <1>1, <2>2, CommitPromoteTypes
  <2>3. ASSUME NEW s \in Sessions, CommitRollback(s)
        PROVE  InProduction(e)' # {}
    BY <1>1, <2>3, CommitRollbackTypes
  <2>4. ASSUME UNCHANGED deployments
        PROVE  InProduction(e)' # {}
    BY <1>1, <2>4 DEF InProduction, In, Ids
  <2> QED
    BY <1>1, <2>1, <2>2, <2>3, <2>4
       DEF VersionNext, SessionStep, vars, BeginTests, BeginPromote, BeginRollback,
           SelectPrevious, NoPrevious, Fail
<1>2. TypeInv /\ [VersionNext]_vars =>
        [\A e \in Environments : InProduction(e) # {} =>
           InProduction(e)' # {} \/ \E s \in Sessions : CommitTests(s)]_vars
  BY <1>1, VersionControlAssumption
<1> QED
  BY <1>2, AlwaysTypes, PTL DEF VersionSpec, StaysInProduction
=============================================================================
