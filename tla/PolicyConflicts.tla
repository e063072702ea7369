--------------------------- MODULE PolicyConflicts ---------------------------
(***************************************************************************)
(* PolicyConflictDetector (packages/logic, enforcement): which two         *)
(* policies contradict each other or overlap, from their conditions.       *)
(*                                                                         *)
(* The value of a condition is a record of its number, NotANumber for one  *)
(* that float() refuses, and its text; numbers are below Infinity.         *)
(***************************************************************************)
EXTENDS Integers, SequencesExt

NotANumber == -1
Infinity == 1000000

IsNumeric(value) == value.number # NotANumber

Higher(a, b) == IF a >= b THEN a ELSE b
Lower(a, b) == IF a <= b THEN a ELSE b

\* _numeric_bounds
NumericBounds(c) ==
    [low |-> IF c.operator \in {">", ">=", "=="} THEN c.value.number ELSE -Infinity,
     lowInclusive |-> c.operator # ">",
     high |-> IF c.operator \in {"<", "<=", "=="} THEN c.value.number ELSE Infinity,
     highInclusive |-> c.operator # "<"]

\* Mutant: an open bound counts as closed.
IntersectionExists_Closed(left, right) ==
    LET l == NumericBounds(left)
        r == NumericBounds(right)
    IN  Higher(l.low, r.low) <= Lower(l.high, r.high)

\* _numeric_intersection_exists
IntersectionExists(left, right) ==
    LET l == NumericBounds(left)
        r == NumericBounds(right)
        low == Higher(l.low, r.low)
        high == Lower(l.high, r.high)
        inclusive(b) == IF low = b.low THEN b.lowInclusive ELSE b.highInclusive
    IN  low < high \/ (low = high /\ inclusive(l) /\ inclusive(r))

\* _conditions_contradict
ConditionsContradict(left, right) ==
    LET ops == {left.operator, right.operator}
    IN  \/ ops = {"=="} /\ left.value # right.value
        \/ ops = {"==", "!="} /\ left.value = right.value
        \/ /\ IsNumeric(left.value) /\ IsNumeric(right.value)
           /\ ~IntersectionExists(left, right)

\* _conditions_overlap
ConditionsOverlap(left, right) ==
    LET both(op) == left.operator = op /\ right.operator = op
    IN  CASE both("==") \/ both("contains") \/ both("matches") -> left.value = right.value
          [] both("!=") -> TRUE
          [] IsNumeric(left.value) /\ IsNumeric(right.value) -> IntersectionExists(left, right)
          [] OTHER -> left.value = right.value

\* The pairs of conditions that both policies put on one parameter.
SharedConditions(p, q) ==
    {pair \in ToSet(p.conditions) \X ToSet(q.conditions) : pair[1].parameter = pair[2].parameter}

\* _policies_contradict
PoliciesContradict(p, q) ==
    \E pair \in SharedConditions(p, q) : ConditionsContradict(pair[1], pair[2])

\* _policies_overlap
PoliciesOverlap(p, q) ==
    /\ \E pair \in SharedConditions(p, q) : ConditionsOverlap(pair[1], pair[2])
    /\ p.instructions # q.instructions \/ p.triggers # q.triggers

\* _classify_severity, as its place in _SEVERITY_PRIORITY
Severity(p, q) ==
    LET domains == {p.domain, q.domain}
    IN  CASE "security" \in domains -> 0
          [] "legal" \in domains \/ {p.compliance_type, q.compliance_type} # {""} -> 1
          [] "finance" \in domains -> 2
          [] OTHER -> 3

\* _latest_by_policy_id, of a list of policies
LatestByPolicyId(policies) ==
    {policies[i] : i \in {i \in DOMAIN policies :
        \A j \in DOMAIN policies :
            policies[j].policy_id = policies[i].policy_id =>
                \/ policies[j].effective_date < policies[i].effective_date
                \/ policies[j].effective_date = policies[i].effective_date /\ j <= i}}

\* _build_conflict; a contradiction hides an overlap.
ConflictOf(p, q) ==
    [policy_ids |-> {p.policy_id, q.policy_id},
     type |-> IF PoliciesContradict(p, q) THEN "contradictory" ELSE "overlapping",
     severity |-> Severity(p, q)]

\* _scan_policy_collection
Conflicts(policies) ==
    {ConflictOf(pair[1], pair[2]) : pair \in {pair \in policies \X policies :
        /\ pair[1].policy_id # pair[2].policy_id
        /\ PoliciesContradict(pair[1], pair[2]) \/ PoliciesOverlap(pair[1], pair[2])}}

\* scan_once, without workflows: the orders it may return the conflicts in, the
\* most severe first; conflicts of one severity keep the order they were met in.
Scans(policies) ==
    {s \in SetToSeqs(Conflicts(LatestByPolicyId(policies))) :
        \A i, j \in DOMAIN s : i < j => s[i].severity <= s[j].severity}
=============================================================================
