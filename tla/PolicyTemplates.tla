--------------------------- MODULE PolicyTemplates ---------------------------
(***************************************************************************)
(* TemplateExtensibilityModule with the repository it writes to, the live  *)
(* engine it pushes to and the detector that scans the repository          *)
(* (packages/logic: extensibility, repository/policy_repository.py,        *)
(* live_update, enforcement).                                              *)
(*                                                                         *)
(* Every method of PolicyRepository is a session of its own, so a call of  *)
(* the module is three steps: read and check, save, integrate.  Names of   *)
(* titles, sources and instructions stand for the texts; the empty text is *)
(* the empty string.                                                       *)
(***************************************************************************)
EXTENDS PolicyConflicts

CONSTANTS Callers,          \* threads and processes that use the module
          Offered,          \* the templates handed to create_template
          NewIds,           \* new_policy_id of customize_template
          Customizations,   \* functions from some of a policy's fields to values
          Forbidden,        \* the texts that contain a forbidden keyword
          MaxLog            \* bound on the audit log of the detector

\* The fields of a StructuredPolicy; seen is auxiliary.
PolicyField ==
    {"policy_id", "title", "raw_source", "instructions", "conditions", "triggers", "domain",
     "compliance_type", "scope", "rationale", "is_template", "template_id", "version",
     "effective_date", "seen"}

\* A template has every field, a customization has some.
ASSUME TemplatesAssumption ==
    /\ \A t \in Offered :
          t = [f \in PolicyField |-> t[f]] /\ t.effective_date \in Int /\ t.seen \in Nat
    /\ \A u \in Customizations :
          /\ DOMAIN u \subseteq PolicyField
          /\ "effective_date" \in DOMAIN u => u.effective_date \in Int
    /\ MaxLog \in Nat

VARIABLES records,          \* the table policies, in order of created_at
          live,             \* _states of LiveUpdateEngine: the text of a policy id
          calls,            \* for every caller, where its call is
          audit_log         \* _audit_log of PolicyConflictDetector

templateVars == <<records, live, calls, audit_log>>

Idle == [at |-> "idle"]

Texts(p) == {p.title, p.raw_source} \cup p.instructions

ForbiddenKeyword(p) == Texts(p) \cap Forbidden # {}

\* validate of TemplateValidator, with the default standards
IsValid(p) ==
    /\ "" \notin {p.policy_id, p.title, p.raw_source} /\ p.instructions # {}
    /\ ~ForbiddenKeyword(p)
    /\ p.domain = "legal" =>
          p.compliance_type # "" /\ (p.scope = "global" => p.rationale # "")

\* Mutant: only the identifiers are compared.
CheckConflicts_IdsOnly(new, existing) == new.policy_id = existing.policy_id

\* check_conflicts, with one existing template
CheckConflicts(new, existing) ==
    \/ new.policy_id = existing.policy_id
    \/ new.title = existing.title
    \/ /\ new.conditions = existing.conditions /\ new.conditions # <<>>
       /\ new.triggers # existing.triggers

\* list_policies(is_template=True)
Templates == {i \in DOMAIN records : records[i].is_template}

\* get_policy without a version: the record created last; 0 if there is none.
GetPolicy(id) ==
    LET own == {i \in DOMAIN records : records[i].policy_id = id}
    IN  IF own = {} THEN 0 ELSE CHOOSE i \in own : \A j \in own : j <= i

TemplatesInit ==
    /\ records = <<>> /\ audit_log = <<>>
    /\ live = [id \in {} |-> ""]
    /\ calls = [c \in Callers |-> Idle]

\* seen, which the code has not, tells how many records the check looked at.
Begins(c, operation, policy) ==
    calls' = [calls EXCEPT ![c] =
                 [at |-> "save", operation |-> operation,
                  policy |-> [policy EXCEPT !.seen = Len(records)]]]

\* create_template up to save_policy; an invalid template and one in conflict
\* with a template on file are refused.
CreateTemplate(c, t) ==
    LET template == [t EXCEPT !.is_template = TRUE]
    IN  /\ calls[c] = Idle
        /\ IsValid(template)
        /\ \A i \in Templates : ~CheckConflicts(template, records[i])
        /\ Begins(c, "create", template)
        /\ UNCHANGED <<records, live, audit_log>>

\* clone_template up to save_policy: a copy of the record, then the updates.
CustomizeTemplate(c, template_id, new_id, updates) ==
    LET source == records[GetPolicy(template_id)]
        clone == [source EXCEPT !.policy_id = new_id, !.is_template = FALSE,
                                !.template_id = template_id, !.version = "1.0.0"]
    IN  /\ calls[c] = Idle
        /\ GetPolicy(template_id) # 0
        /\ Begins(c, "customize",
                  [f \in DOMAIN clone |-> IF f \in DOMAIN updates THEN updates[f] ELSE clone[f]])
        /\ UNCHANGED <<records, live, audit_log>>

\* What follows save_policy: customize_template validates only now, and a
\* forbidden keyword is all it minds; the record stays either way.
\* Mutant: the result of the validation is not looked at.
AfterSave_Unchecked(call) == [call EXCEPT !.at = "integrate"]

\* The rest of the call after the record is on file.
AfterSave(call) ==
    IF call.operation = "customize" /\ ForbiddenKeyword(call.policy)
    THEN Idle ELSE [call EXCEPT !.at = "integrate"]

\* save_policy; a commit that fails raises, and idx_policy_version, which is
\* unique, makes that of a duplicate fail.
Save(c) ==
    LET policy == calls[c].policy
        duplicate == \E i \in DOMAIN records :
                        /\ records[i].policy_id = policy.policy_id
                        /\ records[i].version = policy.version
    IN  /\ calls[c].at = "save"
        /\ \/ records' = records /\ calls' = [calls EXCEPT ![c] = Idle]
           \/ /\ ~duplicate
              /\ records' = Append(records, policy)
              /\ calls' = [calls EXCEPT ![c] = AfterSave(calls[c])]
        /\ UNCHANGED <<live, audit_log>>

\* _integrate_with_live_engine: the text is applied unless the engine has it,
\* or the translation of it raises.
Integrate(c) ==
    LET policy == calls[c].policy
    IN  /\ calls[c].at = "integrate"
        /\ \/ live' = [id \in DOMAIN live \cup {policy.policy_id} |->
                          IF id = policy.policy_id THEN policy.raw_source ELSE live[id]]
           \/ UNCHANGED live
        /\ calls' = [calls EXCEPT ![c] = Idle]
        /\ UNCHANGED <<records, audit_log>>

\* scan_once
Scan ==
    /\ Len(audit_log) < MaxLog
    /\ \E conflicts \in Scans(records) : audit_log' = audit_log \o conflicts
    /\ UNCHANGED <<records, live, calls>>

TemplatesNext ==
    \/ \E c \in Callers :
          \/ \E t \in Offered : CreateTemplate(c, t)
          \/ \E template_id \in {records[i].policy_id : i \in DOMAIN records}, new_id \in NewIds,
                updates \in Customizations : CustomizeTemplate(c, template_id, new_id, updates)
          \/ Save(c) \/ Integrate(c)
    \/ Scan

TemplatesSpec == TemplatesInit /\ [][TemplatesNext]_templateVars

-----------------------------------------------------------------------------

\* Two templates on file carry one title only when the later one was checked
\* before the earlier one was saved (check_conflicts and save_policy are apart).
TitlesClashOnlyInOverlap ==
    \A i, j \in Templates :
        i < j /\ records[i].title = records[j].title => records[j].seen < i

\* What the live engine enforces under an id is the text of a record of that id
\* that holds no forbidden keyword, although customize_template puts the record
\* on file before it validates it.
LiveIsStored ==
    \A id \in DOMAIN live : \E i \in DOMAIN records :
        /\ records[i].policy_id = id /\ records[i].raw_source = live[id]
        /\ Texts(records[i]) \cap Forbidden = {}

\* A value of v halves satisfies a numeric condition.
Satisfies(v, c) ==
    LET bound == 2 * c.value.number
    IN  CASE c.operator = ">" -> v > bound   [] c.operator = ">=" -> v >= bound
          [] c.operator = "<" -> v < bound   [] c.operator = "<=" -> v <= bound
          [] c.operator = "==" -> v = bound  [] c.operator = "!=" -> v # bound
          [] OTHER -> TRUE

\* No value, tried in steps of a half about both bounds, satisfies two conditions.
Unsatisfiable(c, d) ==
    \A v \in 2 * Lower(c.value.number, d.value.number) - 1
                .. 2 * Higher(c.value.number, d.value.number) + 1 :
        ~(Satisfies(v, c) /\ Satisfies(v, d))

\* The ids of the policies a scan calls contradictory.
Contradictory(scan) == {scan[i].policy_ids : i \in {i \in DOMAIN scan : scan[i].type = "contradictory"}}

\* An equality below an open upper bound: _numeric_intersection_exists finds both
\* ends of the intersection in the equality and asks of the other condition, whose
\* lower bound it is not, whether its upper bound is included.
MistakenForDisjoint(c, d) ==
    /\ {c.operator, d.operator} = {"<", "=="}
    /\ IF c.operator = "==" THEN c.value.number < d.value.number
                            ELSE d.value.number < c.value.number

\* A scan reports two policies as contradictory exactly when no value meets
\* what both of them ask of one numeric parameter, or when the detector mistakes
\* a strict upper bound and an equality below it for disjoint ranges: the open
\* and closed bounds of _numeric_bounds and the equalities of
\* _conditions_contradict, between the records in force, whatever has been
\* created and customized.
ScanFindsContradictions ==
    \A scan \in Scans(records) :
        \A p, q \in LatestByPolicyId(records) : p.policy_id # q.policy_id =>
            ({p.policy_id, q.policy_id} \in Contradictory(scan)
              <=> \E pair \in SharedConditions(p, q) :
                     Unsatisfiable(pair[1], pair[2]) \/ MistakenForDisjoint(pair[1], pair[2]))
=============================================================================
