-------------------------- MODULE MCPolicyTemplates --------------------------
(* Two callers, templates that bound one amount in four ways, and            *)
(* customizations that move the bound, the text or the date of effect.       *)
EXTENDS PolicyTemplates, TLC

CONSTANTS c1, c2, MaxRecords

TwoCallers == {c1, c2}
ForbiddenTexts == {"unlawful"}

Bound(op, n) == <<[parameter |-> "amount", operator |-> op, value |-> [number |-> n, text |-> n]]>>

Template(id, title, conditions, domain) ==
    [policy_id |-> id, title |-> title, raw_source |-> "rule", instructions |-> {"log"},
     conditions |-> conditions, triggers |-> {"action"}, domain |-> domain,
     compliance_type |-> "", scope |-> "global", rationale |-> "", is_template |-> TRUE,
     template_id |-> "", version |-> "1.0.0", effective_date |-> 0, seen |-> 0]

OfferedTemplates ==
    {Template("spending", "cap", Bound("<", 5), "finance"),
     Template("approval", "cap", Bound(">=", 5), "finance"),
     Template("exact", "fixed", Bound("==", 3), "security")}

SomeCustomizations ==
    {[conditions |-> Bound(">", 5)],
     [conditions |-> Bound("<=", 5)],
     [conditions |-> Bound("!=", 3)],
     [raw_source |-> "unlawful"],
     [raw_source |-> "stricter", version |-> "2.0.0"],
     [effective_date |-> -1, conditions |-> Bound("==", 5)]}

\* Bounds the state space.
FewRecords == Len(records) <= MaxRecords

Symmetry == Permutations(TwoCallers)
=============================================================================
