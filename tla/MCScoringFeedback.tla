------------------------- MODULE MCScoringFeedback -------------------------
(* ScoringFeedback on a small instance.                                      *)
EXTENDS ScoringFeedback

CONSTANTS reviewer, approver

Staff == {reviewer, approver}
StaffClearance == (reviewer :> REVIEWER) @@ (approver :> APPROVER)

\* A decision whose compliance was predicted low.
SomePredictions == {3000}

SomeRationales ==
    {[confidence |-> 9000, disagreements |-> [d \in {"financialCost"} |-> 8000]],
     [confidence |-> 0, disagreements |-> [d \in {} |-> 0]]}

\* The outcome was worse than predicted in every respect.
SomeSignals ==
    {[type |-> "FALSE_POSITIVE", named |-> {"operationalRisk"}, weight |-> 8000],
     [type |-> "MISSED_VIOLATION", named |-> {"regulatoryExposure"}, severity |-> 9000,
      weight |-> 8500],
     [type |-> "REAL_OUTCOME", compliance |-> 4000, predicted |-> 8000, incident |-> TRUE,
      costRatio |-> 15000, weight |-> 9000]}
=============================================================================
