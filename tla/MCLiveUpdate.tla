---------------------------- MODULE MCLiveUpdate ----------------------------
(* LiveUpdate on small instances: the instance of each run is in its cfg.    *)
EXTENDS LiveUpdate

CONSTANTS p1, p2, lax, strict, w1, w2, t1, t2

TwoPolicies == {p1, p2}
TwoTexts == {lax, strict}
OneWorkflow == {w1}
OneMonitor == {t1}
=============================================================================
