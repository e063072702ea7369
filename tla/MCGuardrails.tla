---------------------------- MODULE MCGuardrails ----------------------------
(* Guardrails on small instances: the instance of each run is in its cfg.    *)
EXTENDS Guardrails

CONSTANTS c1, c2, i1, i2, none

TwoCalls == {c1, c2}
OneId == {i1}
TwoIds == {i1, i2}

\* Sensitive data, and a deletion of sensitive data over the network: PROCEED and
\* BLOCK while the multiplier is 1 (the first HOLDs once it has grown).
Blocked == BaseRisk(TRUE, TRUE, FALSE, TRUE)
ApiRisks == {BaseRisk(FALSE, FALSE, FALSE, TRUE), Blocked}
\* Network access alone: HOLD at first, BLOCK once the multiplier has grown.
SharedRisks == {BaseRisk(FALSE, TRUE, FALSE, FALSE), Blocked}

\* NONE, SLOW and HALT while the tightness is 0.
ApiDeviations == {100, 500, 900}
\* SLOW while the tightness is 0, REQUIRE_APPROVAL and HALT as it grows.
SharedDeviations == {500}
=============================================================================
