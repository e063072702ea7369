---------------------------- MODULE MCSafetyLoop ----------------------------
(* SafetyLoop on small instances: the instance of each run is in its cfg.    *)
EXTENDS SafetyLoop

CONSTANTS gateway, client, a1, a2, addr

OneProcess == {gateway}
OneAction == {a1}
TwoActions == {a1, a2}
OneAddress == {addr}

Events(actions) == ({"enf", "decision"} \X actions) \cup ({"score"} \X OneAddress)
EventsOfTwo == Events(TwoActions)
Verdicts == BOOLEAN

\* An empty plan, and nine resources created: the scores on both sides of 85.0.
SomeImpacts == {BlastRadius(0, 0, 0), BlastRadius(0, 0, 9)}
=============================================================================
