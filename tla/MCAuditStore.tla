---------------------------- MODULE MCAuditStore ----------------------------
(* AuditStore on small instances: the instance of each run is in its cfg. *)
EXTENDS AuditStore

CONSTANTS w1, w2, e1, e2, e3, ok

OneWriter == {w1}
TwoWriters == {w1, w2}
ThreeEvents == {e1, e2, e3}
OnePayload == {ok}

=============================================================================
