-------------------------- MODULE MCVersionControl --------------------------
(* VersionControl on small instances: the instance of each run is in its cfg. *)
EXTENDS VersionControl, TLC

CONSTANTS s1, s2, v1, v2, staging, production

OneSession == {s1}
TwoSessions == {s1, s2}
TwoVersions == {v1, v2}
TwoEnvironments == {staging, production}

Symmetry ==
    Permutations(TwoSessions) \cup Permutations(TwoVersions) \cup Permutations(TwoEnvironments)
=============================================================================
