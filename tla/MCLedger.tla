------------------------------ MODULE MCLedger ------------------------------
(* Ledger on a small instance.                                               *)
EXTENDS Ledger, TLC

CONSTANTS w1, w2, approved, denied, i1, i2, i3

TwoWriters == {w1, w2}
TwoDecisions == {approved, denied}
ThreeIds == {i1, i2, i3}
LedgerSymmetry ==
    Permutations(TwoWriters) \cup Permutations(TwoDecisions) \cup Permutations(ThreeIds)
=============================================================================
