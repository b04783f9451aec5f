------------------------ MODULE MCCommitConsequence -------------------------
(* TLC instances of the durable-consequence gate.                          *)
EXTENDS CommitConsequence, TLC

CONSTANTS k1, k2, l1

TwoKeys == {k1, k2}
OneKey == {k1}
OneListener == {l1}
NoListener == {}

Keys == Permutations({k1, k2})
=============================================================================
