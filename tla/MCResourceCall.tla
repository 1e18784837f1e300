---------------------------- MODULE MCResourceCall ----------------------------
(* Instances of ResourceCall for TLC.                                      *)
EXTENDS ResourceCall, TLC

CONSTANTS u1, u2, k1, k2

OneCaller  == {u1}
TwoCallers == {u1, u2}
TwoKeys    == {k1, k2}

Sym == Permutations(TwoCallers) \cup Permutations(TwoKeys)

=============================================================================
