------------------------------- MODULE MCChat -------------------------------
(* Chat on small sets.                                                      *)
EXTENDS Chat, TLC

CONSTANTS p1, c1, c2

MCProcs  == {p1}
MCKinds  == {"close"}
MCCalls  == {c1, c2}
Symmetry == Permutations(MCCalls)
=============================================================================
