---------------------------- MODULE MCAgentPoller ----------------------------
(* AgentPoller on small sets.                                               *)
EXTENDS AgentPoller, TLC

CONSTANTS p1, p2

MCOne    == {p1}
MCTwo    == {p1, p2}
MCClose  == {"close"}
MCAll    == {"prompt", "close", "other"}
Symmetry == Permutations(MCTwo)
=============================================================================
