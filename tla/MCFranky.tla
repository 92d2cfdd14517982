------------------------------ MODULE MCFranky ------------------------------
(* Franky on two accounts, a device beside the null address, which can be  *)
(* registered as one, and two agent addresses.                             *)
EXTENDS Franky, TLC

CONSTANTS u1, u2, d1, a1, a2, w1

MCAccounts == {u1, u2}
MCDevices  == {d1, NullAddr}
MCAgents   == {a1, a2}
MCWallets  == {w1}
MCFees     == {0}
MCAmounts  == {0, 1}

(* Agents are not told apart by anything in the contract.                  *)
Symmetry == Permutations(MCAgents)
=============================================================================
