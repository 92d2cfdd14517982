------------------------------- MODULE MCChain -------------------------------
(* BlockStream on a trunk of six blocks and a branch of two that the node    *)
(* may follow for a while.                                                   *)
EXTENDS BlockStream, TLC

CONSTANT NoBlock

Trunk(n)   == {[i \in 1 .. k |-> 1] : k \in 0 .. n}
MCBlocks   == Trunk(5) \cup {<<1, 2>>, <<1, 2, 2>>}
MCTriggers == {<<1, 2>>, <<1, 2, 2>>, <<1, 1, 1>>}
MCStart    == <<1>>
=============================================================================
