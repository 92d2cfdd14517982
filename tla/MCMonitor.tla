------------------------------ MODULE MCMonitor ------------------------------
(* Monitor on small sets.  Requests without data carry no timestamp.        *)
EXTENDS Monitor, TLC

CONSTANTS u1, i1, i2

MCUsers  == {u1}
MCKinds  == {"prompt", "other"}
MCPrompt == {"prompt"}
MCOne    == {i1}
MCTwo    == {i1, i2}
MCStamps == {0, 2}
MCUnstamped == {0}
MCGood    == {"good"}
MCRecords == {"good", "bad", "replaced"}
Symmetry == Permutations(MCTwo)
=============================================================================
