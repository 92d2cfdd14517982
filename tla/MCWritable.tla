----------------------------- MODULE MCWritable -----------------------------
(***************************************************************************)
(* Model values for WritableStore: k1 may change and k2 may not.  Only     *)
(* block 2 gives k1 the value b, which block 3 can overwrite or remove; k2 *)
(* is set by the last two blocks.                                          *)
(***************************************************************************)
EXTENDS WritableStore

CONSTANTS k1, k2, a, b

MCKeys == {k1, k2}
MCImmutable == {k2}
Leaves(v1, v2) == [k \in MCKeys |-> IF k = k1 THEN v1 ELSE v2]
MCWanted ==
  [n \in Blocks |->
     {Leaves(Absent, Absent), Leaves(a, Absent)}
       \cup (IF n = 2 THEN {Leaves(b, Absent)} ELSE {})
       \cup (IF n = 1 THEN {} ELSE {Leaves(Absent, a)})]
=============================================================================
