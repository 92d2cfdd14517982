----------------------------- MODULE WriteBatch -----------------------------
(***************************************************************************)
(* The changes blocks make to entities, gathered in a batch                *)
(* (graph/src/components/store/write.rs), and what writing and reverting   *)
(* them does to an entity table (store/postgres/src/relational.rs and      *)
(* relational_queries.rs).                                                 *)
(*                                                                         *)
(* A table keeps the versions of an entity with the range of blocks        *)
(* [lower, upper) they are valid for; the current version has no upper     *)
(* bound, written BlockNumberMax as the queries do.  The rows of a batch   *)
(* are a set: the code keeps them ordered by block and has at most one for *)
(* an entity and a block.  The order of entities does not matter to it.    *)
(***************************************************************************)
EXTENDS Integers

CONSTANTS
  Keys,            \* the entities
  Immutable,       \* those whose type is declared immutable in the schema
  Vals, BlockNumberMax, Absent

ASSUME BlockNumberMaxAssumption == BlockNumberMax \in Nat
ASSUME AbsentAssumption == Absent \notin Vals
ASSUME ImmutableAssumption == Immutable \subseteq Keys

Blocks == 0 .. BlockNumberMax - 1

(* EntityModification: a change at a block, valid until end.               *)
Ops == {"insert", "overwrite", "remove"}
Row(k, op, val, n) ==
  [key |-> k, op |-> op, val |-> val, block |-> n, end |-> BlockNumberMax]
Rows == [key : Keys, op : Ops, val : Vals \cup {Absent}, block : Blocks,
         end : Nat]
Versions == [key : Keys, val : Vals \cup {Absent}, lower : Blocks, upper : Nat]

(* The version of an entity that a row writes.                             *)
Version(r) == [key |-> r.key, val |-> r.val, lower |-> r.block, upper |-> r.end]

IsClamp(r) == r.op # "insert"
IsWrite(r) == r.op # "remove"
Ended(r)   == r.end # BlockNumberMax
Open(v)    == v.upper = BlockNumberMax

(* as_modifications: what turns the entities a block's handlers saw into   *)
(* the ones they want.  An immutable entity that is set without being in   *)
(* the cache is not looked up: whatever the store has, it was seen Absent. *)
(* (Nor is it when it is removed, which then changes nothing.)             *)
Modification(k, saw, wants, n) ==
  IF saw = wants THEN {}
  ELSE IF saw = Absent THEN {Row(k, "insert", wants, n)}
  ELSE IF wants = Absent THEN {Row(k, "remove", Absent, n)}
  ELSE {Row(k, "overwrite", wants, n)}
Modifications(saw, wants, n) ==
  UNION {Modification(k, saw[k], wants[k], n) : k \in Keys}
TakenAsNew(saw, new) == [k \in Keys |-> IF k \in new THEN Absent ELSE saw[k]]

(* Batch::new: immutable entities can only be inserted.                    *)
OnlyInserts(rows) == \A r \in rows : r.key \in Immutable => r.op = "insert"
-----------------------------------------------------------------------------
(* last_op: the last change to a key up to a block, and what it leaves.    *)
LastRow(rows, k, at, r) ==
  /\ r \in rows /\ r.key = k /\ r.block <= at
  /\ \A s \in rows : s.key = k /\ s.block <= at => s.block <= r.block
HasOp(rows, k, at) == \E r \in rows : r.key = k /\ r.block <= at
AfterOp(r, at) ==
  IF IsWrite(r) /\ (~Ended(r) \/ at < r.end) THEN r.val ELSE Absent
LastOp(rows, k, at) ==
  AfterOp(CHOOSE r \in rows : LastRow(rows, k, at, r), at)

(* append_row: next, the change of a later block, on top of prev, the last *)
(* one of its key.  That of an immutable entity, an insert, is pushed      *)
(* without a look at prev.                                                 *)
Closes(next, prev) ==
  IsWrite(prev) /\ ~Ended(prev) /\ next.op \in {"overwrite", "remove"}
Impossible(next, prev) ==
  /\ next.key \notin Immutable
  /\ \/ next.block <= prev.block
     \/ next.op = "insert" /\ IsWrite(prev) /\ ~Ended(prev)
     \/ next.op = "overwrite" /\ (~IsWrite(prev) \/ Ended(prev))
     \/ next.op = "remove" /\ IsWrite(prev) /\ Ended(prev)

Previous(rows, r, p) == LastRow(rows, r.key, BlockNumberMax, p)
AsInsert(r) == [r EXCEPT !.op = "insert"]

Fits(rows, new) ==
  \A r \in new : \A p \in rows : Previous(rows, r, p) => ~Impossible(r, p)
(* The row of the batch that stands for p once the new rows are there.     *)
Kept(rows, new, p) ==
  IF \E r \in new : Previous(rows, r, p) /\ Closes(r, p)
  THEN [p EXCEPT !.end = (CHOOSE r \in new : r.key = p.key).block]
  ELSE p
(* The rows new ones add.                                                  *)
Pushed(rows, r) ==
  IF \A p \in rows : p.key # r.key THEN {r}
  ELSE IF r.op = "overwrite" THEN {AsInsert(r)}
  ELSE IF r.op = "insert" THEN {r} ELSE {}
AppendRows(rows, new) ==
  {Kept(rows, new, p) : p \in rows} \cup UNION {Pushed(rows, r) : r \in new}
-----------------------------------------------------------------------------
(* The database.                                                           *)
Contains(v, n) == v.lower <= n /\ (n < v.upper \/ Open(v))

(* What a query of the table at a block finds for a key.                   *)
ValueAt(table, k, n) ==
  IF \E v \in table : v.key = k /\ Contains(v, n)
  THEN (CHOOSE v \in table : v.key = k /\ Contains(v, n)).val
  ELSE Absent

(* ClampRangeQuery: the current version of a key ends at the first change  *)
(* that needs it to; later ones find no current version.                   *)
FirstClamp(rows, k, r) ==
  /\ r \in rows /\ r.key = k /\ IsClamp(r)
  /\ \A s \in rows : s.key = k /\ IsClamp(s) => r.block <= s.block
Clamped(rows, v) ==
  IF Open(v) /\ \E r \in rows : FirstClamp(rows, v.key, r)
  THEN [v EXCEPT !.upper =
          (CHOOSE r \in rows : FirstClamp(rows, v.key, r)).block]
  ELSE v

(* apply_entity_modifications: clamp, then insert.                         *)
Written(rows) == {Version(r) : r \in {s \in rows : IsWrite(s)}}
ApplyModifications(table, rows) ==
  {Clamped(rows, v) : v \in table} \cup Written(rows)

(* unique(id): the table of an immutable type takes one row of an entity.  *)
Duplicates(table, rows) ==
  \E r \in rows :
    /\ r.key \in Immutable /\ IsWrite(r)
    /\ \/ \E v \in table : v.key = r.key
       \/ \E s \in rows : s.key = r.key /\ IsWrite(s) /\ s.block # r.block

(* revert_block: undo block n and all later ones.                          *)
RemoveOnly(table, n) == {v \in table : v.lower < n}
RevertBlock(table, n) ==
  {IF Contains(v, n - 1) THEN [v EXCEPT !.upper = BlockNumberMax] ELSE v :
     v \in {w \in table : w.lower < n}}
=============================================================================
