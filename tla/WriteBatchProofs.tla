-------------------------- MODULE WriteBatchProofs --------------------------
(***************************************************************************)
(* Proofs about batches, for any entities, values, blocks and tables.      *)
(***************************************************************************)
EXTENDS WriteBatch, Extremes, TLAPS

HasRow(rows, k) == \E r \in rows : r.key = k
HasClamp(rows, k) == \E r \in rows : r.key = k /\ IsClamp(r)
HasCurrent(table, k) == \E v \in table : v.key = k /\ Open(v)

(* What one block's changes are to a table: at most one for an entity,     *)
(* made by someone who saw the current versions (as_modifications).        *)
ChangesOf(table, new) ==
  /\ new \subseteq Rows
  /\ \A r \in new : ~Ended(r)
  /\ \A r, s \in new : r.key = s.key => r = s
  /\ \A r \in new : IsClamp(r) <=> HasCurrent(table, r.key)

(* What a batch is to the table it will be written to.                     *)
BatchFor(table, rows) ==
  /\ rows \subseteq Rows
  /\ \A p, q \in rows : p.key = q.key /\ p.block = q.block => p = q
  /\ \A p \in rows : IsWrite(p) /\ ~Ended(p) => Previous(rows, p, p)
  /\ \A p, q \in rows : IsClamp(p) /\ IsClamp(q) /\ p.key = q.key => p = q
  /\ \A p \in rows : HasCurrent(table, p.key) => HasClamp(rows, p.key)

(* The changes of later blocks.                                            *)
Later(rows, new) == \A p \in rows, r \in new : p.block < r.block

LEMMA RowFields ==
  ASSUME NEW r \in Rows
  PROVE  /\ r.key \in Keys /\ r.op \in Ops /\ r.block \in Blocks
         /\ r.end \in Nat /\ r.block \in Nat /\ r.block < BlockNumberMax
BY BlockNumberMaxAssumption DEF Rows, Blocks

(* The current version of an entity that a batch clamps.                   *)
LEMMA ClampedBy ==
  ASSUME NEW rows, NEW v, NEW p \in rows,
         p.key = v.key, IsClamp(p), Open(v), p.block \in Nat,
         \A q \in rows : IsClamp(q) /\ q.key = p.key => q = p
  PROVE  Clamped(rows, v) = [v EXCEPT !.upper = p.block]
<1>1. FirstClamp(rows, v.key, p)
  BY DEF FirstClamp
<1>2. \A q \in rows : FirstClamp(rows, v.key, q) => q = p
  BY DEF FirstClamp
<1>3. (CHOOSE q \in rows : FirstClamp(rows, v.key, q)) = p
  BY <1>1, <1>2
<1> QED
  BY <1>1, <1>3 DEF Clamped

LEMMA NotClamped ==
  ASSUME NEW rows, NEW v, ~(Open(v) /\ HasClamp(rows, v.key))
  PROVE  Clamped(rows, v) = v
BY DEF Clamped, HasClamp, FirstClamp
-----------------------------------------------------------------------------
(* What the appended batch is made of.                                     *)
LEMMA KeptRow ==
  ASSUME NEW table, NEW rows, NEW new,
         BatchFor(table, rows), ChangesOf(ApplyModifications(table, rows), new),
         NEW p \in rows
  PROVE  /\ Kept(rows, new, p) \in Rows
         /\ Kept(rows, new, p).key = p.key
         /\ Kept(rows, new, p).op = p.op
         /\ Kept(rows, new, p).val = p.val
         /\ Kept(rows, new, p).block = p.block
         /\ \/ Kept(rows, new, p) = p
            \/ \E r \in new : /\ r.key = p.key /\ Closes(r, p)
                               /\ Kept(rows, new, p) = [p EXCEPT !.end = r.block]
<1>1. CASE \E r \in new : Previous(rows, r, p) /\ Closes(r, p)
  <2>1. PICK r \in new : Previous(rows, r, p) /\ Closes(r, p)
    BY <1>1
  <2>2. r.key = p.key /\ \A s \in new : s.key = p.key => s = r
    BY <2>1 DEF Previous, LastRow, ChangesOf
  <2>3. (CHOOSE s \in new : s.key = p.key) = r
    BY <2>2
  <2>4. Kept(rows, new, p) = [p EXCEPT !.end = r.block]
    BY <1>1, <2>3 DEF Kept
  <2>5. r.block \in Nat /\ p \in Rows
    BY RowFields DEF BatchFor, ChangesOf
  <2>6. /\ [p EXCEPT !.end = r.block] \in Rows
        /\ [p EXCEPT !.end = r.block].key = p.key
        /\ [p EXCEPT !.end = r.block].op = p.op
        /\ [p EXCEPT !.end = r.block].val = p.val
        /\ [p EXCEPT !.end = r.block].block = p.block
    BY <2>5 DEF Rows
  <2> QED
    BY <2>1, <2>2, <2>4, <2>6
<1>2. CASE ~\E r \in new : Previous(rows, r, p) /\ Closes(r, p)
  <2>1. Kept(rows, new, p) = p
    BY <1>2 DEF Kept
  <2> QED
    BY <2>1 DEF BatchFor
<1> QED
  BY <1>1, <1>2

LEMMA PushedRow ==
  ASSUME NEW rows, NEW r \in Rows, NEW x \in Pushed(rows, r)
  PROVE  /\ x \in Rows
         /\ x.key = r.key /\ x.val = r.val /\ x.block = r.block /\ x.end = r.end
         /\ IsWrite(x) <=> IsWrite(r)
         /\ IsClamp(x) => x = r /\ ~HasRow(rows, r.key)
         /\ ~IsWrite(r) => ~HasRow(rows, r.key)
<1>1. CASE \A p \in rows : p.key # r.key
  BY <1>1 DEF Pushed, HasRow
<1>2. CASE (\E p \in rows : p.key = r.key) /\ r.op = "overwrite"
  <2>1. x = AsInsert(r)
    BY <1>2 DEF Pushed
  <2> QED
    BY <1>2, <2>1 DEF AsInsert, Rows, Ops, IsWrite, IsClamp
<1>3. CASE (\E p \in rows : p.key = r.key) /\ r.op = "insert"
  BY <1>3 DEF Pushed, IsClamp, IsWrite
<1>4. CASE (\E p \in rows : p.key = r.key) /\ r.op = "remove"
  BY <1>4 DEF Pushed
<1> QED
  BY <1>1, <1>2, <1>3, <1>4 DEF Rows, Ops

(* Every write of the new rows is pushed, in some form.                    *)
LEMMA WritesArePushed ==
  ASSUME NEW rows, NEW r \in Rows, IsWrite(r)
  PROVE  \E x \in Pushed(rows, r) : TRUE
BY DEF Pushed, Rows, Ops, IsWrite

LEMMA FreshRowsArePushed ==
  ASSUME NEW rows, NEW r, ~HasRow(rows, r.key)
  PROVE  r \in Pushed(rows, r)
BY DEF Pushed, HasRow
-----------------------------------------------------------------------------
(* A version of the table fares alike.                                     *)
LEMMA OldVersions ==
  ASSUME NEW table, table \subseteq Versions, NEW rows, NEW new,
         BatchFor(table, rows), ChangesOf(ApplyModifications(table, rows), new),
         NEW v \in table
  PROVE  Clamped(new, Clamped(rows, v)) = Clamped(AppendRows(rows, new), v)
<1> DEFINE appended == AppendRows(rows, new)
<1>1. CASE ~Open(v)
  BY <1>1, NotClamped
<1>2. CASE Open(v) /\ HasClamp(rows, v.key)
  <2>1. PICK p \in rows : p.key = v.key /\ IsClamp(p)
    BY <1>2 DEF HasClamp
  <2>2. p.block \in Nat /\ p.block # BlockNumberMax
    BY RowFields DEF BatchFor
  <2>3. \A q \in rows : IsClamp(q) /\ q.key = p.key => q = p
    BY <2>1 DEF BatchFor
  <2>4. Clamped(rows, v) = [v EXCEPT !.upper = p.block]
    BY <1>2, <2>1, <2>2, <2>3, ClampedBy
  <2>5. ~Open([v EXCEPT !.upper = p.block])
    BY <2>2 DEF Versions, Open
  <2>6. Clamped(new, Clamped(rows, v)) = [v EXCEPT !.upper = p.block]
    BY <2>4, <2>5, NotClamped
  <2>7. Kept(rows, new, p) \in appended
    BY DEF AppendRows
  <2>8. /\ Kept(rows, new, p).key = v.key /\ Kept(rows, new, p).block = p.block
        /\ IsClamp(Kept(rows, new, p))
    BY <2>1, KeptRow DEF IsClamp
  <2>9. ASSUME NEW x \in appended, IsClamp(x), x.key = v.key
        PROVE  x = Kept(rows, new, p)
    <3>1. CASE \E q \in rows : x = Kept(rows, new, q)
      BY <2>1, <2>3, <2>9, <3>1, KeptRow DEF IsClamp
    <3>2. CASE \E r \in new : x \in Pushed(rows, r)
      BY <2>1, <2>9, <3>2, PushedRow DEF HasRow, ChangesOf
    <3> QED
      BY <3>1, <3>2 DEF AppendRows
  <2>10. Clamped(appended, v) = [v EXCEPT !.upper = Kept(rows, new, p).block]
    BY <1>2, <2>2, <2>7, <2>8, <2>9, ClampedBy
  <2> QED
    BY <2>6, <2>8, <2>10
<1>3. CASE Open(v) /\ ~HasClamp(rows, v.key)
  <2>1. ~HasRow(rows, v.key)
    BY <1>3 DEF BatchFor, HasRow, HasCurrent, HasClamp
  <2>2. Clamped(rows, v) = v
    BY <1>3, NotClamped
  <2>3. CASE HasClamp(new, v.key)
    <3>1. PICK r \in new : r.key = v.key /\ IsClamp(r)
      BY <2>3 DEF HasClamp
    <3>2. r.block \in Nat /\ \A s \in new : IsClamp(s) /\ s.key = r.key => s = r
      BY RowFields DEF ChangesOf
    <3>3. Clamped(new, v) = [v EXCEPT !.upper = r.block]
      BY <1>3, <3>1, <3>2, ClampedBy
    <3>4. r \in appended
      BY <2>1, <3>1, FreshRowsArePushed DEF AppendRows
    <3>5. ASSUME NEW x \in appended, IsClamp(x), x.key = r.key
          PROVE  x = r
      <4>1. CASE \E q \in rows : x = Kept(rows, new, q)
        BY <2>1, <3>1, <3>5, <4>1, KeptRow DEF HasRow
      <4>2. CASE \E s \in new : x \in Pushed(rows, s)
        BY <3>2, <3>5, <4>2, PushedRow DEF ChangesOf
      <4> QED
        BY <4>1, <4>2 DEF AppendRows
    <3>6. Clamped(appended, v) = [v EXCEPT !.upper = r.block]
      BY <1>3, <3>1, <3>2, <3>4, <3>5, ClampedBy
    <3> QED
      BY <2>2, <3>3, <3>6
  <2>4. CASE ~HasClamp(new, v.key)
    <3>1. ASSUME NEW x \in appended, IsClamp(x), x.key = v.key
          PROVE  FALSE
      <4>1. CASE \E q \in rows : x = Kept(rows, new, q)
        BY <2>1, <3>1, <4>1, KeptRow DEF HasRow
      <4>2. CASE \E s \in new : x \in Pushed(rows, s)
        BY <2>4, <3>1, <4>2, PushedRow DEF ChangesOf, HasClamp
      <4> QED
        BY <4>1, <4>2 DEF AppendRows
    <3>2. Clamped(appended, v) = v
      BY <3>1, NotClamped DEF HasClamp
    <3> QED
      BY <2>2, <2>4, <3>2, NotClamped
  <2> QED
    BY <2>3, <2>4
<1> QED
  BY <1>1, <1>2, <1>3

(* So does one that the batch writes: that it is closed before it gets to  *)
(* the table makes no difference.                                          *)
LEMMA BatchedVersions ==
  ASSUME NEW table, NEW rows, NEW new,
         BatchFor(table, rows), ChangesOf(ApplyModifications(table, rows), new),
         NEW p \in rows, IsWrite(p)
  PROVE  Clamped(new, Version(p)) = Version(Kept(rows, new, p))
<1>1. p \in Rows
  BY DEF BatchFor
<1>2. Open(Version(p)) <=> ~Ended(p)
  BY DEF Open, Version, Ended
<1>3. Version(p).key = p.key
  BY DEF Version
<1>4. CASE Open(Version(p)) /\ HasClamp(new, p.key)
  <2>1. PICK r \in new : r.key = p.key /\ IsClamp(r)
    BY <1>4 DEF HasClamp
  <2>2. r \in Rows /\ r.block \in Nat /\ \A s \in new : s.key = p.key => s = r
    BY <2>1, RowFields DEF ChangesOf
  <2>3. Clamped(new, Version(p)) = [Version(p) EXCEPT !.upper = r.block]
    BY <1>3, <1>4, <2>1, <2>2, ClampedBy
  <2>4. Previous(rows, p, p)
    BY <1>2, <1>4 DEF BatchFor
  <2>5. Previous(rows, r, p) /\ Closes(r, p)
    BY <1>2, <1>4, <2>1, <2>2, <2>4
    DEF Previous, Closes, IsClamp, Rows, Ops
  <2>6. (CHOOSE s \in new : s.key = p.key) = r
    BY <2>1, <2>2
  <2>7. Kept(rows, new, p) = [p EXCEPT !.end = r.block]
    BY <2>5, <2>6 DEF Kept
  <2>8. Version([p EXCEPT !.end = r.block]) = [Version(p) EXCEPT !.upper = r.block]
    BY <1>1, <2>2 DEF Version, Rows
  <2> QED
    BY <2>3, <2>7, <2>8
<1>5. CASE ~(Open(Version(p)) /\ HasClamp(new, p.key))
  <2>1. Clamped(new, Version(p)) = Version(p)
    BY <1>3, <1>5, NotClamped
  <2>2. ~\E r \in new : Previous(rows, r, p) /\ Closes(r, p)
    BY <1>2, <1>5 DEF HasClamp, Previous, LastRow, Closes, IsClamp
  <2>3. Kept(rows, new, p) = p
    BY <2>2 DEF Kept
  <2> QED
    BY <2>1, <2>3
<1> QED
  BY <1>4, <1>5
-----------------------------------------------------------------------------
(* "Append batch to self so that writing self afterwards has the same      *)
(* effect as writing self first and then batch in separate transactions"   *)
(* (Batch::append), for the batch of a later block.                        *)
THEOREM AppendIsSequential ==
  ASSUME NEW table, table \subseteq Versions, NEW rows, NEW new,
         BatchFor(table, rows), ChangesOf(ApplyModifications(table, rows), new)
  PROVE  ApplyModifications(table, AppendRows(rows, new))
           = ApplyModifications(ApplyModifications(table, rows), new)
<1> DEFINE appended == AppendRows(rows, new)
           first == ApplyModifications(table, rows)
           both == ApplyModifications(first, new)
<1>1. \A v \in table : Clamped(appended, v) = Clamped(new, Clamped(rows, v))
  BY OldVersions
<1>2. \A p \in rows : IsWrite(p) =>
        Version(Kept(rows, new, p)) = Clamped(new, Version(p))
  BY BatchedVersions
<1>3. ASSUME NEW x \in ApplyModifications(table, appended)
      PROVE  x \in both
  <2>1. CASE \E v \in table : x = Clamped(appended, v)
    BY <1>1, <2>1 DEF ApplyModifications
  <2>2. CASE \E p \in rows : IsWrite(Kept(rows, new, p))
                             /\ x = Version(Kept(rows, new, p))
    <3>1. PICK p \in rows : IsWrite(Kept(rows, new, p))
                            /\ x = Version(Kept(rows, new, p))
      BY <2>2
    <3>2. IsWrite(p)
      BY <3>1, KeptRow DEF IsWrite
    <3>3. x = Clamped(new, Version(p)) /\ Version(p) \in first
      BY <1>2, <3>1, <3>2 DEF ApplyModifications, Written
    <3> QED
      BY <3>3 DEF ApplyModifications
  <2>3. CASE \E r \in new : \E y \in Pushed(rows, r) : IsWrite(y) /\ x = Version(y)
    <3>1. PICK r \in new : \E y \in Pushed(rows, r) : IsWrite(y) /\ x = Version(y)
      BY <2>3
    <3>2. PICK y \in Pushed(rows, r) : IsWrite(y) /\ x = Version(y)
      BY <3>1
    <3>3. IsWrite(r) /\ x = Version(r)
      BY <3>2, PushedRow DEF ChangesOf, Version
    <3> QED
      BY <3>3 DEF ApplyModifications, Written
  <2> QED
    BY <1>3, <2>1, <2>2, <2>3 DEF ApplyModifications, Written, AppendRows
<1>4. ASSUME NEW x \in both
      PROVE  x \in ApplyModifications(table, appended)
  <2>1. CASE \E v \in table : x = Clamped(new, Clamped(rows, v))
    BY <1>1, <2>1 DEF ApplyModifications
  <2>2. CASE \E p \in rows : IsWrite(p) /\ x = Clamped(new, Version(p))
    <3>1. PICK p \in rows : IsWrite(p) /\ x = Clamped(new, Version(p))
      BY <2>2
    <3>2. Kept(rows, new, p) \in appended /\ IsWrite(Kept(rows, new, p))
      BY <3>1, KeptRow DEF IsWrite, AppendRows
    <3> QED
      BY <1>2, <3>1, <3>2 DEF ApplyModifications, Written
  <2>3. CASE \E r \in new : IsWrite(r) /\ x = Version(r)
    <3>1. PICK r \in new : IsWrite(r) /\ x = Version(r)
      BY <2>3
    <3>2. r \in Rows
      BY DEF ChangesOf
    <3>3. PICK y \in Pushed(rows, r) : TRUE
      BY <3>1, <3>2, WritesArePushed
    <3>4. IsWrite(y) /\ Version(y) = Version(r) /\ y \in appended
      BY <3>1, <3>2, <3>3, PushedRow DEF Version, AppendRows
    <3> QED
      BY <3>1, <3>4 DEF ApplyModifications, Written
  <2> QED
    BY <1>4, <2>1, <2>2, <2>3 DEF ApplyModifications, Written
<1> QED
  BY <1>3, <1>4

-----------------------------------------------------------------------------
(* One block's changes are a batch.                                        *)
THEOREM ChangesMakeABatch ==
  ASSUME NEW table, NEW new, ChangesOf(table, new)
  PROVE  BatchFor(table, new)
<1>1. ASSUME NEW p \in new
      PROVE  Previous(new, p, p)
  <2>1. p.block <= BlockNumberMax /\ p.block <= p.block
    BY RowFields, BlockNumberMaxAssumption DEF ChangesOf
  <2>2. \A s \in new : s.key = p.key => s = p
    BY DEF ChangesOf
  <2> QED
    BY <2>1, <2>2 DEF Previous, LastRow
<1>2. \A p \in new : HasCurrent(table, p.key) => HasClamp(new, p.key)
  BY DEF ChangesOf, HasClamp
<1>3. new \subseteq Rows /\ \A p, q \in new : p.key = q.key => p = q
  BY DEF ChangesOf
<1> QED
  BY <1>1, <1>2, <1>3 DEF BatchFor

(* The current version of an entity that a batch has rows of.              *)
LEMMA CurrentAfter ==
  ASSUME NEW table, table \subseteq Versions, NEW rows,
         BatchFor(table, rows), NEW p \in rows
  PROVE  HasCurrent(ApplyModifications(table, rows), p.key)
           <=> \E q \in rows : q.key = p.key /\ IsWrite(q) /\ ~Ended(q)
<1>1. ASSUME NEW v \in table, v.key = p.key
      PROVE  Clamped(rows, v).key = p.key /\ ~Open(Clamped(rows, v))
  <2>1. CASE ~Open(v)
    BY <1>1, <2>1, NotClamped
  <2>2. CASE Open(v)
    <3>1. PICK q \in rows : q.key = p.key /\ IsClamp(q)
      BY <1>1, <2>2 DEF BatchFor, HasCurrent, HasClamp
    <3>2. /\ q.block \in Nat /\ q.block # BlockNumberMax
          /\ \A s \in rows : IsClamp(s) /\ s.key = q.key => s = q
      BY <3>1, RowFields DEF BatchFor
    <3>3. Clamped(rows, v) = [v EXCEPT !.upper = q.block]
      BY <1>1, <2>2, <3>1, <3>2, ClampedBy
    <3> QED
      BY <1>1, <3>2, <3>3 DEF Versions, Open
  <2> QED
    BY <2>1, <2>2
<1>2. ASSUME NEW v \in table
      PROVE  Clamped(rows, v).key = v.key
  BY DEF Clamped, Versions
<1>3. \A q \in rows : Version(q).key = q.key /\ (Open(Version(q)) <=> ~Ended(q))
  BY DEF Version, Open, Ended
<1> QED
  BY <1>1, <1>2, <1>3 DEF HasCurrent, ApplyModifications, Written

(* append_row never meets an impossible combination: a batch never has to  *)
(* be thrown away with its error.                                          *)
THEOREM AppendNeverFails ==
  ASSUME NEW table, table \subseteq Versions, NEW rows, NEW new,
         BatchFor(table, rows), ChangesOf(ApplyModifications(table, rows), new),
         Later(rows, new)
  PROVE  Fits(rows, new)
<1> SUFFICES ASSUME NEW r \in new, NEW p \in rows, Previous(rows, r, p)
             PROVE  ~Impossible(r, p)
  BY DEF Fits
<1>1. r \in Rows /\ p \in Rows /\ r.key = p.key
  BY DEF BatchFor, ChangesOf, Previous, LastRow
<1>2. ~(r.block <= p.block)
  BY <1>1, RowFields DEF Later
<1>3. (\E q \in rows : q.key = p.key /\ IsWrite(q) /\ ~Ended(q))
        <=> IsWrite(p) /\ ~Ended(p)
  <2>1. ASSUME NEW q \in rows, q.key = p.key, IsWrite(q), ~Ended(q)
        PROVE  q = p
    <3>1. Previous(rows, q, q)
      BY <2>1 DEF BatchFor
    <3>2. q.block <= p.block /\ p.block <= q.block
      BY <1>1, <2>1, <3>1, RowFields DEF Previous, LastRow, BatchFor, Rows, Blocks
    <3>3. q.block = p.block
      BY <3>2, RowFields DEF BatchFor
    <3> QED
      BY <2>1, <3>3 DEF BatchFor
  <2> QED
    BY <2>1
<1>4. IsClamp(r) <=> IsWrite(p) /\ ~Ended(p)
  BY <1>1, <1>3, CurrentAfter DEF ChangesOf
<1> QED
  BY <1>1, <1>2, <1>4 DEF Impossible, IsClamp, IsWrite, Rows, Ops

(* An appended batch is a batch again: the three theorems hold of batches  *)
(* of any number of blocks.                                                *)
THEOREM AppendMakesABatch ==
  ASSUME NEW table, table \subseteq Versions, NEW rows, NEW new,
         BatchFor(table, rows), ChangesOf(ApplyModifications(table, rows), new),
         Later(rows, new)
  PROVE  BatchFor(table, AppendRows(rows, new))
<1> DEFINE appended == AppendRows(rows, new)
<1> HIDE DEF appended
<1>1. ASSUME NEW x \in appended
      PROVE  \/ \E p \in rows : x = Kept(rows, new, p)
             \/ \E r \in new : x \in Pushed(rows, r)
  BY <1>1 DEF appended, AppendRows
<1>2. new \subseteq Rows /\ rows \subseteq Rows
  BY DEF ChangesOf, BatchFor
<1>3. appended \subseteq Rows
  BY <1>1, <1>2, KeptRow, PushedRow
(* Rows of the batch keep their key and block; new ones come later.        *)
<1>4. ASSUME NEW x \in appended, NEW y \in appended,
             x.key = y.key, x.block = y.block
      PROVE  x = y
  <2>1. ASSUME NEW p \in rows, NEW r \in new, NEW z \in Pushed(rows, r)
        PROVE  Kept(rows, new, p).block # z.block
    BY <1>2, <2>1, KeptRow, PushedRow, RowFields DEF Later
  <2>2. CASE \E p \in rows : x = Kept(rows, new, p)
    <3>1. \E q \in rows : y = Kept(rows, new, q)
      BY <1>1, <1>4, <2>1, <2>2
    <3> QED
      BY <1>4, <2>2, <3>1, KeptRow DEF BatchFor
  <2>3. CASE \E r \in new : x \in Pushed(rows, r)
    <3>1. PICK r \in new : x \in Pushed(rows, r)
      BY <2>3
    <3>2. PICK s \in new : y \in Pushed(rows, s)
      BY <1>1, <1>4, <2>1, <3>1
    <3>3. r = s
      BY <1>2, <1>4, <3>1, <3>2, PushedRow DEF ChangesOf
    <3> QED
      BY <3>1, <3>2, <3>3 DEF Pushed
  <2> QED
    BY <1>1, <2>2, <2>3
<1>5. ASSUME NEW x \in appended, IsWrite(x), ~Ended(x)
      PROVE  Previous(appended, x, x)
  <2> SUFFICES ASSUME NEW y \in appended, y.key = x.key
               PROVE  y.block <= x.block
    BY <1>3, <1>5, RowFields, BlockNumberMaxAssumption DEF Previous, LastRow
  <2>1. CASE \E r \in new : x \in Pushed(rows, r)
    <3>1. PICK r \in new : x \in Pushed(rows, r)
      BY <2>1
    <3>2. x.block = r.block /\ x.key = r.key
      BY <1>2, <3>1, PushedRow
    <3>3. CASE \E p \in rows : y = Kept(rows, new, p)
      BY <1>2, <3>2, <3>3, KeptRow, RowFields DEF Later
    <3>4. CASE \E s \in new : y \in Pushed(rows, s)
      BY <1>2, <3>2, <3>4, PushedRow, RowFields DEF ChangesOf
    <3> QED
      BY <1>1, <3>3, <3>4
  <2>2. CASE \E p \in rows : x = Kept(rows, new, p)
    <3>1. PICK p \in rows : x = Kept(rows, new, p)
      BY <2>2
    <3>2. p.key = x.key /\ p.block = x.block /\ IsWrite(p)
      BY <1>5, <3>1, KeptRow DEF IsWrite
    <3>3. x = p
      <4>1. ASSUME NEW r \in new, x = [p EXCEPT !.end = r.block]
            PROVE  FALSE
        BY <1>2, <1>5, <4>1, RowFields DEF Ended, Rows
      <4> QED
        BY <3>1, <4>1, KeptRow
    <3>4. Previous(rows, p, p)
      BY <1>5, <3>3 DEF BatchFor
    <3>5. CASE \E q \in rows : y = Kept(rows, new, q)
      <4>1. PICK q \in rows : y = Kept(rows, new, q)
        BY <3>5
      <4>2. q.key = p.key /\ q.block = y.block
        BY <3>2, <4>1, KeptRow
      <4> QED
        BY <1>2, <3>2, <3>4, <4>2, RowFields, BlockNumberMaxAssumption
        DEF Previous, LastRow
    (* A change of the key would have closed p: it finds a current version. *)
    <3>6. CASE \E r \in new : y \in Pushed(rows, r)
      <4>1. PICK r \in new : y \in Pushed(rows, r)
        BY <3>6
      <4>2. r.key = p.key
        BY <1>2, <3>2, <4>1, PushedRow
      <4>3. IsClamp(r)
        BY <1>5, <3>2, <3>3, <4>2, CurrentAfter DEF ChangesOf
      <4>4. Previous(rows, r, p) /\ Closes(r, p)
        BY <1>2, <1>5, <3>2, <3>3, <3>4, <4>2, <4>3
        DEF Previous, Closes, IsClamp, Rows, Ops
      <4>5. (CHOOSE s \in new : s.key = p.key) = r
        BY <4>2 DEF ChangesOf
      <4>6. Kept(rows, new, p) = [p EXCEPT !.end = r.block]
        BY <4>4, <4>5 DEF Kept
      <4> QED
        BY <1>2, <1>5, <3>1, <4>6, RowFields DEF Ended, Rows
    <3> QED
      BY <1>1, <3>5, <3>6
  <2> QED
    BY <1>1, <2>1, <2>2
<1>6. ASSUME NEW x \in appended, NEW y \in appended,
             IsClamp(x), IsClamp(y), x.key = y.key
      PROVE  x = y
  <2>1. CASE \E r \in new : x \in Pushed(rows, r)
    <3>1. PICK r \in new : x \in Pushed(rows, r)
      BY <2>1
    <3>2. x = r /\ ~HasRow(rows, r.key)
      BY <1>2, <1>6, <3>1, PushedRow
    <3>3. PICK s \in new : y \in Pushed(rows, s)
      BY <1>1, <1>6, <3>2, KeptRow DEF HasRow
    <3>4. y = s
      BY <1>2, <1>6, <3>3, PushedRow
    <3> QED
      BY <1>6, <3>2, <3>4 DEF ChangesOf
  <2>2. CASE \E p \in rows : x = Kept(rows, new, p)
    <3>1. PICK p \in rows : x = Kept(rows, new, p)
      BY <2>2
    <3>2. p.key = x.key /\ IsClamp(p)
      BY <1>6, <3>1, KeptRow DEF IsClamp
    <3>3. PICK q \in rows : y = Kept(rows, new, q)
      BY <1>1, <1>2, <1>6, <3>2, PushedRow DEF HasRow
    <3>4. q.key = p.key /\ IsClamp(q)
      BY <1>6, <3>2, <3>3, KeptRow DEF IsClamp
    <3> QED
      BY <3>1, <3>2, <3>3, <3>4 DEF BatchFor
  <2> QED
    BY <1>1, <2>1, <2>2
<1>7. ASSUME NEW x \in appended, HasCurrent(table, x.key)
      PROVE  HasClamp(appended, x.key)
  <2>1. ASSUME NEW p \in rows, p.key = x.key
        PROVE  HasClamp(appended, x.key)
    <3>1. PICK q \in rows : q.key = x.key /\ IsClamp(q)
      BY <1>7, <2>1 DEF BatchFor, HasClamp
    <3>2. Kept(rows, new, q) \in appended
      BY DEF appended, AppendRows
    <3> QED
      BY <3>1, <3>2, KeptRow DEF HasClamp, IsClamp
  <2>2. CASE ~HasRow(rows, x.key)
    <3>1. PICK r \in new : x \in Pushed(rows, r)
      BY <1>1, <2>2, KeptRow DEF HasRow
    <3>2. x = r
      BY <1>2, <2>2, <3>1, PushedRow DEF Pushed, HasRow
    <3>3. PICK v \in table : v.key = x.key /\ Open(v)
      BY <1>7 DEF HasCurrent
    <3>4. Clamped(rows, v) = v
      BY <2>2, <3>3, NotClamped DEF HasRow, HasClamp
    <3>5. HasCurrent(ApplyModifications(table, rows), x.key)
      BY <3>3, <3>4 DEF HasCurrent, ApplyModifications
    <3>6. IsClamp(x)
      BY <3>2, <3>5 DEF ChangesOf
    <3> QED
      BY <3>6 DEF HasClamp
  <2> QED
    BY <2>1, <2>2 DEF HasRow
<1> QED
  BY <1>3, <1>4, <1>5, <1>6, <1>7 DEF BatchFor, appended
-----------------------------------------------------------------------------
(* What as_modifications returns, when the handlers saw what the table     *)
(* holds, are the changes the theorems above are about.                    *)
THEOREM ModificationsAreChanges ==
  ASSUME NEW table, NEW n \in Blocks,
         NEW saw \in [Keys -> Vals \cup {Absent}],
         NEW wants \in [Keys -> Vals \cup {Absent}],
         \A k \in Keys : saw[k] # Absent <=> HasCurrent(table, k)
  PROVE  ChangesOf(table, Modifications(saw, wants, n))
<1> DEFINE new == Modifications(saw, wants, n)
<1>1. ASSUME NEW r \in new
      PROVE  \E k \in Keys : r \in Modification(k, saw[k], wants[k], n)
  BY DEF Modifications
<1>2. ASSUME NEW k \in Keys, NEW r \in Modification(k, saw[k], wants[k], n)
      PROVE  /\ r \in Rows /\ r.key = k /\ ~Ended(r)
             /\ IsClamp(r) <=> saw[k] # Absent
             /\ \A s \in Modification(k, saw[k], wants[k], n) : r = s
  BY BlockNumberMaxAssumption
  DEF Modification, Row, Rows, Ops, Ended, IsClamp
<1>3. new \subseteq Rows /\ \A r \in new : ~Ended(r)
  BY <1>1, <1>2
<1>4. \A r, s \in new : r.key = s.key => r = s
  BY <1>1, <1>2
<1>5. \A r \in new : IsClamp(r) <=> HasCurrent(table, r.key)
  BY <1>1, <1>2
<1> QED
  BY <1>3, <1>4, <1>5 DEF ChangesOf

(* Reverting a batch's first block brings back the table it was written    *)
(* to: "only entity versions inserted or updated at blocks with numbers    *)
(* strictly lower than block will remain" (revert_block), and those as     *)
(* they were.                                                              *)
THEOREM RevertUndoesBatch ==
  ASSUME NEW table, table \subseteq Versions, NEW rows, NEW n \in Blocks,
         BatchFor(table, rows),
         \A p \in rows : n <= p.block,
         \A v \in table : v.lower < n /\ (Open(v) \/ v.upper < n)
  PROVE  RevertBlock(ApplyModifications(table, rows), n) = table
<1> DEFINE written == ApplyModifications(table, rows)
           Undo(v) == IF Contains(v, n - 1)
                      THEN [v EXCEPT !.upper = BlockNumberMax] ELSE v
<1>1. n \in Nat /\ BlockNumberMax \in Nat
  BY BlockNumberMaxAssumption DEF Blocks
<1>2. ASSUME NEW v \in table
      PROVE  Undo(Clamped(rows, v)) = v /\ Clamped(rows, v).lower < n
  <2>1. v = [key |-> v.key, val |-> v.val, lower |-> v.lower, upper |-> v.upper]
        /\ v.lower \in Nat /\ v.upper \in Nat /\ v.lower < n
    BY DEF Versions, Blocks
  <2>2. CASE ~Open(v)
    BY <1>1, <2>1, <2>2, NotClamped DEF Contains
  <2>3. CASE Open(v) /\ ~HasClamp(rows, v.key)
    <3>1. Clamped(rows, v) = v
      BY <2>3, NotClamped
    <3>2. [v EXCEPT !.upper = BlockNumberMax] = v
      BY <2>1, <2>3 DEF Open
    <3> QED
      BY <2>1, <3>1, <3>2
  <2>4. CASE Open(v) /\ HasClamp(rows, v.key)
    <3>1. PICK p \in rows : p.key = v.key /\ IsClamp(p)
      BY <2>4 DEF HasClamp
    <3>2. p.block \in Nat /\ n <= p.block
          /\ \A q \in rows : IsClamp(q) /\ q.key = p.key => q = p
      BY <3>1, RowFields DEF BatchFor
    <3>3. Clamped(rows, v) = [v EXCEPT !.upper = p.block]
      BY <2>4, <3>1, <3>2, ClampedBy
    <3>4. Contains([v EXCEPT !.upper = p.block], n - 1)
      BY <1>1, <2>1, <3>2 DEF Contains
    <3>5. [[v EXCEPT !.upper = p.block] EXCEPT !.upper = BlockNumberMax] = v
      BY <2>1, <2>4 DEF Open
    <3> QED
      BY <2>1, <3>3, <3>4, <3>5
  <2> QED
    BY <2>2, <2>3, <2>4
<1>3. ASSUME NEW p \in rows
      PROVE  ~(Version(p).lower < n)
  BY <1>1, <1>3, RowFields DEF Version, BatchFor
<1>4. {v \in written : v.lower < n} = {Clamped(rows, v) : v \in table}
  BY <1>2, <1>3 DEF ApplyModifications, Written
<1>5. RevertBlock(written, n) = {Undo(v) : v \in {Clamped(rows, w) : w \in table}}
  BY <1>4 DEF RevertBlock
<1>6. {Undo(v) : v \in {Clamped(rows, w) : w \in table}} = table
  BY <1>2
<1> QED
  BY <1>5, <1>6
-----------------------------------------------------------------------------
(* A table at a block: the versions of an entity are disjoint, none is     *)
(* empty and none is of a later block, or of block 0, where a deployment   *)
(* begins.                                                                 *)
TableUpTo(table, at) ==
  /\ table \subseteq Versions /\ at \in Blocks
  /\ \A v, w \in table :
       v.key = w.key => v = w \/ v.upper <= w.lower \/ w.upper <= v.lower
  /\ \A v \in table : /\ v.val \in Vals
                      /\ 0 < v.lower /\ v.lower < v.upper /\ v.lower <= at
                      /\ Open(v) \/ v.upper <= at

(* A batch that takes such a table to a later block: an entity's rows      *)
(* follow each other, and only the first may end a version of the table.   *)
BatchUpTo(table, at, rows, until) ==
  /\ BatchFor(table, rows) /\ until \in Blocks /\ at < until
  /\ \A p \in rows : /\ at < p.block /\ p.block <= until
                     /\ IsWrite(p) => p.val \in Vals
                     /\ Ended(p) => p.block < p.end /\ p.end <= until
  /\ \A p, q \in rows : p.key = q.key =>
       /\ IsClamp(p) => p.block <= q.block
       /\ IsWrite(p) /\ p.block < q.block => Ended(p) /\ p.end <= q.block

(* The changes of one block.                                               *)
ChangesAt(table, new, n) ==
  /\ ChangesOf(table, new)
  /\ \A r \in new : r.block = n /\ (IsWrite(r) => r.val \in Vals)

LEMMA VersionFields ==
  ASSUME NEW v \in Versions
  PROVE  /\ v.key \in Keys /\ v.lower \in Nat /\ v.upper \in Nat
         /\ v.lower < BlockNumberMax /\ BlockNumberMax \in Nat
         /\ \A n \in Nat :
              /\ [v EXCEPT !.upper = n] \in Versions
              /\ [v EXCEPT !.upper = n].key = v.key
              /\ [v EXCEPT !.upper = n].val = v.val
              /\ [v EXCEPT !.upper = n].lower = v.lower
              /\ [v EXCEPT !.upper = n].upper = n
BY BlockNumberMaxAssumption DEF Versions, Blocks

LEMMA RowVersion ==
  ASSUME NEW r \in Rows
  PROVE  /\ Version(r) \in Versions
         /\ Version(r).key = r.key /\ Version(r).val = r.val
         /\ Version(r).lower = r.block /\ Version(r).upper = r.end
         /\ Open(Version(r)) <=> ~Ended(r)
BY DEF Version, Rows, Versions, Open, Ended

(* What a batch makes of a version of the table.                           *)
LEMMA ClampedVersion ==
  ASSUME NEW table, NEW at, NEW rows, NEW until,
         TableUpTo(table, at), BatchUpTo(table, at, rows, until),
         NEW v \in table
  PROVE  \/ /\ Clamped(rows, v) = v
            /\ \/ ~Open(v) /\ v.upper <= at
               \/ \A p \in rows : p.key # v.key
         \/ \E p \in rows : /\ p.key = v.key /\ IsClamp(p) /\ Open(v)
                            /\ Clamped(rows, v) = [v EXCEPT !.upper = p.block]
<1>1. CASE ~Open(v)
  BY <1>1, NotClamped DEF TableUpTo
<1>2. CASE Open(v) /\ HasClamp(rows, v.key)
  <2>1. PICK p \in rows : p.key = v.key /\ IsClamp(p)
    BY <1>2 DEF HasClamp
  <2>2. \A q \in rows : IsClamp(q) /\ q.key = p.key => q = p
    BY <2>1 DEF BatchUpTo, BatchFor
  <2>3. p.block \in Nat
    BY RowFields DEF BatchUpTo, BatchFor
  <2> QED
    BY <1>2, <2>1, <2>2, <2>3, ClampedBy
<1>3. CASE Open(v) /\ ~HasClamp(rows, v.key)
  <2>1. Clamped(rows, v) = v
    BY <1>3, NotClamped
  <2>2. ASSUME NEW p \in rows, p.key = v.key PROVE FALSE
    BY <1>3, <2>2 DEF BatchUpTo, BatchFor, HasCurrent
  <2> QED
    BY <2>1, <2>2
<1> QED
  BY <1>1, <1>2, <1>3

LEMMA WrittenVersion ==
  ASSUME NEW table, NEW rows,
         NEW v \in ApplyModifications(table, rows)
  PROVE  \/ \E w \in table : v = Clamped(rows, w)
         \/ \E p \in rows : IsWrite(p) /\ v = Version(p)
BY DEF ApplyModifications, Written

(* A batch takes the table to its last block.                              *)
THEOREM BatchKeepsTable ==
  ASSUME NEW table, NEW at, NEW rows, NEW until,
         TableUpTo(table, at), BatchUpTo(table, at, rows, until)
  PROVE  TableUpTo(ApplyModifications(table, rows), until)
<1> DEFINE after == ApplyModifications(table, rows)
<1> HIDE DEF after
<1>1. /\ table \subseteq Versions /\ rows \subseteq Rows
      /\ at \in Nat /\ until \in Nat /\ until \in Blocks
      /\ at < until /\ until < BlockNumberMax /\ BlockNumberMax \in Nat
  BY BlockNumberMaxAssumption DEF TableUpTo, BatchUpTo, BatchFor, Blocks
(* Old versions and new ones.                                              *)
<1>2. ASSUME NEW v \in table
      PROVE  /\ Clamped(rows, v) \in Versions /\ Clamped(rows, v).key = v.key
             /\ Clamped(rows, v).val \in Vals
             /\ Clamped(rows, v).lower = v.lower
             /\ 0 < v.lower /\ v.lower <= at
             /\ v.lower < Clamped(rows, v).upper
             /\ Clamped(rows, v).upper <= v.upper
             /\ Open(Clamped(rows, v)) \/ Clamped(rows, v).upper <= until
             /\ \A p \in rows : p.key = v.key => Clamped(rows, v).upper <= p.block
  <2>1. /\ v \in Versions /\ v.lower \in Nat /\ v.upper \in Nat /\ v.val \in Vals
        /\ v.lower < v.upper /\ v.lower <= at /\ (Open(v) \/ v.upper <= at)
        /\ 0 < v.lower
    BY <1>1, VersionFields DEF TableUpTo
  <2>2. CASE /\ Clamped(rows, v) = v
             /\ \/ ~Open(v) /\ v.upper <= at
                \/ \A p \in rows : p.key # v.key
    <3>1. \A p \in rows : at < p.block /\ p.block \in Nat
      BY <1>1, RowFields DEF BatchUpTo
    <3> QED
      BY <1>1, <2>1, <2>2, <3>1
  <2>3. CASE \E p \in rows : /\ p.key = v.key /\ IsClamp(p) /\ Open(v)
                             /\ Clamped(rows, v) = [v EXCEPT !.upper = p.block]
    <3>1. PICK p \in rows : /\ p.key = v.key /\ IsClamp(p) /\ Open(v)
                            /\ Clamped(rows, v) = [v EXCEPT !.upper = p.block]
      BY <2>3
    <3>2. /\ at < p.block /\ p.block <= until /\ p.block \in Nat
          /\ \A q \in rows : q.key = v.key => p.block <= q.block
      BY <1>1, <3>1, RowFields DEF BatchUpTo
    <3>3. /\ Clamped(rows, v) \in Versions /\ Clamped(rows, v).key = v.key
          /\ Clamped(rows, v).val = v.val /\ Clamped(rows, v).lower = v.lower
          /\ Clamped(rows, v).upper = p.block /\ v.upper = BlockNumberMax
      BY <2>1, <3>1, <3>2, VersionFields DEF Open
    <3> QED
      BY <1>1, <2>1, <3>2, <3>3
  <2> QED
    BY <2>2, <2>3, ClampedVersion
<1>3. ASSUME NEW p \in rows, IsWrite(p)
      PROVE  /\ Version(p) \in Versions /\ Version(p).key = p.key
             /\ Version(p).val \in Vals
             /\ Version(p).lower = p.block /\ p.block <= until /\ at < p.block
             /\ p.block < Version(p).upper /\ Version(p).upper = p.end
             /\ Open(Version(p)) \/ Version(p).upper <= until
             /\ p.block \in Nat /\ p.end \in Nat
  <2>1. p \in Rows /\ p.block \in Nat /\ p.block < BlockNumberMax /\ p.end \in Nat
    BY <1>1, RowFields
  <2>2. /\ at < p.block /\ p.block <= until /\ p.val \in Vals
        /\ Ended(p) => p.block < p.end /\ p.end <= until
    BY <1>3 DEF BatchUpTo
  <2> QED
    BY <1>1, <2>1, <2>2, RowVersion DEF Ended
<1>4. ASSUME NEW v \in after
      PROVE  /\ v \in Versions /\ v.val \in Vals
             /\ 0 < v.lower /\ v.lower < v.upper /\ v.lower <= until
             /\ Open(v) \/ v.upper <= until
  <2>1. CASE \E w \in table : v = Clamped(rows, w)
    <3>1. PICK w \in table : v = Clamped(rows, w)
      BY <2>1
    <3>2. v.lower \in Nat /\ v.lower = w.lower /\ w.lower <= at
      BY <1>2, <3>1, VersionFields
    <3> QED
      BY <1>1, <1>2, <3>1, <3>2
  <2>2. CASE \E p \in rows : IsWrite(p) /\ v = Version(p)
    BY <1>1, <1>3, <2>2
  <2> QED
    BY <2>1, <2>2, WrittenVersion DEF after
(* Two of them.                                                            *)
<1>5. ASSUME NEW v \in table, NEW w \in table, v.key = w.key
      PROVE  \/ Clamped(rows, v) = Clamped(rows, w)
             \/ Clamped(rows, v).upper <= w.lower
             \/ Clamped(rows, w).upper <= v.lower
  <2>1. v = w \/ v.upper <= w.lower \/ w.upper <= v.lower
    BY <1>5 DEF TableUpTo
  <2>2. /\ v.lower \in Nat /\ w.lower \in Nat /\ v.upper \in Nat /\ w.upper \in Nat
        /\ Clamped(rows, v).upper \in Nat /\ Clamped(rows, w).upper \in Nat
        /\ Clamped(rows, v).upper <= v.upper /\ Clamped(rows, w).upper <= w.upper
    BY <1>1, <1>2, VersionFields
  <2> QED
    BY <2>1, <2>2
<1>6. ASSUME NEW p \in rows, NEW q \in rows, IsWrite(p), IsWrite(q), p.key = q.key
      PROVE  p = q \/ p.end <= q.block \/ q.end <= p.block
  <2>1. /\ p.block < q.block => p.end <= q.block
        /\ q.block < p.block => q.end <= p.block
        /\ p.block = q.block => p = q
    BY <1>6 DEF BatchUpTo, BatchFor
  <2> QED
    BY <1>3, <1>6, <2>1
<1>7. ASSUME NEW v \in after, NEW w \in after, v.key = w.key
      PROVE  v = w \/ v.upper <= w.lower \/ w.upper <= v.lower
  <2>1. CASE \E x, y \in table : v = Clamped(rows, x) /\ w = Clamped(rows, y)
    BY <1>2, <1>5, <1>7, <2>1
  <2>2. CASE \E x \in table, q \in rows :
               v = Clamped(rows, x) /\ IsWrite(q) /\ w = Version(q)
    BY <1>2, <1>3, <1>7, <2>2
  <2>3. CASE \E p \in rows, y \in table :
               w = Clamped(rows, y) /\ IsWrite(p) /\ v = Version(p)
    BY <1>2, <1>3, <1>7, <2>3
  <2>4. CASE \E p, q \in rows :
               IsWrite(p) /\ v = Version(p) /\ IsWrite(q) /\ w = Version(q)
    <3>1. PICK p \in rows, q \in rows :
               IsWrite(p) /\ v = Version(p) /\ IsWrite(q) /\ w = Version(q)
      BY <2>4
    <3>2. p.key = q.key
      BY <1>3, <1>7, <3>1
    <3> QED
      BY <1>3, <1>6, <3>1, <3>2
  <2> QED
    BY <2>1, <2>2, <2>3, <2>4, WrittenVersion DEF after
<1> QED
  BY <1>1, <1>4, <1>7 DEF TableUpTo, after

(* A revert takes the table back.                                          *)
THEOREM RevertKeepsTable ==
  ASSUME NEW table, NEW at, NEW b \in Nat, TableUpTo(table, at), b <= at
  PROVE  TableUpTo(RevertBlock(table, b + 1), b)
<1> DEFINE after == RevertBlock(table, b + 1)
<1> HIDE DEF after
<1>1. /\ table \subseteq Versions /\ at \in Nat /\ at < BlockNumberMax
      /\ BlockNumberMax \in Nat /\ b \in Blocks
  BY BlockNumberMaxAssumption DEF TableUpTo, Blocks
<1>2. ASSUME NEW w \in after
      PROVE  \E v \in table :
               /\ v.lower <= b /\ w.key = v.key /\ w.lower = v.lower
               /\ \/ Contains(v, b) /\ w = [v EXCEPT !.upper = BlockNumberMax]
                  \/ ~Contains(v, b) /\ w = v
  <2>1. \A v \in table :
          /\ v.lower < b + 1 => v.lower <= b
          /\ [v EXCEPT !.upper = BlockNumberMax].key = v.key
          /\ [v EXCEPT !.upper = BlockNumberMax].lower = v.lower
    BY <1>1, VersionFields
  <2>2. b + 1 - 1 = b
    OBVIOUS
  <2>3. PICK v \in {v \in table : v.lower < b + 1} :
          w = IF Contains(v, b + 1 - 1)
              THEN [v EXCEPT !.upper = BlockNumberMax] ELSE v
    BY <1>2 DEF after, RevertBlock
  <2> QED
    BY <2>1, <2>2, <2>3
<1>3. ASSUME NEW w \in after
      PROVE  /\ w \in Versions /\ w.val \in Vals
             /\ 0 < w.lower /\ w.lower < w.upper /\ w.lower <= b
             /\ Open(w) \/ w.upper <= b
  <2>1. PICK v \in table :
          /\ v.lower <= b
          /\ \/ Contains(v, b) /\ w = [v EXCEPT !.upper = BlockNumberMax]
             \/ ~Contains(v, b) /\ w = v
    BY <1>2, <1>3
  <2>2. /\ v \in Versions /\ v.lower \in Nat /\ v.upper \in Nat /\ v.val \in Vals
        /\ 0 < v.lower /\ v.lower < v.upper /\ v.lower < BlockNumberMax
    BY <1>1, VersionFields DEF TableUpTo
  <2>3. CASE Contains(v, b) /\ w = [v EXCEPT !.upper = BlockNumberMax]
    <3>1. /\ w \in Versions /\ w.val = v.val /\ w.lower = v.lower
          /\ w.upper = BlockNumberMax
      BY <1>1, <2>2, <2>3, VersionFields
    <3> QED
      BY <2>1, <2>2, <3>1 DEF Open
  <2>4. CASE ~Contains(v, b) /\ w = v
    BY <2>1, <2>2, <2>4 DEF Contains
  <2> QED
    BY <2>1, <2>3, <2>4
<1>4. ASSUME NEW x \in after, NEW y \in after, x.key = y.key
      PROVE  x = y \/ x.upper <= y.lower \/ y.upper <= x.lower
  <2>1. PICK v \in table :
          /\ v.lower <= b /\ x.key = v.key /\ x.lower = v.lower
          /\ \/ Contains(v, b) /\ x = [v EXCEPT !.upper = BlockNumberMax]
             \/ ~Contains(v, b) /\ x = v
    BY <1>2, <1>4
  <2>2. PICK w \in table :
          /\ w.lower <= b /\ y.key = w.key /\ y.lower = w.lower
          /\ \/ Contains(w, b) /\ y = [w EXCEPT !.upper = BlockNumberMax]
             \/ ~Contains(w, b) /\ y = w
    BY <1>2, <1>4
  <2>3. /\ v.lower \in Nat /\ v.upper \in Nat /\ w.lower \in Nat /\ w.upper \in Nat
        /\ x.key = v.key /\ x.lower = v.lower /\ y.key = w.key /\ y.lower = w.lower
    BY <1>1, <2>1, <2>2, VersionFields
  <2>4. v = w \/ v.upper <= w.lower \/ w.upper <= v.lower
    BY <1>4, <2>3 DEF TableUpTo
  <2>5. CASE v = w
    BY <2>1, <2>2, <2>5
  <2>6. CASE v.upper <= w.lower
    <3>1. ~Contains(v, b)
      BY <1>1, <2>2, <2>3, <2>6 DEF Contains, Open, Blocks
    <3> QED
      BY <2>1, <2>3, <2>6, <3>1
  <2>7. CASE w.upper <= v.lower
    <3>1. ~Contains(w, b)
      BY <1>1, <2>1, <2>3, <2>7 DEF Contains, Open, Blocks
    <3> QED
      BY <2>2, <2>3, <2>7, <3>1
  <2> QED
    BY <2>4, <2>5, <2>6, <2>7
<1> QED
  BY <1>1, <1>3, <1>4 DEF TableUpTo, after
-----------------------------------------------------------------------------
(* The changes that as_modifications returns are those of one block, and   *)
(* make a batch.                                                           *)
LEMMA ModificationsAreOfABlock ==
  ASSUME NEW table, NEW n \in Blocks,
         NEW saw \in [Keys -> Vals \cup {Absent}],
         NEW wants \in [Keys -> Vals \cup {Absent}],
         \A k \in Keys : saw[k] # Absent <=> HasCurrent(table, k)
  PROVE  ChangesAt(table, Modifications(saw, wants, n), n)
<1>1. ChangesOf(table, Modifications(saw, wants, n))
  BY ModificationsAreChanges
<1>2. ASSUME NEW k \in Keys, NEW r \in Modification(k, saw[k], wants[k], n)
      PROVE  r.block = n /\ (IsWrite(r) => r.val \in Vals)
  BY DEF Modification, Row, IsWrite
<1>3. \A r \in Modifications(saw, wants, n) :
        \E k \in Keys : r \in Modification(k, saw[k], wants[k], n)
  BY DEF Modifications
<1> QED
  BY <1>1, <1>2, <1>3 DEF ChangesAt

LEMMA ChangesMakeABatchUpTo ==
  ASSUME NEW table, NEW at \in Nat, NEW n \in Blocks, at < n,
         NEW new, ChangesAt(table, new, n)
  PROVE  BatchUpTo(table, at, new, n)
<1>1. BatchFor(table, new) /\ n \in Nat
  BY ChangesMakeABatch DEF ChangesAt, Blocks
<1>2. ASSUME NEW p \in new
      PROVE  /\ at < p.block /\ p.block <= n /\ ~Ended(p)
             /\ IsWrite(p) => p.val \in Vals
  BY <1>1 DEF ChangesAt, ChangesOf
<1>3. ASSUME NEW p \in new, NEW q \in new, p.key = q.key
      PROVE  p = q /\ p.block = n
  BY <1>3 DEF ChangesAt, ChangesOf
<1> QED
  BY <1>1, <1>2, <1>3 DEF BatchUpTo

(* A batch that another block's changes are appended to.                   *)
THEOREM AppendKeepsBatch ==
  ASSUME NEW table, NEW at, TableUpTo(table, at),
         NEW rows, NEW until, BatchUpTo(table, at, rows, until),
         NEW n \in Blocks, until < n,
         NEW new, ChangesAt(ApplyModifications(table, rows), new, n)
  PROVE  BatchUpTo(table, at, AppendRows(rows, new), n)
<1> DEFINE appended == AppendRows(rows, new)
<1> HIDE DEF appended
<1>1. /\ table \subseteq Versions /\ BatchFor(table, rows) /\ rows \subseteq Rows
      /\ ChangesOf(ApplyModifications(table, rows), new) /\ new \subseteq Rows
      /\ at \in Nat /\ until \in Nat /\ n \in Nat /\ at < until
  BY DEF TableUpTo, BatchUpTo, BatchFor, ChangesAt, ChangesOf, Blocks
<1>2. BatchFor(table, appended)
  <2>1. \A p \in rows, r \in new : p.block < r.block
    BY <1>1, RowFields DEF BatchUpTo, ChangesAt
  <2> QED
    BY <1>1, <2>1, AppendMakesABatch DEF Later, appended
<1>3. ASSUME NEW x \in appended
      PROVE  \/ \E p \in rows : x = Kept(rows, new, p)
             \/ \E r \in new : x \in Pushed(rows, r)
  BY <1>3 DEF appended, AppendRows
<1>4. ASSUME NEW p \in rows
      PROVE  /\ at < p.block /\ p.block <= until /\ p.block \in Nat
             /\ IsWrite(p) => p.val \in Vals
             /\ Ended(p) => p.block < p.end /\ p.end <= until
             /\ p.end \in Nat
  BY <1>1, RowFields DEF BatchUpTo
<1>5. ASSUME NEW r \in new
      PROVE  /\ r.block = n /\ (IsWrite(r) => r.val \in Vals)
             /\ r \in Rows /\ ~Ended(r)
  BY <1>1 DEF ChangesAt, ChangesOf
(* A row of the batch stays as it was, or ends with a new one.             *)
<1>6. ASSUME NEW p \in rows
      PROVE  LET x == Kept(rows, new, p)
             IN  /\ x.key = p.key /\ x.block = p.block /\ x.val = p.val
                 /\ IsWrite(x) <=> IsWrite(p)
                 /\ IsClamp(x) <=> IsClamp(p)
                 /\ x = p \/ (IsWrite(p) /\ ~Ended(p) /\ x.end = n /\ Ended(x))
  <2>1. /\ Kept(rows, new, p).key = p.key
        /\ Kept(rows, new, p).op = p.op
        /\ Kept(rows, new, p).val = p.val
        /\ Kept(rows, new, p).block = p.block
        /\ \/ Kept(rows, new, p) = p
           \/ \E r \in new : /\ r.key = p.key /\ Closes(r, p)
                              /\ Kept(rows, new, p) = [p EXCEPT !.end = r.block]
    BY <1>1, KeptRow
  <2>2. ASSUME NEW r \in new, Closes(r, p),
               Kept(rows, new, p) = [p EXCEPT !.end = r.block]
        PROVE  /\ IsWrite(p) /\ ~Ended(p) /\ Kept(rows, new, p).end = n
               /\ Ended(Kept(rows, new, p))
    <3>1. Kept(rows, new, p).end = n
      BY <1>1, <1>5, <2>2 DEF Rows
    <3>2. n # BlockNumberMax
      BY BlockNumberMaxAssumption DEF Blocks
    <3> QED
      BY <2>2, <3>1, <3>2 DEF Closes, Ended
  <2> QED
    BY <2>1, <2>2 DEF IsWrite, IsClamp
<1>7. ASSUME NEW r \in new, NEW x \in Pushed(rows, r)
      PROVE  /\ x.key = r.key /\ x.block = n /\ ~Ended(x)
             /\ IsWrite(x) => x.val \in Vals
             /\ IsClamp(x) => ~HasRow(rows, x.key)
  BY <1>5, PushedRow DEF Ended
(* The last write of a key ends with a new change of the key.              *)
<1>8. ASSUME NEW p \in rows, NEW r \in new, p.key = r.key, IsWrite(p), ~Ended(p)
      PROVE  Ended(Kept(rows, new, p)) /\ Kept(rows, new, p).end = n
  <2>1. Previous(rows, r, p)
    BY <1>1, <1>8 DEF BatchFor, Previous
  <2>2. HasCurrent(ApplyModifications(table, rows), p.key)
    BY <1>1, <1>8, CurrentAfter
  <2>3. IsClamp(r)
    BY <1>1, <1>8, <2>2 DEF ChangesOf
  <2>4. Closes(r, p)
    <3>1. r.op \in {"overwrite", "remove"}
      BY <1>5, <2>3 DEF IsClamp, Rows, Ops
    <3> QED
      BY <1>8, <3>1 DEF Closes
  <2>5. (CHOOSE s \in new : s.key = p.key) = r
    BY <1>1, <1>8 DEF ChangesOf
  <2>6. Kept(rows, new, p) = [p EXCEPT !.end = n]
    BY <1>5, <2>1, <2>4, <2>5 DEF Kept
  <2>7. Kept(rows, new, p).end = n
    BY <1>1, <2>6 DEF Rows
  <2>8. n # BlockNumberMax
    BY BlockNumberMaxAssumption DEF Blocks
  <2> QED
    BY <2>7, <2>8 DEF Ended
<1>9. ASSUME NEW x \in appended
      PROVE  /\ at < x.block /\ x.block <= n
             /\ IsWrite(x) => x.val \in Vals
             /\ Ended(x) => x.block < x.end /\ x.end <= n
  <2>1. CASE \E p \in rows : x = Kept(rows, new, p)
    BY <1>1, <1>4, <1>6, <2>1
  <2>2. CASE \E r \in new : x \in Pushed(rows, r)
    BY <1>1, <1>7, <2>2
  <2> QED
    BY <1>3, <2>1, <2>2
<1>10. ASSUME NEW x \in appended, NEW y \in appended, x.key = y.key
       PROVE  /\ IsClamp(x) => x.block <= y.block
              /\ IsWrite(x) /\ x.block < y.block => Ended(x) /\ x.end <= y.block
  <2>1. ASSUME NEW p \in rows, x = Kept(rows, new, p)
        PROVE  /\ IsClamp(x) => x.block <= y.block
               /\ IsWrite(x) /\ x.block < y.block => Ended(x) /\ x.end <= y.block
    <3>1. CASE \E q \in rows : y = Kept(rows, new, q)
      <4>1. PICK q \in rows : y = Kept(rows, new, q)
        BY <3>1
      <4>2. /\ IsClamp(p) => p.block <= q.block
            /\ IsWrite(p) /\ p.block < q.block => Ended(p) /\ p.end <= q.block
        BY <1>6, <1>10, <2>1, <4>1 DEF BatchUpTo
      <4> QED
        BY <1>6, <2>1, <4>1, <4>2
    <3>2. CASE \E r \in new : y \in Pushed(rows, r)
      <4>1. PICK r \in new : y \in Pushed(rows, r)
        BY <3>2
      <4>2. p.key = r.key /\ y.block = n
        BY <1>6, <1>7, <1>10, <2>1, <4>1
      <4>3. x.block = p.block /\ (IsWrite(x) <=> IsWrite(p))
        BY <1>6, <2>1
      <4>4. p.block <= n
        BY <1>1, <1>4
      <4>5. CASE IsWrite(p) /\ ~Ended(p)
        BY <1>1, <1>8, <2>1, <4>2, <4>3, <4>4, <4>5
      <4>6. CASE ~IsWrite(p) \/ Ended(p)
        BY <1>1, <1>4, <1>6, <2>1, <4>2, <4>3, <4>4, <4>6
      <4> QED
        BY <4>5, <4>6
    <3> QED
      BY <1>3, <3>1, <3>2
  <2>2. ASSUME NEW r \in new, x \in Pushed(rows, r)
        PROVE  /\ IsClamp(x) => x.block <= y.block
               /\ IsWrite(x) /\ x.block < y.block => Ended(x) /\ x.end <= y.block
    <3>1. x.block = n /\ y.block <= n /\ y.block \in Nat
      BY <1>2, <1>7, <1>9, <2>2, RowFields DEF BatchFor
    <3>2. CASE \E q \in rows : y = Kept(rows, new, q)
      <4>1. HasRow(rows, x.key)
        BY <1>6, <1>10, <3>2 DEF HasRow
      <4> QED
        BY <1>1, <1>7, <2>2, <3>1, <4>1
    <3>3. CASE \E s \in new : y \in Pushed(rows, s)
      <4>1. y.block = n
        BY <1>7, <3>3
      <4> QED
        BY <1>1, <3>1, <4>1
    <3> QED
      BY <1>3, <3>2, <3>3
  <2> QED
    BY <1>3, <2>1, <2>2
<1> QED
  BY <1>1, <1>2, <1>9, <1>10 DEF BatchUpTo, appended
-----------------------------------------------------------------------------
(* What a query of a table finds.                                          *)
LEMMA OneFound ==
  ASSUME NEW table, NEW at, TableUpTo(table, at), NEW n \in 0 .. BlockNumberMax,
         NEW v \in table, NEW w \in table, v.key = w.key,
         Contains(v, n), Contains(w, n)
  PROVE  v = w
<1>1. /\ v.lower \in Nat /\ v.upper \in Nat /\ w.lower \in Nat /\ w.upper \in Nat
      /\ v.lower < BlockNumberMax /\ w.lower < BlockNumberMax
      /\ BlockNumberMax \in Nat
  BY VersionFields DEF TableUpTo
<1>2. v = w \/ v.upper <= w.lower \/ w.upper <= v.lower
  BY DEF TableUpTo
<1>3. /\ v.lower <= n /\ (n < v.upper \/ v.upper = BlockNumberMax)
      /\ w.lower <= n /\ (n < w.upper \/ w.upper = BlockNumberMax)
  BY DEF Contains, Open
<1> QED
  BY <1>1, <1>2, <1>3

LEMMA ValueFound ==
  ASSUME NEW table, NEW at, TableUpTo(table, at), NEW n \in 0 .. BlockNumberMax,
         NEW v \in table, Contains(v, n)
  PROVE  ValueAt(table, v.key, n) = v.val
<1>1. \A w \in table : w.key = v.key /\ Contains(w, n) => w = v
  BY OneFound
<1>2. (CHOOSE w \in table : w.key = v.key /\ Contains(w, n)) = v
  BY <1>1
<1> QED
  BY <1>2 DEF ValueAt

LEMMA ValueNotFound ==
  ASSUME NEW table, NEW k, NEW n,
         \A v \in table : v.key = k => ~Contains(v, n)
  PROVE  ValueAt(table, k, n) = Absent
BY DEF ValueAt

(* Two queries that find the same value.                                   *)
LEMMA SameFound ==
  ASSUME NEW table, NEW at, TableUpTo(table, at), NEW n \in 0 .. BlockNumberMax,
         NEW other, NEW then, TableUpTo(other, then), NEW m \in 0 .. BlockNumberMax,
         NEW k,
         \A v \in table : v.key = k /\ Contains(v, n) =>
           \E w \in other : w.key = k /\ Contains(w, m) /\ w.val = v.val,
         \A w \in other : w.key = k /\ Contains(w, m) =>
           \E v \in table : v.key = k /\ Contains(v, n)
  PROVE  ValueAt(table, k, n) = ValueAt(other, k, m)
<1>1. CASE \E v \in table : v.key = k /\ Contains(v, n)
  <2>1. PICK v \in table : v.key = k /\ Contains(v, n)
    BY <1>1
  <2>2. PICK w \in other : w.key = k /\ Contains(w, m) /\ w.val = v.val
    BY <2>1
  <2>3. ValueAt(table, k, n) = v.val
    BY <2>1, ValueFound
  <2>4. ValueAt(other, k, m) = w.val
    BY <2>2, ValueFound
  <2> QED
    BY <2>2, <2>3, <2>4
<1>2. CASE ~\E v \in table : v.key = k /\ Contains(v, n)
  <2>1. ValueAt(table, k, n) = Absent
    BY <1>2, ValueNotFound
  <2>2. ValueAt(other, k, m) = Absent
    BY <1>2, ValueNotFound
  <2> QED
    BY <2>1, <2>2
<1> QED
  BY <1>1, <1>2

LEMMA ValueType ==
  ASSUME NEW table, NEW at, TableUpTo(table, at), NEW k, NEW n
  PROVE  ValueAt(table, k, n) \in Vals \cup {Absent}
<1>1. CASE \E v \in table : v.key = k /\ Contains(v, n)
  BY <1>1 DEF ValueAt, TableUpTo
<1>2. CASE ~\E v \in table : v.key = k /\ Contains(v, n)
  BY <1>2 DEF ValueAt
<1> QED
  BY <1>1, <1>2

(* From the table's block on, nothing but current versions is found.       *)
LEMMA FoundLater ==
  ASSUME NEW table, NEW at, TableUpTo(table, at),
         NEW n \in 0 .. BlockNumberMax, at <= n, NEW v \in table
  PROVE  Contains(v, n) <=> Open(v)
<1>1. /\ v.lower \in Nat /\ v.upper \in Nat /\ at \in Nat /\ n \in Nat
      /\ v.lower <= at /\ (Open(v) \/ v.upper <= at)
  BY VersionFields DEF TableUpTo, Blocks
<1> QED
  BY <1>1 DEF Contains

LEMMA ValueLater ==
  ASSUME NEW table, NEW at, TableUpTo(table, at), NEW k,
         NEW n \in 0 .. BlockNumberMax, at <= n,
         NEW m \in 0 .. BlockNumberMax, at <= m
  PROVE  ValueAt(table, k, n) = ValueAt(table, k, m)
<1>1. \A v \in table : Contains(v, n) <=> Contains(v, m)
  BY FoundLater
<1> QED
  BY <1>1, SameFound

LEMMA CurrentIsFound ==
  ASSUME NEW table, NEW at, TableUpTo(table, at), NEW k
  PROVE  ValueAt(table, k, BlockNumberMax) # Absent <=> HasCurrent(table, k)
<1>1. BlockNumberMax \in 0 .. BlockNumberMax /\ at <= BlockNumberMax
  BY BlockNumberMaxAssumption DEF TableUpTo, Blocks
<1>2. \A v \in table : Contains(v, BlockNumberMax) <=> Open(v)
  BY <1>1, FoundLater
<1>3. CASE HasCurrent(table, k)
  <2>1. PICK v \in table : v.key = k /\ Open(v)
    BY <1>3 DEF HasCurrent
  <2>2. ValueAt(table, k, BlockNumberMax) = v.val
    BY <1>1, <1>2, <2>1, ValueFound
  <2>3. v.val # Absent
    BY AbsentAssumption DEF TableUpTo
  <2> QED
    BY <1>3, <2>2, <2>3
<1>4. CASE ~HasCurrent(table, k)
  BY <1>2, <1>4, ValueNotFound DEF HasCurrent
<1> QED
  BY <1>3, <1>4

(* A revert to a block leaves what was there at the block, and before it.  *)
THEOREM RevertGoesBack ==
  ASSUME NEW table, NEW at, TableUpTo(table, at), NEW b \in Nat, b <= at,
         NEW k, NEW n \in 0 .. BlockNumberMax
  PROVE  ValueAt(RevertBlock(table, b + 1), k, n)
           = ValueAt(table, k, IF n <= b THEN n ELSE b)
<1> DEFINE after == RevertBlock(table, b + 1)
           m == IF n <= b THEN n ELSE b
           Undo(v) == IF Contains(v, b)
                      THEN [v EXCEPT !.upper = BlockNumberMax] ELSE v
<1>1. /\ at \in Nat /\ at < BlockNumberMax /\ BlockNumberMax \in Nat /\ n \in Nat
      /\ m \in 0 .. BlockNumberMax /\ m <= b /\ m <= n
  BY BlockNumberMaxAssumption DEF TableUpTo, Blocks
<1>2. TableUpTo(after, b)
  BY RevertKeepsTable
<1>3. ASSUME NEW v \in table
      PROVE  /\ v.lower \in Nat /\ v.upper \in Nat
             /\ Undo(v).key = v.key /\ Undo(v).val = v.val
             /\ Undo(v).lower = v.lower
             /\ Undo(v).upper = IF Contains(v, b) THEN BlockNumberMax ELSE v.upper
             /\ v.lower < b + 1 <=> v.lower <= b
  <2>1. v \in Versions
    BY DEF TableUpTo
  <2> QED
    BY <1>1, <2>1, VersionFields
<1>4. b + 1 - 1 = b
  OBVIOUS
<1>5. after = {Undo(v) : v \in {w \in table : w.lower < b + 1}}
  BY <1>4 DEF RevertBlock
<1>6. ASSUME NEW v \in table
      PROVE  v.lower <= b /\ Contains(Undo(v), n) <=> Contains(v, m)
  <2>1. v.lower <= b /\ Contains(v, b) => Contains(Undo(v), n) <=> Contains(v, m)
    BY <1>1, <1>3 DEF Contains, Open
  <2>2. v.lower <= b /\ ~Contains(v, b) =>
          v.upper <= b /\ (Contains(Undo(v), n) <=> Contains(v, m))
    BY <1>1, <1>3 DEF Contains, Open
  <2>3. Contains(v, m) => v.lower <= b
    BY <1>1, <1>3 DEF Contains
  <2> QED
    BY <2>1, <2>2, <2>3
<1> HIDE DEF Undo, m, after
<1>7. \A w \in after : w.key = k /\ Contains(w, n) =>
        \E v \in table : v.key = k /\ Contains(v, m) /\ v.val = w.val
  BY <1>3, <1>5, <1>6
<1>8. \A v \in table : v.key = k /\ Contains(v, m) =>
        \E w \in after : w.key = k /\ Contains(w, n)
  BY <1>3, <1>5, <1>6
<1>9. ValueAt(after, k, n) = ValueAt(table, k, m)
  BY <1>1, <1>2, <1>7, <1>8, SameFound
<1> QED
  BY <1>9 DEF after, m

(* A batch changes nothing before the first of its blocks that changes an  *)
(* entity.                                                                 *)
THEOREM BatchLeavesThePast ==
  ASSUME NEW table, NEW at, NEW rows, NEW until,
         TableUpTo(table, at), BatchUpTo(table, at, rows, until),
         NEW k, NEW n \in 0 .. BlockNumberMax,
         \A p \in rows : p.key = k => n < p.block
  PROVE  ValueAt(ApplyModifications(table, rows), k, n) = ValueAt(table, k, n)
<1> DEFINE after == ApplyModifications(table, rows)
<1>1. TableUpTo(after, until)
  BY BatchKeepsTable
<1>2. /\ table \subseteq Versions /\ rows \subseteq Rows
      /\ BlockNumberMax \in Nat /\ n \in Nat
  BY BlockNumberMaxAssumption DEF TableUpTo, BatchUpTo, BatchFor
<1>3. ASSUME NEW v \in table, v.key = k
      PROVE  /\ Clamped(rows, v) \in after
             /\ Clamped(rows, v).key = k /\ Clamped(rows, v).val = v.val
             /\ Contains(Clamped(rows, v), n) <=> Contains(v, n)
  <2>1. Clamped(rows, v) \in after
    BY DEF ApplyModifications
  <2>2. CASE Clamped(rows, v) = v
    BY <1>3, <2>1, <2>2
  <2>3. CASE \E p \in rows : /\ p.key = v.key /\ IsClamp(p) /\ Open(v)
                             /\ Clamped(rows, v) = [v EXCEPT !.upper = p.block]
    <3>1. PICK p \in rows : /\ p.key = v.key /\ IsClamp(p) /\ Open(v)
                            /\ Clamped(rows, v) = [v EXCEPT !.upper = p.block]
      BY <2>3
    <3>2. p.block \in Nat /\ n < p.block
      BY <1>2, <1>3, <3>1, RowFields
    <3>3. /\ Clamped(rows, v).key = v.key /\ Clamped(rows, v).val = v.val
          /\ Clamped(rows, v).lower = v.lower /\ Clamped(rows, v).upper = p.block
          /\ v.lower \in Nat
      BY <1>2, <3>1, <3>2, VersionFields
    <3>4. Contains(Clamped(rows, v), n) <=> v.lower <= n
      BY <1>2, <3>2, <3>3 DEF Contains
    <3>5. Contains(v, n) <=> v.lower <= n
      BY <3>1 DEF Contains
    <3> QED
      BY <1>3, <2>1, <3>3, <3>4, <3>5
  <2> QED
    BY <2>2, <2>3, ClampedVersion
<1>4. ASSUME NEW p \in rows, p.key = k
      PROVE  ~Contains(Version(p), n)
  BY <1>2, <1>4, RowFields, RowVersion DEF Contains
<1>5. ASSUME NEW w \in after, w.key = k, Contains(w, n)
      PROVE  \E v \in table : v.key = k /\ Contains(v, n) /\ v.val = w.val
  <2>1. CASE \E v \in table : w = Clamped(rows, v)
    <3>1. PICK v \in table : w = Clamped(rows, v)
      BY <2>1
    <3>2. v.key = k
      <4>1. v \in Versions
        BY <1>2
      <4>2. Clamped(rows, v).key = v.key
        BY <4>1 DEF Clamped, Versions
      <4> QED
        BY <1>5, <3>1, <4>2
    <3> QED
      BY <1>3, <1>5, <3>1, <3>2
  <2>2. CASE \E p \in rows : IsWrite(p) /\ w = Version(p)
    BY <1>2, <1>4, <1>5, <2>2, RowVersion
  <2> QED
    BY <2>1, <2>2, WrittenVersion
<1> HIDE DEF after
<1>6. \A v \in table : v.key = k /\ Contains(v, n) =>
        \E w \in after : w.key = k /\ Contains(w, n)
  BY <1>3
<1>7. ValueAt(after, k, n) = ValueAt(table, k, n)
  BY <1>1, <1>5, <1>6, SameFound
<1> QED
  BY <1>7 DEF after

(* From there on the batch itself says what the table has: what last_op    *)
(* finds is what a query finds once the batch is written.                  *)
THEOREM BatchIsLookedThrough ==
  ASSUME NEW table, NEW at, NEW rows, NEW until,
         TableUpTo(table, at), BatchUpTo(table, at, rows, until),
         NEW k, NEW n \in 0 .. BlockNumberMax, HasOp(rows, k, n)
  PROVE  ValueAt(ApplyModifications(table, rows), k, n) = LastOp(rows, k, n)
<1> DEFINE after == ApplyModifications(table, rows)
           blocks == {r.block : r \in {s \in rows : s.key = k /\ s.block <= n}}
<1>1. TableUpTo(after, until)
  BY BatchKeepsTable
<1>2. /\ table \subseteq Versions /\ rows \subseteq Rows
      /\ BlockNumberMax \in Nat /\ n \in Nat /\ at \in Nat
  BY BlockNumberMaxAssumption DEF TableUpTo, BatchUpTo, BatchFor, Blocks
<1>3. \E r \in rows : LastRow(rows, k, n, r)
  <2>1. blocks \in SUBSET Nat /\ blocks # {} /\ \A b \in blocks : b <= n
    BY <1>2, RowFields DEF HasOp
  <2>2. PICK b \in blocks : \A c \in blocks : c <= b
    BY <1>2, <2>1, GreatestExists
  <2> QED
    BY <2>2 DEF LastRow
<1>4. PICK r \in rows :
        LastRow(rows, k, n, r) /\ LastOp(rows, k, n) = AfterOp(r, n)
  BY <1>3 DEF LastOp
<1>5. /\ r.key = k /\ r.block <= n /\ r.block \in Nat /\ at < r.block
      /\ r.end \in Nat /\ r.block < BlockNumberMax
      /\ \A s \in rows : s.key = k /\ s.block <= n => s.block <= r.block
  BY <1>2, <1>4, RowFields DEF LastRow, BatchUpTo
<1>6. CASE IsWrite(r) /\ (~Ended(r) \/ n < r.end)
  <2>1. Version(r) \in after
    BY <1>6 DEF ApplyModifications, Written
  <2>2. /\ Version(r).key = k /\ Version(r).val = r.val
        /\ Contains(Version(r), n)
    BY <1>2, <1>5, <1>6, RowVersion DEF Contains
  <2>3. ValueAt(after, k, n) = r.val
    BY <1>1, <2>1, <2>2, ValueFound
  <2> QED
    BY <1>4, <1>6, <2>3 DEF AfterOp
<1>7. CASE ~(IsWrite(r) /\ (~Ended(r) \/ n < r.end))
  <2>1. ASSUME NEW v \in table, v.key = k
        PROVE  ~Contains(Clamped(rows, v), n)
    <3>1. v \in Versions /\ v.lower \in Nat /\ v.upper \in Nat
      BY <1>2, VersionFields
    <3>2. CASE /\ Clamped(rows, v) = v
               /\ \/ ~Open(v) /\ v.upper <= at
                  \/ \A p \in rows : p.key # v.key
      BY <1>2, <1>5, <2>1, <3>1, <3>2 DEF Contains
    <3>3. CASE \E p \in rows : /\ p.key = v.key /\ IsClamp(p) /\ Open(v)
                               /\ Clamped(rows, v) = [v EXCEPT !.upper = p.block]
      <4>1. PICK p \in rows : /\ p.key = v.key /\ IsClamp(p) /\ Open(v)
                              /\ Clamped(rows, v) = [v EXCEPT !.upper = p.block]
        BY <3>3
      <4>2. /\ p.block \in Nat /\ p.block < BlockNumberMax /\ p.block <= r.block
        BY <1>2, <1>5, <2>1, <4>1, RowFields DEF BatchUpTo
      <4>3. Clamped(rows, v).upper = p.block
        BY <3>1, <4>1, <4>2, VersionFields
      <4> QED
        BY <1>2, <1>5, <4>2, <4>3 DEF Contains, Open
    <3> QED
      BY <3>2, <3>3, ClampedVersion
  <2>2. ASSUME NEW p \in rows, p.key = k, IsWrite(p)
        PROVE  ~Contains(Version(p), n)
    <3>1. /\ p.block \in Nat /\ p.end \in Nat /\ p \in Rows
          /\ Version(p).lower = p.block /\ Version(p).upper = p.end
          /\ Open(Version(p)) <=> ~Ended(p)
      BY <1>2, RowFields, RowVersion
    <3>2. CASE n < p.block
      BY <1>2, <3>1, <3>2 DEF Contains
    <3>3. CASE p.block <= n /\ p.block = r.block
      <4>1. p = r
        BY <1>5, <2>2, <3>3 DEF BatchUpTo, BatchFor
      <4> QED
        BY <1>7, <2>2, <3>1, <4>1 DEF Contains
    <3>4. CASE p.block <= n /\ p.block # r.block
      <4>1. p.block < r.block
        BY <1>5, <2>2, <3>1, <3>4
      <4>2. Ended(p) /\ p.end <= r.block
        BY <1>5, <2>2, <4>1 DEF BatchUpTo
      <4> QED
        BY <1>2, <1>5, <3>1, <4>2 DEF Contains
    <3> QED
      BY <1>2, <3>1, <3>2, <3>3, <3>4
  <2>3. ASSUME NEW w \in after, w.key = k
        PROVE  ~Contains(w, n)
    <3>1. CASE \E v \in table : w = Clamped(rows, v)
      <4>1. PICK v \in table : w = Clamped(rows, v)
        BY <3>1
      <4>2. v \in Versions
        BY <1>2
      <4>3. Clamped(rows, v).key = v.key
        BY <4>2 DEF Clamped, Versions
      <4> QED
        BY <2>1, <2>3, <4>1, <4>3
    <3>2. CASE \E p \in rows : IsWrite(p) /\ w = Version(p)
      BY <1>2, <2>2, <2>3, <3>2, RowVersion
    <3> QED
      BY <3>1, <3>2, WrittenVersion
  <2>4. ValueAt(after, k, n) = Absent
    BY <2>3, ValueNotFound
  <2> QED
    BY <1>4, <1>7, <2>4 DEF AfterOp
<1> QED
  BY <1>6, <1>7
-----------------------------------------------------------------------------
(* Immutable entities.  Their versions never end and their rows are        *)
(* inserts that nothing closes.                                            *)
Lasting(table) == \A v \in table : v.key \in Immutable => Open(v)
Inserted(rows) == \A r \in rows : r.key \in Immutable => r.op = "insert" /\ ~Ended(r)

LEMMA BatchKeepsLasting ==
  ASSUME NEW table, NEW rows, rows \subseteq Rows, Lasting(table), Inserted(rows)
  PROVE  Lasting(ApplyModifications(table, rows))
<1> SUFFICES ASSUME NEW v \in ApplyModifications(table, rows), v.key \in Immutable
             PROVE  Open(v)
  BY DEF Lasting
<1>1. CASE \E w \in table : v = Clamped(rows, w)
  <2>1. PICK w \in table : v = Clamped(rows, w)
    BY <1>1
  <2>2. CASE \E r \in rows : FirstClamp(rows, w.key, r)
    <3>1. w.key \notin Immutable
      BY <2>2 DEF FirstClamp, IsClamp, Inserted
    <3>2. CASE v = w
      BY <3>1, <3>2
    <3>3. CASE v = [w EXCEPT !.upper =
                      (CHOOSE r \in rows : FirstClamp(rows, w.key, r)).block]
      BY <3>1, <3>3
    <3> QED
      BY <2>1, <3>2, <3>3 DEF Clamped
  <2>3. CASE ~\E r \in rows : FirstClamp(rows, w.key, r)
    BY <2>1, <2>3 DEF Clamped, Lasting
  <2> QED
    BY <2>2, <2>3
<1>2. CASE \E p \in rows : IsWrite(p) /\ v = Version(p)
  <2>1. PICK p \in rows : v = Version(p)
    BY <1>2
  <2> QED
    BY <2>1, RowVersion DEF Inserted
<1> QED
  BY <1>1, <1>2, WrittenVersion

LEMMA RevertKeepsLasting ==
  ASSUME NEW table, table \subseteq Versions, NEW n, Lasting(table)
  PROVE  Lasting(RevertBlock(table, n))
<1> SUFFICES ASSUME NEW v \in table
             PROVE  LET w == IF Contains(v, n - 1)
                             THEN [v EXCEPT !.upper = BlockNumberMax] ELSE v
                    IN  w.key \in Immutable => Open(w)
  BY DEF RevertBlock, Lasting
<1> QED
  BY BlockNumberMaxAssumption, VersionFields DEF Lasting, Open

LEMMA AppendKeepsInserted ==
  ASSUME NEW rows, rows \subseteq Rows, NEW new, new \subseteq Rows,
         Inserted(rows), OnlyInserts(new), \A r \in new : ~Ended(r)
  PROVE  Inserted(AppendRows(rows, new))
<1> SUFFICES ASSUME NEW x \in AppendRows(rows, new), x.key \in Immutable
             PROVE  x.op = "insert" /\ ~Ended(x)
  BY DEF Inserted
<1>1. CASE \E p \in rows : x = Kept(rows, new, p)
  <2>1. PICK p \in rows : x = Kept(rows, new, p)
    BY <1>1
  <2>2. CASE \E r \in new : Previous(rows, r, p) /\ Closes(r, p)
    <3>1. p.key \notin Immutable
      BY <2>2 DEF Previous, LastRow, Closes, OnlyInserts
    <3>2. x.key = p.key
      BY <2>1, <2>2 DEF Kept
    <3> QED
      BY <3>1, <3>2
  <2>3. CASE ~\E r \in new : Previous(rows, r, p) /\ Closes(r, p)
    BY <2>1, <2>3 DEF Kept, Inserted
  <2> QED
    BY <2>2, <2>3
<1>2. CASE \E r \in new : x \in Pushed(rows, r)
  <2>1. PICK r \in new : x \in Pushed(rows, r)
    BY <1>2
  <2>2. x.key = r.key /\ x.end = r.end /\ (x = r \/ x = AsInsert(r))
    BY <2>1, PushedRow DEF Pushed
  <2>3. r.op = "insert" /\ ~Ended(r)
    BY <2>2 DEF OnlyInserts
  <2> QED
    BY <2>2, <2>3 DEF AsInsert, Ended, Rows
<1> QED
  BY <1>1, <1>2 DEF AppendRows

(* A batch for a table does not insert an immutable entity twice.          *)
LEMMA NoDuplicates ==
  ASSUME NEW table, NEW rows, BatchFor(table, rows), Lasting(table), Inserted(rows)
  PROVE  ~Duplicates(table, rows)
<1> SUFFICES ASSUME NEW r \in rows, r.key \in Immutable, IsWrite(r)
             PROVE  /\ \A v \in table : v.key # r.key
                    /\ \A s \in rows : s.key = r.key /\ IsWrite(s) => s.block = r.block
  BY DEF Duplicates
<1>1. ~HasCurrent(table, r.key)
  <2>1. ~HasClamp(rows, r.key)
    BY DEF HasClamp, Inserted, IsClamp
  <2> QED
    BY <2>1 DEF BatchFor
<1>2. \A v \in table : v.key # r.key
  BY <1>1 DEF HasCurrent, Lasting
<1>3. ASSUME NEW s \in rows, s.key = r.key, IsWrite(s)
      PROVE  s.block = r.block
  <2>1. Previous(rows, r, r) /\ Previous(rows, s, s)
    BY <1>3 DEF BatchFor, Inserted
  <2>2. /\ r.block \in Nat /\ s.block \in Nat
        /\ r.block <= BlockNumberMax /\ s.block <= BlockNumberMax
    BY RowFields, BlockNumberMaxAssumption DEF BatchFor
  <2>3. s.block <= r.block /\ r.block <= s.block
    BY <1>3, <2>1, <2>2 DEF Previous, LastRow
  <2> QED
    BY <2>2, <2>3
<1> QED
  BY <1>2, <1>3

(* What is appended to a batch does not mend it.                           *)
LEMMA KeptFields ==
  ASSUME NEW rows, NEW new, NEW p \in Rows
  PROVE  /\ Kept(rows, new, p).key = p.key /\ Kept(rows, new, p).block = p.block
         /\ IsWrite(Kept(rows, new, p)) <=> IsWrite(p)
BY DEF Kept, Rows, IsWrite

LEMMA DuplicatesStay ==
  ASSUME NEW table, NEW rows, rows \subseteq Rows, NEW new, Duplicates(table, rows)
  PROVE  Duplicates(table, AppendRows(rows, new))
<1>1. PICK r \in rows :
        /\ r.key \in Immutable /\ IsWrite(r)
        /\ \/ \E v \in table : v.key = r.key
           \/ \E s \in rows : s.key = r.key /\ IsWrite(s) /\ s.block # r.block
  BY DEF Duplicates
<1>2. ASSUME NEW p \in rows
      PROVE  \E x \in AppendRows(rows, new) :
               x.key = p.key /\ x.block = p.block /\ (IsWrite(x) <=> IsWrite(p))
  BY KeptFields DEF AppendRows
<1>3. PICK x \in AppendRows(rows, new) :
        x.key = r.key /\ x.block = r.block /\ IsWrite(x)
  BY <1>1, <1>2
<1>4. CASE \E v \in table : v.key = r.key
  BY <1>1, <1>3, <1>4 DEF Duplicates
<1>5. CASE \E s \in rows : s.key = r.key /\ IsWrite(s) /\ s.block # r.block
  <2>1. PICK s \in rows : s.key = r.key /\ IsWrite(s) /\ s.block # r.block
    BY <1>5
  <2>2. PICK y \in AppendRows(rows, new) :
          y.key = s.key /\ y.block = s.block /\ IsWrite(y)
    BY <1>2, <2>1
  <2> QED
    BY <1>1, <1>3, <2>1, <2>2 DEF Duplicates
<1> QED
  BY <1>1, <1>4, <1>5

(* An immutable entity inserted once more, with what the batch leaves.     *)
LEMMA SetTwice ==
  ASSUME NEW table, table \subseteq Versions, NEW rows, rows \subseteq Rows,
         NEW new, new \subseteq Rows, Later(rows, new),
         NEW r \in new, r.key \in Immutable, r.op = "insert",
         HasCurrent(ApplyModifications(table, rows), r.key)
  PROVE  Duplicates(table, AppendRows(rows, new))
<1>1. PICK x \in AppendRows(rows, new) :
        x.key = r.key /\ x.block = r.block /\ IsWrite(x)
  <2>1. IsWrite(r) /\ \E x \in Pushed(rows, r) : TRUE
    BY WritesArePushed DEF IsWrite
  <2>2. PICK x \in Pushed(rows, r) : TRUE
    BY <2>1
  <2>3. x \in AppendRows(rows, new)
    BY <2>2 DEF AppendRows
  <2> QED
    BY <2>1, <2>2, <2>3, PushedRow
<1>2. PICK v \in ApplyModifications(table, rows) : v.key = r.key
  BY DEF HasCurrent
<1>3. CASE \E w \in table : v = Clamped(rows, w)
  <2>1. PICK w \in table : v = Clamped(rows, w)
    BY <1>3
  <2>2. v.key = w.key
    BY <2>1 DEF Clamped, Versions
  <2> QED
    BY <1>1, <1>2, <2>2 DEF Duplicates
<1>4. CASE \E p \in rows : IsWrite(p) /\ v = Version(p)
  <2>1. PICK p \in rows : IsWrite(p) /\ v = Version(p)
    BY <1>4
  <2>2. p.key = r.key /\ p.block # r.block
    BY <1>2, <2>1, RowFields DEF Version, Later
  <2>3. Kept(rows, new, p) \in AppendRows(rows, new)
    BY DEF AppendRows
  <2> QED
    BY <1>1, <2>1, <2>2, <2>3, KeptFields DEF Duplicates
<1> QED
  BY <1>2, <1>3, <1>4, WrittenVersion

(* Taking immutable entities as new changes no other's row, and does       *)
(* nothing when they are.                                                  *)
LEMMA OthersAreTheSame ==
  ASSUME NEW saw, NEW wants, NEW n, NEW new \in SUBSET Immutable,
         NEW r \in Modifications(TakenAsNew(saw, new), wants, n), r.key \notin Immutable
  PROVE  r \in Modifications(saw, wants, n)
<1>1. PICK k \in Keys : r \in Modification(k, TakenAsNew(saw, new)[k], wants[k], n)
  BY DEF Modifications
<1>2. r.key = k
  BY <1>1 DEF Modification, Row
<1>3. TakenAsNew(saw, new)[k] = saw[k]
  BY <1>2 DEF TakenAsNew
<1> QED
  BY <1>1, <1>3 DEF Modifications

LEMMA TakenRightly ==
  ASSUME NEW saw, saw = [k \in Keys |-> saw[k]], NEW new,
         \A k \in Keys \cap new : saw[k] = Absent
  PROVE  TakenAsNew(saw, new) = saw
BY DEF TakenAsNew
=============================================================================
