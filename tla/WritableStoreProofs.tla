------------------------ MODULE WritableStoreProofs ------------------------
(***************************************************************************)
(* Proofs about WritableStore, for any entities and values, any capacity   *)
(* of the queue and any number of blocks: types, that writes and reverts   *)
(* reach the database in an order it accepts, that no versions overlap     *)
(* there, and that the store does what EntityStore promises.               *)
(***************************************************************************)
EXTENDS WritableStore, WriteBatchProofs

USE BlockNumberMaxAssumption, AbsentAssumption, StoreAssumption

-----------------------------------------------------------------------------
(* What the operators on rows and tables return.                           *)
LEMMA ModificationsType ==
  ASSUME NEW saw, NEW wants \in [Keys -> Vals \cup {Absent}], NEW n \in Blocks
  PROVE  Modifications(saw, wants, n) \in SUBSET Rows
<1>1. ASSUME NEW k \in Keys
      PROVE  Modification(k, saw[k], wants[k], n) \subseteq Rows
  BY DEF Modification, Row, Rows, Ops
<1> QED
  BY <1>1 DEF Modifications

LEMMA AppendRowsType ==
  ASSUME NEW rows \in SUBSET Rows, NEW new \in SUBSET Rows
  PROVE  AppendRows(rows, new) \in SUBSET Rows
<1>1. ASSUME NEW p \in rows
      PROVE  Kept(rows, new, p) \in Rows
  <2>1. CASE \E r \in new : Previous(rows, r, p) /\ Closes(r, p)
    <3>1. \E r \in new : r.key = p.key
      BY <2>1 DEF Previous, LastRow
    <3>2. (CHOOSE r \in new : r.key = p.key) \in new
      BY <3>1
    <3>3. (CHOOSE r \in new : r.key = p.key).block \in Nat
      BY <3>2 DEF Rows, Blocks
    <3> QED
      BY <2>1, <3>3 DEF Kept, Rows
  <2>2. CASE ~\E r \in new : Previous(rows, r, p) /\ Closes(r, p)
    BY <2>2 DEF Kept
  <2> QED
    BY <2>1, <2>2
<1>2. ASSUME NEW r \in new
      PROVE  Pushed(rows, r) \subseteq Rows
  <2>1. AsInsert(r) \in Rows
    BY DEF AsInsert, Rows, Ops
  <2> QED
    BY <2>1 DEF Pushed
<1> QED
  BY <1>1, <1>2 DEF AppendRows

LEMMA OutcomeType ==
  ASSUME NEW d, d.table \subseteq Versions, NEW req \in Writes \cup Reverts
  PROVE  /\ Outcome(d, req).table \subseteq Versions
         /\ Outcome(d, req).ptr = req.block /\ req.block \in Blocks
<1>1. CASE IsRevert(req)
  <2>1. req.block \in Int
    BY DEF Writes, Reverts, Blocks
  <2>2. RevertBlock(d.table, req.block + 1) \subseteq Versions
    BY DEF RevertBlock, Versions
  <2> QED
    BY <1>1, <2>2 DEF Outcome, Writes, Reverts
<1>2. CASE ~IsRevert(req)
  <2>1. req.rows \subseteq Rows
    BY <1>2 DEF IsRevert, Writes, Reverts
  <2>2. ASSUME NEW v \in d.table
        PROVE  Clamped(req.rows, v) \in Versions
    <3>1. CASE \E r \in req.rows : FirstClamp(req.rows, v.key, r)
      <4>1. (CHOOSE r \in req.rows : FirstClamp(req.rows, v.key, r)) \in req.rows
        BY <3>1
      <4>2. (CHOOSE r \in req.rows : FirstClamp(req.rows, v.key, r)).block \in Nat
        BY <2>1, <4>1 DEF Rows, Blocks
      <4> QED
        BY <4>2 DEF Clamped, Versions
    <3>2. CASE ~\E r \in req.rows : FirstClamp(req.rows, v.key, r)
      BY <3>2 DEF Clamped
    <3> QED
      BY <3>1, <3>2
  <2>3. Written(req.rows) \subseteq Versions
    BY <2>1 DEF Written, Version, Rows, Versions
  <2> QED
    BY <1>2, <2>2, <2>3 DEF Outcome, ApplyModifications, Writes, Reverts
<1> QED
  BY <1>1, <1>2
-----------------------------------------------------------------------------
LEMMA InitType == Init => TypeOK
<1> SUFFICES ASSUME Init PROVE TypeOK
  OBVIOUS
<1>1. db.table \subseteq Versions /\ db.ptr \in Blocks /\ ptr \in Blocks
  BY DEF Init, Blocks
<1>2. /\ queue \in Seq(Writes \cup Reverts) /\ Len(queue) = 0
      /\ writer = "peek" /\ writeErr = FALSE /\ poisoned = FALSE
      /\ call \in Calls
  BY DEF Init, Calls
<1>3. Len(queue) <= Capacity /\ \A i \in 2 .. Len(queue) : ~queue[i].processed
  BY <1>2
<1>4. /\ writer \in {"peek", "execute", "pop", "poison", "clear", "dead"}
      /\ writer \notin {"execute", "pop"}
      /\ writeErr \in BOOLEAN /\ poisoned \in BOOLEAN
  BY <1>2
<1> QED
  BY <1>1, <1>2, <1>3, <1>4 DEF TypeOK

LEMMA FreshType ==
  ASSUME TypeOK, NEW d, d.ptr \in Blocks, Fresh(d)
  PROVE  /\ queue' = <<>> /\ queue' \in Seq(Writes \cup Reverts)
         /\ Len(queue') = 0 /\ writer' = "peek"
         /\ writeErr' = FALSE /\ poisoned' = FALSE /\ ptr' \in Blocks
BY DEF Fresh

(* What a write is submitted with.                                         *)
LEMMA WriteSubmitted ==
  ASSUME TypeOK, SubmitWrite
  PROVE  \E n \in ptr + 1 .. LastBlock, wants \in [Keys -> Vals \cup {Absent}],
            new \in SUBSET Immutable :
           /\ \A k \in new : wants[k] # Absent
           /\ OnlyInserts(WriteCall(n, wants, new).rows)
           /\ Begin(WriteCall(n, wants, new)) /\ ptr' = ptr
           /\ n \in Blocks /\ ptr < n
<1>1. PICK n \in ptr + 1 .. LastBlock : \E wants \in Wanted[n] :
        \E new \in SUBSET {k \in Immutable : wants[k] # Absent} :
          /\ OnlyInserts(WriteCall(n, wants, new).rows)
          /\ Begin(WriteCall(n, wants, new)) /\ ptr' = ptr
  BY DEF SubmitWrite
<1>2. n \in Blocks /\ ptr < n
  BY DEF TypeOK, Blocks
<1>3. Wanted[n] \subseteq [Keys -> Vals \cup {Absent}]
  BY <1>2, WantedAssumption
<1> QED
  BY <1>1, <1>2, <1>3

(* Steps of the runner.                                                    *)
LEMMA RunnerType ==
  ASSUME TypeOK,
         \/ SubmitWrite \/ RejectWrite \/ SubmitRevert \/ SubmitFlush \/ SubmitGet
         \/ Runner
  PROVE  TypeOK'
<1> USE DEF TypeOK
<1>1. CASE SubmitWrite
  <2>1. PICK n \in ptr + 1 .. LastBlock, wants \in [Keys -> Vals \cup {Absent}],
             new \in SUBSET Immutable :
          Begin(WriteCall(n, wants, new)) /\ ptr' = ptr /\ n \in Blocks
    BY <1>1, WriteSubmitted
  <2> DEFINE rows == Modifications(TakenAsNew([k \in Keys |-> Seen(k)], new), wants, n)
  <2>2. rows \in SUBSET Rows
    BY <2>1, ModificationsType
  <2>3. WriteCall(n, wants, new) =
          [kind |-> "write", pc |-> "push", block |-> n, wants |-> wants,
           new |-> new, rows |-> rows]
    BY DEF WriteCall
  <2> HIDE DEF rows
  <2>4. call' \in Calls
    BY <2>1, <2>2, <2>3 DEF Begin, Calls
  <2> QED
    BY <2>1, <2>4 DEF Begin
<1>2. CASE SubmitRevert
  <2>1. PICK n \in BeforePointer :
          Begin([kind |-> "revert", pc |-> "push", block |-> n]) /\ ptr' = n
    BY <1>2 DEF SubmitRevert
  <2>2. n \in Blocks
    BY DEF BeforePointer, Blocks
  <2>3. call' \in Calls
    BY <2>1, <2>2 DEF Begin, Calls
  <2> QED
    BY <2>1, <2>2, <2>3 DEF Begin
<1>3. CASE SubmitFlush
  <2>1. call' \in Calls
    BY <1>3 DEF SubmitFlush, Begin, Calls
  <2> QED
    BY <1>3, <2>1 DEF SubmitFlush, Begin
<1>4. CASE SubmitGet
  BY <1>4 DEF SubmitGet, Calls, queueVars
<1>5. CASE CallRefused
  BY <1>5 DEF CallRefused, Return, Calls, queueVars
<1>6. CASE AppendToNewest
  <2> DEFINE n == Len(queue)
             newest == queue[n]
             fits == call.block > newest.block /\ Fits(newest.rows, call.rows)
             joined == [newest EXCEPT !.block = call.block,
                                      !.rows = AppendRows(newest.rows, call.rows)]
  <2>1. call.block \in Blocks /\ call.rows \in SUBSET Rows
    BY <1>6 DEF AppendToNewest, At, Calls, NoCall
  <2>2. n \in 1 .. Len(queue) /\ newest \in Writes
    BY <1>6 DEF AppendToNewest, MayAppend, NewestIsWrite, IsRevert, Writes, Reverts
  <2>3. joined \in Writes
    BY <2>1, <2>2, AppendRowsType DEF Writes
  <2>4. [newest EXCEPT !.bad = TRUE] \in Writes
    BY <2>2 DEF Writes
  <2>5. joined.processed = newest.processed
        /\ [newest EXCEPT !.bad = TRUE].processed = newest.processed
    BY <2>2 DEF Writes
  <2>6. queue' = [queue EXCEPT ![n] = IF fits THEN joined
                                      ELSE [newest EXCEPT !.bad = TRUE]]
    BY <1>6 DEF AppendToNewest
  <2>7. /\ queue' \in Seq(Writes \cup Reverts) /\ Len(queue') = Len(queue)
        /\ \A i \in 1 .. Len(queue) : queue'[i].processed = queue[i].processed
    BY <2>2, <2>3, <2>4, <2>5, <2>6
  <2>8. ptr' \in Blocks /\ call' \in Calls
    BY <1>6, <2>1 DEF AppendToNewest, Return, Calls
  <2> QED
    BY <1>6, <2>7, <2>8 DEF AppendToNewest
<1>7. CASE Push
  <2>1. call' \in Calls
    BY <1>7, SMTT(30) DEF Push, CheckErr, GoOn, Return, At, Calls, NoCall
  <2> QED
    BY <1>7, <2>1 DEF Push, CheckErr
<1>8. CASE Enqueue
  <2>1. call.block \in Blocks /\ (call.kind = "write" => call.rows \in SUBSET Rows)
    BY <1>8 DEF Enqueue, At, Calls, NoCall
  <2>2. Request \in Writes \cup Reverts /\ ~Request.processed
    BY <2>1 DEF Request, Writes, Reverts
  <2>3. queue' = Append(queue, Request) /\ Len(queue) < Capacity
    BY <1>8 DEF Enqueue, Room
  <2>4. /\ queue' \in Seq(Writes \cup Reverts) /\ Len(queue') = Len(queue) + 1
        /\ queue'[Len(queue) + 1] = Request
        /\ \A i \in 1 .. Len(queue) : queue'[i] = queue[i]
    BY <2>2, <2>3
  <2>5. Len(queue') <= Capacity /\ queue' # <<>>
    BY <2>3, <2>4
  <2>6. \A i \in 2 .. Len(queue') : ~queue'[i].processed
    BY <2>2, <2>4
  <2>7. call' \in Calls /\ ptr' \in Blocks
    BY <1>8, <2>1 DEF Enqueue, Return, Calls
  <2> QED
    BY <1>8, <2>4, <2>5, <2>6, <2>7 DEF Enqueue
<1>9. CASE WaitEmpty
  BY <1>9 DEF WaitEmpty, GoOn, At, Calls, NoCall, queueVars
<1>10. CASE Flushed
  <2>1. call' \in Calls
    BY <1>10 DEF Flushed, CheckErr, Return, Calls
  <2> QED
    BY <1>10, <2>1 DEF Flushed, CheckErr
<1>11. CASE GetFromQueue
  BY <1>11 DEF GetFromQueue, Return, At, Calls, NoCall, queueVars
<1>12. CASE GetFromDatabase
  BY <1>12 DEF GetFromDatabase, Return, Calls, queueVars
<1>13. CASE Restart
  <2>1. CASE poisoned
    <3>1. Fresh(db) /\ UNCHANGED <<db, call>>
      BY <1>13, <2>1 DEF Restart
    <3>2. /\ queue' \in Seq(Writes \cup Reverts) /\ Len(queue') = 0
          /\ writer' = "peek" /\ writeErr' = FALSE /\ poisoned' = FALSE
          /\ ptr' \in Blocks
      BY <3>1, FreshType
    <3>3. /\ Len(queue') <= Capacity
          /\ \A i \in 2 .. Len(queue') : ~queue'[i].processed
      BY <3>2
    <3>4. call' \in Calls \/ (At({"get"}, "db")' /\ call'.key \in Keys)
      BY <3>1 DEF At
    <3> QED
      BY <3>1, <3>2, <3>3, <3>4
  <2>2. CASE ~poisoned
    BY <1>13, <2>2 DEF Restart, queueVars, At
  <2> QED
    BY <2>1, <2>2
<1>14. CASE RejectWrite
  BY <1>14 DEF RejectWrite, queueVars, At
<1> QED
  BY <1>1, <1>2, <1>3, <1>4, <1>5, <1>6, <1>7, <1>8, <1>9, <1>10, <1>11,
     <1>12, <1>13, <1>14 DEF Runner

(* Steps of the background task.                                           *)
LEMMA BackgroundType ==
  ASSUME TypeOK, Background
  PROVE  TypeOK'
<1> USE DEF TypeOK
<1>1. CASE Peek
  <2>1. queue # <<>> /\ 1 \in 1 .. Len(queue)
    BY <1>1 DEF Peek
  <2>2. [queue[1] EXCEPT !.processed = TRUE] \in Writes \cup Reverts
    <3>1. queue[1] \in Writes \cup Reverts
      BY <2>1
    <3>2. CASE queue[1] \in Writes
      BY <3>2 DEF Writes
    <3>3. CASE queue[1] \in Reverts
      BY <3>3 DEF Reverts
    <3> QED
      BY <3>1, <3>2, <3>3
  <2>3. queue' = [queue EXCEPT ![1] = [queue[1] EXCEPT !.processed = TRUE]]
    BY <1>1 DEF Peek
  <2>4. queue' \in Seq(Writes \cup Reverts) /\ Len(queue') = Len(queue)
    BY <2>1, <2>2, <2>3
  <2>5. /\ queue'[1].processed
        /\ \A i \in 2 .. Len(queue') : queue'[i] = queue[i]
    BY <2>1, <2>2, <2>3, <2>4 DEF Writes, Reverts
  <2>6. /\ Len(queue') <= Capacity /\ queue' # <<>>
        /\ \A i \in 2 .. Len(queue') : ~queue'[i].processed
    BY <2>1, <2>4, <2>5
  <2>7. writer' = "execute" /\ UNCHANGED <<db, writeErr, poisoned, ptr, call>>
    BY <1>1 DEF Peek
  <2>8. call' \in Calls \/ (At({"get"}, "db")' /\ call'.key \in Keys)
    BY <2>7 DEF At
  <2> QED
    BY <2>4, <2>5, <2>6, <2>7, <2>8
<1>2. CASE Execute
  <2>1. Oldest \in Writes \cup Reverts
    BY <1>2 DEF Execute, Oldest
  <2>2. db'.table \subseteq Versions /\ db'.ptr \in Blocks
    BY <1>2, <2>1, OutcomeType DEF Execute
  <2> QED
    BY <1>2, <2>2 DEF Execute, At
<1>3. CASE ExecuteFails
  BY <1>3 DEF ExecuteFails, At
<1>4. CASE Pop
  <2>1. queue # <<>> /\ queue' = Tail(queue)
    BY <1>4 DEF Pop
  <2>2. /\ queue' \in Seq(Writes \cup Reverts) /\ Len(queue') = Len(queue) - 1
        /\ \A i \in 1 .. Len(queue') : queue'[i] = queue[i + 1]
    BY <2>1
  <2> QED
    BY <1>4, <2>2 DEF Pop, At
<1>5. CASE Poison
  BY <1>5 DEF Poison, At
<1>6. CASE Clear
  <2>1. CASE queue = <<>>
    BY <1>6, <2>1 DEF Clear, At
  <2>2. CASE queue # <<>>
    <3>1. /\ queue' \in Seq(Writes \cup Reverts) /\ Len(queue') = Len(queue) - 1
          /\ \A i \in 1 .. Len(queue') : queue'[i] = queue[i + 1]
      BY <1>6, <2>2 DEF Clear
    <3> QED
      BY <1>6, <2>2, <3>1 DEF Clear, At
  <2> QED
    BY <2>1, <2>2
<1> QED
  BY <1>1, <1>2, <1>3, <1>4, <1>5, <1>6 DEF Background

(* A restart of the process, and steps that change nothing.                *)
LEMMA CrashType ==
  ASSUME TypeOK, Crash \/ UNCHANGED vars
  PROVE  TypeOK'
<1>1. CASE Crash
  <2>1. /\ queue' \in Seq(Writes \cup Reverts) /\ Len(queue') = 0
        /\ writer' = "peek" /\ writeErr' = FALSE /\ poisoned' = FALSE
        /\ ptr' \in Blocks
    BY <1>1, FreshType DEF Crash, TypeOK
  <2>2. call' \in Calls
    BY <1>1 DEF Crash, Calls
  <2>3. /\ Len(queue') <= Capacity
        /\ \A i \in 2 .. Len(queue') : ~queue'[i].processed
    BY <2>1
  <2>4. db'.table \subseteq Versions /\ db'.ptr \in Blocks
    BY <1>1 DEF Crash, TypeOK
  <2> QED
    BY <2>1, <2>2, <2>3, <2>4 DEF TypeOK
<1>2. CASE UNCHANGED vars
  BY <1>2 DEF vars, TypeOK, At
<1> QED
  BY <1>1, <1>2

(* The types of the variables; in particular the queue never outgrows its  *)
(* capacity, however many blocks are processed, and only its oldest        *)
(* request is ever marked as being processed, so that no batch grows while *)
(* it is written (push_write, Queue::push).                                *)
THEOREM TypeCorrect == Spec => []TypeOK
<1>1. Init => TypeOK
  BY InitType
<1>2. TypeOK /\ [Next]_vars => TypeOK'
  BY RunnerType, BackgroundType, CrashType DEF Next
<1> QED
  BY <1>1, <1>2, PTL DEF Spec
-----------------------------------------------------------------------------
(* The order of the requests.  A request goes the right way from a block   *)
(* if the database, being at that block, accepts it; requests are in order *)
(* if each goes the right way from where the one before it leads.          *)
RightWay(req, at) ==
  IF IsRevert(req) THEN req.block < at ELSE at < req.first /\ req.first <= req.block
InOrder(reqs, at) ==
  \A i \in 1 .. Len(reqs) :
    RightWay(reqs[i], IF i = 1 THEN at ELSE reqs[i - 1].block)
LastBlockOf(reqs, at) == IF reqs = <<>> THEN at ELSE reqs[Len(reqs)].block

Requests == Writes \cup Reverts

LEMMA AppendInOrder ==
  ASSUME NEW reqs \in Seq(Requests), NEW at, NEW req \in Requests,
         InOrder(reqs, at), RightWay(req, LastBlockOf(reqs, at))
  PROVE  /\ InOrder(Append(reqs, req), at)
         /\ LastBlockOf(Append(reqs, req), at) = req.block
<1> DEFINE longer == Append(reqs, req)
<1>1. /\ longer \in Seq(Requests) /\ Len(longer) = Len(reqs) + 1
      /\ longer[Len(longer)] = req /\ Len(reqs) \in Nat
      /\ \A i \in 1 .. Len(reqs) : longer[i] = reqs[i]
  OBVIOUS
<1>2. ASSUME NEW i \in 1 .. Len(longer)
      PROVE  RightWay(longer[i], IF i = 1 THEN at ELSE longer[i - 1].block)
  <2>1. CASE i <= Len(reqs)
    BY <1>1, <2>1 DEF InOrder
  <2>2. CASE i = Len(reqs) + 1
    <3>1. reqs = <<>> <=> i = 1
      BY <2>2
    <3>2. LastBlockOf(reqs, at) = IF i = 1 THEN at ELSE longer[i - 1].block
      BY <1>1, <2>2, <3>1 DEF LastBlockOf
    <3> QED
      BY <1>1, <2>2, <3>2
  <2> QED
    BY <1>1, <2>1, <2>2
<1>3. longer # <<>>
  BY <1>1
<1> QED
  BY <1>1, <1>2, <1>3 DEF InOrder, LastBlockOf

LEMMA TailInOrder ==
  ASSUME NEW reqs \in Seq(Requests), NEW at, reqs # <<>>, InOrder(reqs, at)
  PROVE  /\ InOrder(Tail(reqs), reqs[1].block)
         /\ LastBlockOf(Tail(reqs), reqs[1].block) = LastBlockOf(reqs, at)
         /\ RightWay(reqs[1], at)
<1> DEFINE rest == Tail(reqs)
<1>1. /\ rest \in Seq(Requests) /\ Len(rest) = Len(reqs) - 1
      /\ Len(reqs) \in Nat \ {0}
      /\ \A i \in 1 .. Len(rest) : rest[i] = reqs[i + 1]
  OBVIOUS
<1> HIDE DEF rest
<1>2. ASSUME NEW i \in 1 .. Len(rest)
      PROVE  RightWay(rest[i], IF i = 1 THEN reqs[1].block ELSE rest[i - 1].block)
  <2>1. i + 1 \in 1 .. Len(reqs) /\ i + 1 # 1
    BY <1>1
  <2>2. RightWay(reqs[i + 1], reqs[i].block)
    BY <2>1 DEF InOrder
  <2> QED
    BY <1>1, <2>2
<1>3. LastBlockOf(rest, reqs[1].block) = LastBlockOf(reqs, at)
  <2>1. CASE Len(reqs) = 1
    <3>1. rest = <<>>
      BY <1>1, <2>1
    <3> QED
      BY <2>1, <3>1 DEF LastBlockOf
  <2>2. CASE Len(reqs) > 1
    <3>1. rest # <<>> /\ rest[Len(rest)] = reqs[Len(reqs)]
      BY <1>1, <2>2
    <3> QED
      BY <3>1 DEF LastBlockOf
  <2> QED
    BY <1>1, <2>1, <2>2
<1>4. RightWay(reqs[1], at)
  BY <1>1 DEF InOrder
<1> QED
  BY <1>2, <1>3, <1>4 DEF InOrder, rest

(* Requests that differ in what leaves their order alone.                  *)
LEMMA SameOrder ==
  ASSUME NEW reqs \in Seq(Requests), NEW others \in Seq(Requests), NEW at,
         Len(others) = Len(reqs), InOrder(reqs, at),
         \A i \in 1 .. Len(reqs) :
            /\ others[i].kind = reqs[i].kind /\ others[i].block = reqs[i].block
            /\ ~IsRevert(reqs[i]) => others[i].first = reqs[i].first
  PROVE  InOrder(others, at) /\ LastBlockOf(others, at) = LastBlockOf(reqs, at)
<1>1. ASSUME NEW i \in 1 .. Len(others)
      PROVE  RightWay(others[i], IF i = 1 THEN at ELSE others[i - 1].block)
  <2> DEFINE before == IF i = 1 THEN at ELSE reqs[i - 1].block
  <2>1. (IF i = 1 THEN at ELSE others[i - 1].block) = before
    OBVIOUS
  <2>2. i \in 1 .. Len(reqs)
    OBVIOUS
  <2>3. RightWay(reqs[i], before)
    BY <2>2 DEF InOrder
  <2>4. /\ others[i].kind = reqs[i].kind /\ others[i].block = reqs[i].block
        /\ ~IsRevert(reqs[i]) => others[i].first = reqs[i].first
    BY <2>2
  <2> HIDE DEF before
  <2>5. RightWay(others[i], before)
    BY <2>3, <2>4, Zenon DEF RightWay, IsRevert
  <2> QED
    BY <2>1, <2>5, Zenon
<1>2. LastBlockOf(others, at) = LastBlockOf(reqs, at)
  <2>1. CASE Len(reqs) = 0
    BY <2>1 DEF LastBlockOf
  <2>2. CASE Len(reqs) # 0
    <3>1. Len(reqs) \in Nat /\ Len(reqs) = Len(others)
      OBVIOUS
    <3>2. Len(reqs) \in 1 .. Len(reqs)
      BY <2>2, <3>1
    <3>3. others[Len(reqs)].block = reqs[Len(reqs)].block
      BY <3>2, ZenonT(30)
    <3> QED
      BY <3>1, <3>3 DEF LastBlockOf
  <2> QED
    BY <2>1, <2>2
<1> QED
  BY <1>1, <1>2 DEF InOrder

(* A batch at the end of the queue that takes more blocks in.              *)
LEMMA GrowLast ==
  ASSUME NEW reqs \in Seq(Requests), NEW at, NEW req \in Writes, reqs # <<>>,
         InOrder(reqs, at), ~IsRevert(reqs[Len(reqs)]),
         req.first = reqs[Len(reqs)].first, req.first <= req.block
  PROVE  /\ InOrder([reqs EXCEPT ![Len(reqs)] = req], at)
         /\ LastBlockOf([reqs EXCEPT ![Len(reqs)] = req], at) = req.block
<1> DEFINE n == Len(reqs)
           grown == [reqs EXCEPT ![n] = req]
<1>1. /\ grown \in Seq(Requests) /\ Len(grown) = n /\ n \in 1 .. n
      /\ grown[n] = req /\ \A i \in 1 .. n - 1 : grown[i] = reqs[i]
  BY DEF Requests
<1> HIDE DEF grown
<1>2. ~IsRevert(req)
  BY DEF IsRevert, Writes
<1>3. ASSUME NEW i \in 1 .. n
      PROVE  RightWay(grown[i], IF i = 1 THEN at ELSE grown[i - 1].block)
  <2>1. RightWay(reqs[i], IF i = 1 THEN at ELSE grown[i - 1].block)
    <3>1. RightWay(reqs[i], IF i = 1 THEN at ELSE reqs[i - 1].block)
      BY DEF InOrder
    <3>2. i # 1 => grown[i - 1] = reqs[i - 1]
      BY <1>1
    <3> QED
      BY <3>1, <3>2
  <2>2. CASE i < n
    BY <1>1, <2>1, <2>2
  <2>3. CASE i = n
    BY <1>1, <1>2, <2>1, <2>3 DEF RightWay
  <2> QED
    BY <1>1, <2>2, <2>3
<1>4. LastBlockOf(grown, at) = req.block
  <2>1. grown # <<>>
    BY <1>1
  <2> QED
    BY <1>1, <2>1 DEF LastBlockOf
<1> QED
  BY <1>1, <1>3, <1>4 DEF InOrder, grown

LEMMA TailOfGrown ==
  ASSUME NEW S, NEW s \in Seq(S), NEW e \in S, Len(s) > 1
  PROVE  Tail([s EXCEPT ![Len(s)] = e]) = [Tail(s) EXCEPT ![Len(Tail(s))] = e]
<1> DEFINE n == Len(s)
           grown == [s EXCEPT ![n] = e]
           rest  == Tail(s)
           other == [rest EXCEPT ![n - 1] = e]
<1>1. n \in Nat \ {0, 1} /\ rest \in Seq(S) /\ Len(rest) = n - 1
      /\ \A i \in 1 .. n - 1 : rest[i] = s[i + 1]
  <2>1. n \in Nat /\ n > 1
    OBVIOUS
  <2>2. s # <<>>
    OBVIOUS
  <2>3. rest \in Seq(S) /\ Len(rest) = n - 1
    BY <2>2
  <2>4. \A i \in 1 .. Len(rest) : rest[i] = s[i + 1]
    BY <2>2
  <2> HIDE DEF n, rest
  <2> QED
    BY <2>1, <2>3, <2>4
<1>2. grown \in Seq(S) /\ Len(grown) = n
      /\ \A i \in 1 .. n : grown[i] = IF i = n THEN e ELSE s[i]
  <2> HIDE DEF n
  <2>1. n \in Nat /\ n = Len(s)
    BY <1>1 DEF n
  <2> QED
    BY <2>1
<1>3. other \in Seq(S) /\ Len(other) = n - 1
      /\ \A i \in 1 .. n - 1 : other[i] = IF i = n - 1 THEN e ELSE s[i + 1]
  <2> HIDE DEF n, rest
  <2> QED
    BY <1>1
<1> HIDE DEF grown, other, n
<1>4. Tail(grown) \in Seq(S) /\ Len(Tail(grown)) = n - 1
      /\ \A i \in 1 .. n - 1 : Tail(grown)[i] = grown[i + 1]
  BY <1>1, <1>2
<1>5. \A i \in 1 .. n - 1 : Tail(grown)[i] = other[i]
  BY <1>1, <1>2, <1>3, <1>4
<1>6. Tail(grown) = other
  BY <1>3, <1>4, <1>5
<1> QED
  BY <1>1, <1>6 DEF grown, other, n
-----------------------------------------------------------------------------
(* The inductive invariant: while the writer has not failed there is no    *)
(* error to report, the requests that the database has yet to execute are  *)
(* in order, and the pointer leads to where the runner's call makes sense. *)
CallFits ==
  IF call.kind = "revert"
  THEN call.block = ptr /\ ptr < LastBlockOf(Pending, db.ptr)
  ELSE /\ ptr = LastBlockOf(Pending, db.ptr)
       /\ call.kind = "write" => ptr < call.block

OrderInv ==
  /\ reply = Failure => call = NoCall
  /\ ~Broken => /\ ~writeErr /\ ~poisoned
                /\ call # NoCall => call.pc # "refused"
                /\ InOrder(Pending, db.ptr)
                /\ CallFits

LEMMA PendingType ==
  ASSUME TypeOK, ~Broken
  PROVE  /\ Pending \in Seq(Requests)
         /\ writer = "pop" => /\ queue # <<>> /\ Pending = Tail(queue)
                              /\ Len(Pending) = Len(queue) - 1
                              /\ \A i \in 1 .. Len(Pending) : Pending[i] = queue[i + 1]
         /\ writer # "pop" => Pending = queue
BY DEF TypeOK, Pending, Requests

LEMMA OrderInit == Init => OrderInv
<1> SUFFICES ASSUME Init PROVE OrderInv
  OBVIOUS
<1>1. Pending = <<>> /\ Len(Pending) = 0
  BY DEF Init, Pending
<1>2. InOrder(Pending, db.ptr) /\ LastBlockOf(Pending, db.ptr) = db.ptr
  BY <1>1 DEF InOrder, LastBlockOf
<1>3. call.kind = "none" /\ reply # Failure
  BY DEF Init, NoCall, NoReply, Failure
<1> QED
  BY <1>2, <1>3 DEF Init, OrderInv, CallFits

LEMMA OrderFresh ==
  ASSUME Fresh(db), UNCHANGED db, call' = NoCall, reply' = NoReply
  PROVE  OrderInv'
<1>1. /\ Pending' = <<>> /\ Len(Pending') = 0 /\ ptr' = db'.ptr
      /\ ~writeErr' /\ ~poisoned'
  BY DEF Fresh, Pending
<1>2. InOrder(Pending', db'.ptr) /\ LastBlockOf(Pending', db'.ptr) = db'.ptr
  BY <1>1 DEF InOrder, LastBlockOf
<1>3. call'.kind = "none" /\ reply' # Failure
  BY DEF NoCall, NoReply, Failure
<1> QED
  BY <1>1, <1>2, <1>3 DEF OrderInv, CallFits

(* What a step that leaves the queue, the database and the writer alone    *)
(* has to keep up.                                                         *)
LEMMA OrderCall ==
  ASSUME OrderInv, UNCHANGED <<db, queue, writer, poisoned>>,
         reply' = Failure => call' = NoCall,
         ~Broken => /\ ~writeErr' /\ CallFits'
                    /\ call' # NoCall => call'.pc # "refused"
  PROVE  OrderInv'
<1>1. Pending' = Pending /\ Broken' = Broken
  BY DEF Pending, Broken
<1> QED
  BY <1>1 DEF OrderInv

LEMMA OrderCalls ==
  ASSUME TypeOK, OrderInv,
         \/ SubmitWrite \/ RejectWrite \/ SubmitRevert \/ SubmitFlush \/ SubmitGet
         \/ CallRefused \/ Push \/ WaitEmpty \/ Flushed
         \/ GetFromQueue \/ GetFromDatabase
  PROVE  OrderInv'
<1> DEFINE last == LastBlockOf(Pending, db.ptr)
           Fit(c, p) == IF c.kind = "revert" THEN c.block = p /\ p < last
                        ELSE p = last /\ (c.kind = "write" => p < c.block)
<1>1. Broken \/ (~writeErr /\ ~poisoned /\ Fit(call, ptr) /\ ~Refused)
  BY DEF OrderInv, CallFits, Refused
<1>2. UNCHANGED <<db, queue, writer, poisoned>> => (CallFits' <=> Fit(call', ptr'))
  BY DEF CallFits, Pending, Broken
<1>3. /\ NoReply # Failure /\ Ok # Failure /\ NoCall.kind = "none"
      /\ \A val : Answer(val) # Failure
  BY DEF NoReply, Failure, Ok, NoCall, Answer
<1>4. ASSUME NEW c, Begin(c), c.pc # "refused",
             ~Broken => Fit(c, ptr')
      PROVE  OrderInv'
  <2>1. /\ UNCHANGED <<db, queue, writer, poisoned>> /\ reply' # Failure
        /\ ~writeErr' /\ (Broken \/ call' = c)
    BY <1>1, <1>3, <1>4 DEF Begin
  <2> HIDE DEF Fit
  <2> QED
    BY <1>2, <1>4, <2>1, OrderCall
<1>5. CASE SubmitWrite
  <2>1. PICK n \in ptr + 1 .. LastBlock, wants \in [Keys -> Vals \cup {Absent}],
             new \in SUBSET Immutable :
          Begin(WriteCall(n, wants, new)) /\ ptr' = ptr /\ ptr < n
    BY <1>5, WriteSubmitted
  <2>2. call = NoCall
    BY <2>1 DEF Begin, Idle
  <2>3. /\ WriteCall(n, wants, new).kind = "write"
        /\ WriteCall(n, wants, new).block = n
        /\ WriteCall(n, wants, new).pc # "refused"
    BY DEF WriteCall
  <2>4. ~Broken => Fit(WriteCall(n, wants, new), ptr')
    BY <1>1, <1>3, <2>1, <2>2, <2>3
  <2> QED
    BY <1>4, <2>1, <2>3, <2>4
<1>6. CASE SubmitRevert
  <2>1. PICK n \in BeforePointer :
          Begin([kind |-> "revert", pc |-> "push", block |-> n]) /\ ptr' = n
    BY <1>6 DEF SubmitRevert
  <2>2. call = NoCall /\ n < ptr
    BY <2>1 DEF Begin, Idle, BeforePointer, TypeOK, Blocks
  <2>3. ~Broken => Fit([kind |-> "revert", pc |-> "push", block |-> n], ptr')
    BY <1>1, <1>3, <2>1, <2>2
  <2> QED
    BY <1>4, <2>1, <2>3
<1>7. CASE SubmitFlush
  <2>1. call = NoCall /\ ptr' = ptr
    BY <1>7 DEF SubmitFlush, Begin, Idle
  <2>2. ~Broken => Fit([kind |-> "flush", pc |-> "empty"], ptr')
    BY <1>1, <1>3, <2>1
  <2> QED
    BY <1>4, <1>7, <2>2 DEF SubmitFlush
<1>8. CASE SubmitGet
  <2>1. /\ UNCHANGED <<db, queue, writer, poisoned, writeErr, ptr>>
        /\ reply' # Failure /\ call = NoCall
        /\ call'.kind = "get" /\ call'.pc = "queue"
    BY <1>3, <1>8 DEF SubmitGet, Idle, queueVars
  <2>2. ~Broken => CallFits'
    BY <1>1, <1>2, <1>3, <2>1
  <2> QED
    BY <1>1, <2>1, <2>2, OrderCall
<1>9. CASE CallRefused
  <2>1. Broken /\ call' = NoCall /\ UNCHANGED <<db, queue, writer, poisoned>>
    BY <1>9, <1>3 DEF CallRefused, At, Return, OrderInv, queueVars
  <2> QED
    BY <2>1, OrderCall
<1>10. CASE Push
  <2>1. UNCHANGED <<db, queue, writer, poisoned, ptr>> /\ ~writeErr'
    BY <1>10 DEF Push, CheckErr
  <2>2. CASE Refused
    BY <1>1, <1>10, <2>1, <2>2, OrderCall DEF Push, CheckErr, Return
  <2>3. CASE ~Refused
    <3>1. /\ call' = [call EXCEPT !.pc = "room"] /\ UNCHANGED reply
          /\ call.kind \in {"write", "revert"} /\ call \in Calls
      BY <1>10, <2>3 DEF Push, CheckErr, GoOn, At, TypeOK
    <3>2. /\ call'.kind = call.kind /\ call'.block = call.block
          /\ call'.pc = "room" /\ call # NoCall
      BY <3>1 DEF Calls, NoCall
    <3>3. reply' # Failure
      BY <3>1, <3>2 DEF OrderInv
    <3>4. ~Broken => CallFits'
      BY <1>1, <1>2, <2>1, <3>2
    <3> QED
      BY <2>1, <3>2, <3>3, <3>4, OrderCall
  <2> QED
    BY <2>2, <2>3
<1>11. CASE WaitEmpty
  <2>1. /\ UNCHANGED <<db, queue, writer, poisoned, writeErr, ptr, reply>>
        /\ call' = [call EXCEPT !.pc = "done"] /\ call.kind = "flush" /\ call \in Calls
    BY <1>11 DEF WaitEmpty, GoOn, At, queueVars, TypeOK
  <2>2. call'.kind = "flush" /\ call'.pc = "done" /\ call # NoCall
    BY <2>1 DEF Calls, NoCall
  <2>3. reply' # Failure
    BY <2>1, <2>2 DEF OrderInv
  <2>4. ~Broken => CallFits'
    BY <1>1, <1>2, <2>1, <2>2
  <2> QED
    BY <1>1, <2>1, <2>2, <2>3, <2>4, OrderCall
<1>12. CASE Flushed
  <2>1. /\ UNCHANGED <<db, queue, writer, poisoned, ptr>> /\ ~writeErr'
        /\ call.kind = "flush" /\ call' = NoCall
    BY <1>12 DEF Flushed, CheckErr, Return, At
  <2>2. ~Broken => CallFits'
    BY <1>1, <1>2, <1>3, <2>1
  <2> QED
    BY <2>1, <2>2, OrderCall
<1>13. CASE GetFromQueue
  <2>1. /\ UNCHANGED <<db, queue, writer, poisoned, writeErr, ptr>>
        /\ call.kind = "get" /\ call # NoCall
    BY <1>13, <1>3 DEF GetFromQueue, At, queueVars
  <2>2. /\ reply' = Failure => call' = NoCall
        /\ call'.kind \in {"none", "get"}
        /\ call' # NoCall => call'.pc # "refused"
    BY <1>13, <1>3, <2>1 DEF GetFromQueue, Return, OrderInv
  <2>3. ~Broken => CallFits'
    BY <1>1, <1>2, <2>1, <2>2
  <2> QED
    BY <1>1, <2>1, <2>2, <2>3, OrderCall
<1>14. CASE GetFromDatabase
  <2>1. /\ UNCHANGED <<db, queue, writer, poisoned, writeErr, ptr>>
        /\ call.kind = "get" /\ call' = NoCall
    BY <1>14 DEF GetFromDatabase, At, Return, queueVars
  <2>2. ~Broken => CallFits'
    BY <1>1, <1>2, <1>3, <2>1
  <2> QED
    BY <1>1, <2>1, <2>2, OrderCall
<1>15. CASE RejectWrite
  <2>1. /\ UNCHANGED <<db, queue, writer, poisoned, writeErr, ptr, call>>
        /\ call = NoCall
    BY <1>15 DEF RejectWrite, Idle, queueVars
  <2>2. ~Broken => CallFits'
    BY <1>1, <1>2, <2>1
  <2> QED
    BY <1>1, <2>1, <2>2, OrderCall
<1> QED
  BY <1>5, <1>6, <1>7, <1>8, <1>9, <1>10, <1>11, <1>12, <1>13, <1>14, <1>15

(* The runner's steps that change the queue.                               *)
LEMMA OrderQueue ==
  ASSUME TypeOK, OrderInv, AppendToNewest \/ Enqueue \/ Restart
  PROVE  OrderInv'
<1>1. /\ NoReply # Failure /\ NoCall.kind = "none"
      /\ db.ptr \in Nat /\ (~Broken => Pending \in Seq(Requests))
  BY PendingType DEF NoReply, Failure, NoCall, TypeOK, Blocks
<1>2. CASE AppendToNewest
  <2> DEFINE n == Len(queue)
             newest == queue[n]
             fits == call.block > newest.block /\ Fits(newest.rows, call.rows)
             joined == IF fits
                       THEN [newest EXCEPT !.block = call.block,
                                           !.rows = AppendRows(newest.rows, call.rows)]
                       ELSE [newest EXCEPT !.bad = TRUE]
  <2>1. /\ call.kind = "write" /\ call.block \in Blocks /\ call.rows \in SUBSET Rows
    BY <1>2 DEF AppendToNewest, At, TypeOK, Calls, NoCall
  <2>2. n \in 1 .. Len(queue) /\ newest \in Writes /\ ~newest.processed
        /\ ~IsRevert(newest)
    BY <1>2 DEF AppendToNewest, MayAppend, NewestIsWrite, IsRevert, Writes, Reverts,
                TypeOK
  <2>3. /\ joined \in Writes /\ joined.first = newest.first
        /\ joined.block = IF fits THEN call.block ELSE newest.block
    BY <2>1, <2>2, AppendRowsType DEF Writes
  <2>4. /\ queue' = [queue EXCEPT ![n] = joined]
        /\ UNCHANGED <<db, writer, writeErr, poisoned>>
        /\ call' = NoCall /\ (ptr' = IF fits THEN call.block ELSE ptr)
    BY <1>2 DEF AppendToNewest, Return
  <2>5. CASE Broken
    BY <2>4, <2>5 DEF OrderInv, Broken
  <2>6. CASE ~Broken
    <3>1. /\ Pending # <<>> /\ Pending[Len(Pending)] = newest
          /\ Pending' = [Pending EXCEPT ![Len(Pending)] = joined]
      <4>1. CASE writer # "pop"
        BY <2>2, <2>4, <2>6, <4>1 DEF Pending, Broken
      <4>2. CASE writer = "pop"
        <5>1. n > 1
          BY <2>2, <4>2 DEF TypeOK
        <5>2. Pending = Tail(queue) /\ Pending' = Tail([queue EXCEPT ![n] = joined])
          BY <2>4, <2>6, <4>2 DEF Pending, Broken
        <5>3. queue \in Seq(Requests) /\ joined \in Requests /\ newest \in Requests
          BY <2>2, <2>3 DEF TypeOK, Requests
        <5> HIDE DEF joined, newest
        <5>4. Tail([queue EXCEPT ![n] = joined])
              = [Tail(queue) EXCEPT ![Len(Tail(queue))] = joined]
          BY <5>1, <5>3, TailOfGrown
        <5>5. Tail(queue) # <<>> /\ Tail(queue)[Len(Tail(queue))] = queue[n]
          BY <5>1, <5>3
        <5> QED
          BY <5>2, <5>4, <5>5 DEF newest
      <4> QED
        BY <4>1, <4>2
    <3>2. /\ InOrder(Pending, db.ptr) /\ ptr = LastBlockOf(Pending, db.ptr)
          /\ ~writeErr /\ ~poisoned /\ ptr < call.block
      BY <2>1, <2>6 DEF OrderInv, CallFits
    <3>3. ptr = newest.block
      BY <3>1, <3>2 DEF LastBlockOf
    <3>4. newest.first <= newest.block /\ joined.first <= joined.block
      <4>1. Len(Pending) \in 1 .. Len(Pending)
        BY <1>1, <2>6, <3>1
      <4>2. newest.first <= newest.block
        BY <2>2, <3>1, <3>2, <4>1 DEF InOrder, RightWay
      <4> QED
        BY <2>1, <2>2, <2>3, <3>2, <3>3, <4>2 DEF Writes, Blocks
    <3> HIDE DEF joined, newest, fits
    <3>5. /\ InOrder(Pending', db.ptr)
          /\ LastBlockOf(Pending', db.ptr) = joined.block
      BY <1>1, <2>2, <2>3, <2>6, <3>1, <3>2, <3>4, GrowLast
    <3>6. ptr' = joined.block
      BY <2>3, <2>4, <3>3
    <3> QED
      BY <1>1, <2>4, <2>6, <3>2, <3>5, <3>6 DEF OrderInv, CallFits, Broken
  <2> QED
    BY <2>5, <2>6
<1>3. CASE Enqueue
  <2>1. /\ call.kind \in {"write", "revert"} /\ call.block \in Blocks
        /\ call.kind = "write" => call.rows \in SUBSET Rows
    BY <1>3 DEF Enqueue, At, TypeOK, Calls, NoCall
  <2>2. /\ Request \in Requests /\ Request.block = call.block
        /\ IsRevert(Request) <=> call.kind = "revert"
        /\ call.kind = "write" => Request.first = call.block
    BY <2>1 DEF Request, Writes, Reverts, Requests, IsRevert
  <2>3. /\ queue' = Append(queue, Request) /\ ptr' = call.block /\ call' = NoCall
        /\ UNCHANGED <<db, writer, writeErr, poisoned>>
    BY <1>3 DEF Enqueue, Return
  <2>4. CASE Broken
    BY <2>3, <2>4 DEF OrderInv, Broken
  <2>5. CASE ~Broken
    <3>1. Pending' = Append(Pending, Request)
      <4>1. CASE writer # "pop"
        BY <2>3, <2>5, <4>1 DEF Pending, Broken
      <4>2. CASE writer = "pop"
        <5>1. /\ queue # <<>> /\ Pending = Tail(queue)
              /\ Pending' = Tail(Append(queue, Request))
          BY <2>3, <2>5, <4>2 DEF Pending, Broken, TypeOK
        <5>2. queue \in Seq(Requests)
          BY DEF TypeOK, Requests
        <5> QED
          BY <2>2, <5>1, <5>2
      <4> QED
        BY <4>1, <4>2
    <3>2. /\ InOrder(Pending, db.ptr) /\ ~writeErr /\ ~poisoned
          /\ RightWay(Request, LastBlockOf(Pending, db.ptr))
      BY <2>1, <2>2, <2>5 DEF OrderInv, CallFits, RightWay, Blocks
    <3>3. /\ InOrder(Pending', db.ptr)
          /\ LastBlockOf(Pending', db.ptr) = call.block
      BY <1>1, <2>2, <2>5, <3>1, <3>2, AppendInOrder
    <3> QED
      BY <1>1, <2>3, <2>5, <3>2, <3>3 DEF OrderInv, CallFits, Broken
  <2> QED
    BY <2>4, <2>5
<1>4. CASE Restart
  <2>1. reply' = NoReply /\ call = NoCall /\ UNCHANGED <<db, call>>
    BY <1>4 DEF Restart, OrderInv
  <2>2. CASE poisoned
    BY <1>4, <2>1, <2>2, OrderFresh DEF Restart
  <2>3. CASE ~poisoned
    <3>1. UNCHANGED <<queue, writer, writeErr, poisoned, ptr>>
      BY <1>4, <2>3 DEF Restart, queueVars
    <3>2. ~Broken => CallFits'
      BY <2>1, <3>1 DEF OrderInv, CallFits, Pending, Broken
    <3> QED
      BY <1>1, <2>1, <3>1, <3>2, OrderCall DEF OrderInv
  <2> QED
    BY <2>2, <2>3
<1> QED
  BY <1>2, <1>3, <1>4

LEMMA OrderBackground ==
  ASSUME TypeOK, OrderInv, Background
  PROVE  OrderInv'
<1>1. UNCHANGED <<ptr, call, reply>>
  BY DEF Background, Peek, Execute, ExecuteFails, Pop, Poison, Clear
<1>2. CASE Broken'
  BY <1>1, <1>2 DEF OrderInv
<1>3. CASE ~Broken'
  <2>1. Peek \/ Execute \/ Pop
    BY <1>3 DEF Background, ExecuteFails, Poison, Clear, Broken
  <2>2. ~Broken /\ UNCHANGED <<writeErr, poisoned>>
    BY <2>1 DEF Peek, Execute, Pop, Broken
  <2>3. /\ InOrder(Pending, db.ptr) /\ CallFits /\ ~writeErr /\ ~poisoned
        /\ call # NoCall => call.pc # "refused"
    BY <2>2 DEF OrderInv
  <2>4. /\ InOrder(Pending', db'.ptr)
        /\ LastBlockOf(Pending', db'.ptr) = LastBlockOf(Pending, db.ptr)
    <3>1. CASE Peek
      <4>1. /\ Pending = queue /\ Pending' = queue' /\ db' = db
            /\ queue # <<>> /\ queue \in Seq(Requests) /\ 1 \in 1 .. Len(queue)
            /\ queue' = [queue EXCEPT ![1] = [queue[1] EXCEPT !.processed = TRUE]]
        BY <3>1 DEF Peek, Pending, Broken, TypeOK, Requests
      <4>2. TypeOK'
        BY <3>1, BackgroundType DEF Background
      <4>3. queue' \in Seq(Requests) /\ Len(queue') = Len(queue)
        BY <4>1, <4>2 DEF TypeOK, Requests
      <4>4. \A i \in 1 .. Len(queue) :
              /\ queue'[i].kind = queue[i].kind /\ queue'[i].block = queue[i].block
              /\ ~IsRevert(queue[i]) => queue'[i].first = queue[i].first
        <5>1. queue[1] \in Writes \/ queue[1] \in Reverts
          BY <4>1 DEF Requests
        <5>2. /\ queue'[1].kind = queue[1].kind /\ queue'[1].block = queue[1].block
              /\ ~IsRevert(queue[1]) => queue'[1].first = queue[1].first
          BY <4>1, <5>1 DEF Writes, Reverts, IsRevert
        <5>3. \A i \in 2 .. Len(queue) : queue'[i] = queue[i]
          BY <4>1
        <5>4. Len(queue) \in Nat
          BY <4>1
        <5>5. \A i \in 1 .. Len(queue) : i = 1 \/ i \in 2 .. Len(queue)
          BY <5>4
        <5> SUFFICES ASSUME NEW i \in 1 .. Len(queue)
                     PROVE  /\ queue'[i].kind = queue[i].kind
                            /\ queue'[i].block = queue[i].block
                            /\ ~IsRevert(queue[i]) => queue'[i].first = queue[i].first
          OBVIOUS
        <5>6. CASE i = 1
          BY <5>2, <5>6, Zenon
        <5>7. CASE i \in 2 .. Len(queue)
          <6>1. queue'[i] = queue[i]
            BY <5>3, <5>7, Zenon
          <6> QED
            BY <6>1, Zenon
        <5> QED
          BY <5>5, <5>6, <5>7, Zenon
      <4>5. InOrder(queue, db.ptr) /\ queue \in Seq(Requests)
        BY <2>3, <4>1, Zenon
      <4>6. /\ InOrder(queue', db.ptr)
            /\ LastBlockOf(queue', db.ptr) = LastBlockOf(queue, db.ptr)
        BY <4>3, <4>4, <4>5, SameOrder, Zenon
      <4> QED
        BY <4>1, <4>6, Zenon
    <3>2. CASE Execute
      <4>1. /\ queue # <<>> /\ queue \in Seq(Requests) /\ Oldest = queue[1]
            /\ Pending = queue /\ Pending' = Tail(queue)
        BY <3>2 DEF Execute, Pending, Broken, TypeOK, Requests, Oldest
      <4>2. db'.ptr = queue[1].block
        BY <3>2, <4>1 DEF Execute, Outcome
      <4> QED
        BY <2>3, <4>1, <4>2, TailInOrder
    <3>3. CASE Pop
      <4>1. Pending' = Pending /\ db' = db
        BY <3>3 DEF Pop, Pending, Broken
      <4> QED
        BY <2>3, <4>1
    <3> QED
      BY <2>1, <3>1, <3>2, <3>3
  <2> QED
    BY <1>1, <2>2, <2>3, <2>4 DEF OrderInv, CallFits
<1> QED
  BY <1>2, <1>3

LEMMA OrderStep ==
  ASSUME TypeOK, OrderInv, [Next]_vars
  PROVE  OrderInv'
<1>1. CASE Crash
  BY <1>1, OrderFresh DEF Crash
<1>2. CASE UNCHANGED vars
  BY <1>2 DEF vars, OrderInv, CallFits, Pending, Broken
<1> QED
  BY <1>1, <1>2, OrderCalls, OrderQueue, OrderBackground DEF Next, Runner

(* A request that the writer executes goes the way the database insists    *)
(* on, and so does every block of a batch, of which the database checks    *)
(* only the last (DeploymentStore transact and revert_block_operations):   *)
(* while nothing fails, no call of the runner can put the requests in an   *)
(* order that the database refuses, however they are batched.              *)
THEOREM WritesGoForward == Spec => []GoesTheRightWay
<1>1. Init => TypeOK /\ OrderInv
  BY InitType, OrderInit
<1>2. TypeOK /\ OrderInv /\ [Next]_vars => (TypeOK /\ OrderInv)'
  BY RunnerType, BackgroundType, CrashType, OrderStep DEF Next
<1>3. TypeOK /\ OrderInv => GoesTheRightWay
  <2> SUFFICES ASSUME TypeOK, OrderInv, writer = "execute"
               PROVE  RightWay(Oldest, db.ptr)
    BY DEF GoesTheRightWay, RightWay
  <2>1. /\ queue # <<>> /\ queue \in Seq(Requests) /\ Oldest = queue[1]
        /\ InOrder(queue, db.ptr)
    BY DEF OrderInv, Pending, Broken, TypeOK, Requests, Oldest
  <2> QED
    BY <2>1, TailInOrder
<1> QED
  BY <1>1, <1>2, <1>3, PTL DEF Spec

(* Between calls the in-memory pointer, from which the runner goes on (and *)
(* its restart after an error: WritableStore::restart), is where the       *)
(* database will be once the queue has been written.                       *)
THEOREM PointerLeads == Spec => []PointerIsLast
<1>1. Init => TypeOK /\ OrderInv
  BY InitType, OrderInit
<1>2. TypeOK /\ OrderInv /\ [Next]_vars => (TypeOK /\ OrderInv)'
  BY RunnerType, BackgroundType, CrashType, OrderStep DEF Next
<1>3. OrderInv => PointerIsLast
  BY DEF OrderInv, PointerIsLast, CallFits, NoCall, LastPtr, LastBlockOf
<1> QED
  BY <1>1, <1>2, <1>3, PTL DEF Spec
-----------------------------------------------------------------------------
(* The tables that the requests of the queue lead through: D[i] is the     *)
(* database after the first i of them.                                     *)
UpTo(d) == TableUpTo(d.table, d.ptr) /\ Lasting(d.table)

(* A request that makes sense of a database: a revert to a block before    *)
(* its pointer, or a batch of later blocks made for its table.             *)
Suits(d, req) ==
  IF IsRevert(req) THEN req.block < d.ptr
  ELSE /\ BatchUpTo(d.table, d.ptr, req.rows, req.block) /\ Inserted(req.rows)
       /\ d.ptr < req.first /\ req.first <= req.block
       /\ \A p \in req.rows : req.first <= p.block

Chain(D, reqs) ==
  /\ \A i \in 0 .. Len(reqs) : UpTo(D[i])
  /\ \A i \in 1 .. Len(reqs) :
       Suits(D[i - 1], reqs[i]) /\ D[i] = Outcome(D[i - 1], reqs[i])

LEMMA RequestFields ==
  ASSUME TypeOK, NEW i \in 1 .. Len(queue)
  PROVE  /\ queue[i].block \in Nat /\ queue[i].block < BlockNumberMax
         /\ queue[i].block \in Blocks
         /\ ~IsRevert(queue[i]) => /\ queue[i] \in Writes
                                   /\ queue[i].first \in Nat
                                   /\ queue[i].rows \subseteq Rows
BY DEF TypeOK, Writes, Reverts, IsRevert, Blocks

LEMMA OutcomeUpTo ==
  ASSUME NEW d, UpTo(d), NEW req, Suits(d, req), req.block \in Nat
  PROVE  UpTo(Outcome(d, req))
<1>1. CASE IsRevert(req)
  <2>1. req.block <= d.ptr
    BY <1>1 DEF Suits, UpTo, TableUpTo, Blocks
  <2>2. TableUpTo(RevertBlock(d.table, req.block + 1), req.block)
    BY <2>1, RevertKeepsTable DEF UpTo
  <2>3. Lasting(RevertBlock(d.table, req.block + 1))
    BY RevertKeepsLasting DEF UpTo, TableUpTo
  <2> QED
    BY <1>1, <2>2, <2>3 DEF UpTo, Outcome
<1>2. CASE ~IsRevert(req)
  <2>1. TableUpTo(ApplyModifications(d.table, req.rows), req.block)
    BY <1>2, BatchKeepsTable DEF Suits, UpTo
  <2>2. Lasting(ApplyModifications(d.table, req.rows))
    BY <1>2, BatchKeepsLasting DEF Suits, UpTo, BatchUpTo, BatchFor
  <2> QED
    BY <1>2, <2>1, <2>2 DEF UpTo, Outcome
<1> QED
  BY <1>1, <1>2

LEMMA LowestIsIn ==
  ASSUME NEW S \in SUBSET Nat, S # {}
  PROVE  Lowest(S) \in S /\ \A m \in S : Lowest(S) <= m
BY LeastExists DEF Lowest

(* The lowest block of the reverts behind a request.                       *)
LEMMA RevertAfterIsLowest ==
  ASSUME TypeOK, NEW i \in 0 .. Len(queue)
  PROVE  /\ RevertAfter(i) \in 0 .. BlockNumberMax
         /\ \A j \in i + 1 .. Len(queue) :
              IsRevert(queue[j]) => RevertAfter(i) <= queue[j].block
         /\ \/ RevertAfter(i) = BlockNumberMax
            \/ \E j \in i + 1 .. Len(queue) :
                 IsRevert(queue[j]) /\ RevertAfter(i) = queue[j].block
<1> DEFINE S == {BlockNumberMax}
                  \cup {queue[j].block : j \in {k \in i + 1 .. Len(queue) :
                                                  IsRevert(queue[k])}}
<1>1. \A j \in i + 1 .. Len(queue) : j \in 1 .. Len(queue)
  OBVIOUS
<1>2. \A j \in i + 1 .. Len(queue) :
        queue[j].block \in Nat /\ queue[j].block < BlockNumberMax
  BY <1>1, RequestFields
<1>3. S \in SUBSET Nat /\ S # {}
  BY <1>2
<1>4. RevertAfter(i) = Lowest(S)
  BY DEF RevertAfter
<1>5. RevertAfter(i) \in S /\ \A m \in S : RevertAfter(i) <= m
  <2> HIDE DEF S
  <2> QED
    BY <1>3, <1>4, LowestIsIn
<1>6. RevertAfter(i) \in 0 .. BlockNumberMax
  BY <1>3, <1>5
<1> QED
  BY <1>2, <1>5, <1>6

LEMMA RevertAfterLast ==
  ASSUME TypeOK
  PROVE  RevertAfter(Len(queue)) = BlockNumberMax
<1>1. Len(queue) \in 0 .. Len(queue) /\ ~\E j \in Len(queue) + 1 .. Len(queue) : TRUE
  BY DEF TypeOK
<1> QED
  BY <1>1, RevertAfterIsLowest

LEMMA RevertAfterStep ==
  ASSUME TypeOK, NEW i \in 1 .. Len(queue)
  PROVE  RevertAfter(i - 1)
           = IF IsRevert(queue[i]) /\ queue[i].block < RevertAfter(i)
             THEN queue[i].block ELSE RevertAfter(i)
<1>1. /\ i - 1 \in 0 .. Len(queue) /\ i \in 0 .. Len(queue) /\ i - 1 + 1 = i
      /\ queue[i].block \in Nat /\ queue[i].block < BlockNumberMax
  BY RequestFields DEF TypeOK
<1>2. \A j \in i .. Len(queue) : j = i \/ j \in i + 1 .. Len(queue)
  BY DEF TypeOK
<1>3. \A j \in i + 1 .. Len(queue) : j \in i .. Len(queue)
  OBVIOUS
<1>4. i \in i .. Len(queue)
  OBVIOUS
<1>5. /\ RevertAfter(i) \in 0 .. BlockNumberMax
      /\ \A j \in i + 1 .. Len(queue) :
           IsRevert(queue[j]) => RevertAfter(i) <= queue[j].block
      /\ \/ RevertAfter(i) = BlockNumberMax
         \/ \E j \in i + 1 .. Len(queue) :
              IsRevert(queue[j]) /\ RevertAfter(i) = queue[j].block
  BY <1>1, RevertAfterIsLowest
<1>6. /\ RevertAfter(i - 1) \in 0 .. BlockNumberMax
      /\ \A j \in i .. Len(queue) :
           IsRevert(queue[j]) => RevertAfter(i - 1) <= queue[j].block
      /\ \/ RevertAfter(i - 1) = BlockNumberMax
         \/ \E j \in i .. Len(queue) :
              IsRevert(queue[j]) /\ RevertAfter(i - 1) = queue[j].block
  BY <1>1, RevertAfterIsLowest
<1>7. RevertAfter(i - 1) <= RevertAfter(i)
  BY <1>3, <1>5, <1>6
<1>8. IsRevert(queue[i]) => RevertAfter(i - 1) <= queue[i].block
  BY <1>4, <1>6
<1>9. \/ RevertAfter(i) <= RevertAfter(i - 1)
      \/ IsRevert(queue[i]) /\ RevertAfter(i - 1) = queue[i].block
  BY <1>2, <1>5, <1>6
<1> QED
  BY <1>1, <1>5, <1>6, <1>7, <1>8, <1>9

(* The block that the database is asked about.                             *)
LEMMA QueryBlockIsLowest ==
  ASSUME TypeOK, NEW D, Chain(D, queue)
  PROVE  /\ QueryBlock \in 0 .. BlockNumberMax
         /\ \A i \in 1 .. Len(queue) :
              QueryBlock <= IF IsRevert(queue[i]) THEN queue[i].block
                            ELSE queue[i].block - 1
         /\ \/ QueryBlock = BlockNumberMax
            \/ \E i \in 1 .. Len(queue) :
                 QueryBlock = IF IsRevert(queue[i]) THEN queue[i].block
                              ELSE queue[i].block - 1
<1> DEFINE below(i) == IF IsRevert(queue[i]) THEN queue[i].block
                       ELSE queue[i].block - 1
           S == {BlockNumberMax} \cup {below(i) : i \in 1 .. Len(queue)}
<1>1. ASSUME NEW i \in 1 .. Len(queue)
      PROVE  below(i) \in Nat /\ below(i) < BlockNumberMax
  <2>1. queue[i].block \in Nat /\ queue[i].block < BlockNumberMax
    BY RequestFields
  <2>2. ~IsRevert(queue[i]) => queue[i].block > 0
    <3>1. i - 1 \in 0 .. Len(queue)
      OBVIOUS
    <3>2. D[i - 1].ptr \in Nat /\ Suits(D[i - 1], queue[i])
      BY <3>1 DEF Chain, UpTo, TableUpTo, Blocks
    <3> QED
      BY <2>1, <3>2, RequestFields DEF Suits
  <2> QED
    BY <2>1, <2>2
<1> HIDE DEF below
<1>2. S \in SUBSET Nat /\ S # {}
  BY <1>1
<1>3. QueryBlock = Lowest(S)
  BY DEF QueryBlock, below
<1>4. QueryBlock \in S /\ \A m \in S : QueryBlock <= m
  <2> HIDE DEF S
  <2> QED
    BY <1>2, <1>3, LowestIsIn
<1>5. QueryBlock \in 0 .. BlockNumberMax
  BY <1>2, <1>4
<1>6. \A i \in 1 .. Len(queue) : QueryBlock <= below(i)
  BY <1>4
<1>7. QueryBlock = BlockNumberMax \/ \E i \in 1 .. Len(queue) : QueryBlock = below(i)
  BY <1>4
<1> QED
  BY <1>5, <1>6, <1>7 DEF below

LEMMA QueryBlockIsBefore ==
  ASSUME TypeOK, NEW D, Chain(D, queue), NEW i \in 0 .. Len(queue)
  PROVE  QueryBlock <= RevertAfter(i)
<1>1. \A j \in i + 1 .. Len(queue) : j \in 1 .. Len(queue)
  OBVIOUS
<1>2. /\ QueryBlock \in 0 .. BlockNumberMax
      /\ \A j \in 1 .. Len(queue) :
           IsRevert(queue[j]) => QueryBlock <= queue[j].block
  BY QueryBlockIsLowest
<1>3. \/ RevertAfter(i) = BlockNumberMax
      \/ \E j \in i + 1 .. Len(queue) :
           IsRevert(queue[j]) /\ RevertAfter(i) = queue[j].block
  BY RevertAfterIsLowest
<1> QED
  BY <1>1, <1>2, <1>3

(* A request that does not answer for an entity up to some block has no    *)
(* row of the entity up to it.                                             *)
LEMMA NoAnswer ==
  ASSUME TypeOK, NEW D, Chain(D, queue), NEW i \in 1 .. Len(queue),
         NEW k, ~Answers(k, i), ~IsRevert(queue[i])
  PROVE  \A p \in queue[i].rows : p.key = k => RevertAfter(i) < p.block
<1>1. i - 1 \in 0 .. Len(queue) /\ i \in 0 .. Len(queue)
  OBVIOUS
<1>2. \A p \in queue[i].rows : queue[i].first <= p.block /\ p.block \in Nat
  BY RequestFields, RowFields DEF Chain, Suits
<1>3. queue[i].first \in Nat /\ RevertAfter(i) \in Nat
  BY <1>1, RequestFields, RevertAfterIsLowest
<1>4. \/ ~(queue[i].first <= RevertAfter(i))
      \/ \A p \in queue[i].rows : p.key = k => ~(p.block <= RevertAfter(i))
  BY DEF Answers, HasOp
<1> QED
  BY <1>2, <1>3, <1>4

(* What the last requests leave of an entity they do not answer for is     *)
(* what the table before them has, where they go back to.                  *)
LEMMA LookBack ==
  ASSUME TypeOK, NEW D, Chain(D, queue), NEW k, NEW i \in 1 .. Len(queue),
         ~Answers(k, i)
  PROVE  ValueAt(D[i].table, k, RevertAfter(i))
           = ValueAt(D[i - 1].table, k, RevertAfter(i - 1))
<1>1. i - 1 \in 0 .. Len(queue) /\ i \in 0 .. Len(queue)
  OBVIOUS
<1>2. /\ UpTo(D[i - 1]) /\ Suits(D[i - 1], queue[i])
      /\ D[i] = Outcome(D[i - 1], queue[i])
  BY <1>1 DEF Chain
<1>3. /\ RevertAfter(i) \in 0 .. BlockNumberMax /\ queue[i].block \in Nat
      /\ D[i - 1].ptr \in Nat
  BY <1>1, <1>2, RevertAfterIsLowest, RequestFields DEF UpTo, TableUpTo, Blocks
<1>4. CASE IsRevert(queue[i])
  <2>1. /\ D[i].table = RevertBlock(D[i - 1].table, queue[i].block + 1)
        /\ queue[i].block <= D[i - 1].ptr
    BY <1>2, <1>3, <1>4 DEF Outcome, Suits
  <2>2. ValueAt(D[i].table, k, RevertAfter(i))
        = ValueAt(D[i - 1].table, k, IF RevertAfter(i) <= queue[i].block
                                     THEN RevertAfter(i) ELSE queue[i].block)
    BY <1>2, <1>3, <2>1, RevertGoesBack DEF UpTo
  <2>3. RevertAfter(i - 1) = IF RevertAfter(i) <= queue[i].block
                             THEN RevertAfter(i) ELSE queue[i].block
    BY <1>3, <1>4, RevertAfterStep
  <2> QED
    BY <2>2, <2>3
<1>5. CASE ~IsRevert(queue[i])
  <2>1. /\ D[i].table = ApplyModifications(D[i - 1].table, queue[i].rows)
        /\ BatchUpTo(D[i - 1].table, D[i - 1].ptr, queue[i].rows, queue[i].block)
    BY <1>2, <1>5 DEF Outcome, Suits
  <2>2. \A p \in queue[i].rows : p.key = k => RevertAfter(i) < p.block
    BY <1>5, NoAnswer
  <2>3. ValueAt(D[i].table, k, RevertAfter(i))
        = ValueAt(D[i - 1].table, k, RevertAfter(i))
    BY <1>2, <1>3, <2>1, <2>2, BatchLeavesThePast DEF UpTo
  <2>4. RevertAfter(i - 1) = RevertAfter(i)
    BY <1>5, RevertAfterStep
  <2> QED
    BY <2>3, <2>4
<1> QED
  BY <1>4, <1>5

LEMMA LookBackAll ==
  ASSUME TypeOK, NEW D, Chain(D, queue), NEW k, NEW i \in 0 .. Len(queue),
         \A j \in i + 1 .. Len(queue) : ~Answers(k, j)
  PROVE  ValueAt(D[Len(queue)].table, k, BlockNumberMax)
           = ValueAt(D[i].table, k, RevertAfter(i))
<1> DEFINE N == Len(queue)
           Same(j) == ValueAt(D[N].table, k, BlockNumberMax)
                        = ValueAt(D[j].table, k, RevertAfter(j))
           Differ == {j \in i .. N : ~Same(j)}
<1>1. N \in Nat /\ i \in Nat
  BY DEF TypeOK
<1> HIDE DEF N
<1>2. Same(N)
  BY RevertAfterLast DEF N
<1>3. ASSUME NEW j \in i + 1 .. N, Same(j)
      PROVE  Same(j - 1)
  <2>1. j \in 1 .. N
    BY <1>1
  <2> QED
    BY <1>3, <2>1, LookBack DEF N
<1> HIDE DEF Same
<1>4. Differ = {}
  <2> SUFFICES ASSUME Differ # {} PROVE FALSE
    OBVIOUS
  <2>1. Differ \in SUBSET Nat /\ \A j \in Differ : j <= N
    BY <1>1
  <2>2. PICK j \in Differ : \A m \in Differ : m <= j
    BY <1>1, <2>1, GreatestExists
  <2>3. j # N /\ j \in i .. N
    BY <1>2
  <2>4. j + 1 \in i + 1 .. N /\ j + 1 \in i .. N /\ ~(j + 1 <= j) /\ j + 1 - 1 = j
    BY <1>1, <2>3
  <2>5. Same(j + 1)
    BY <2>2, <2>4
  <2>6. Same(j)
    BY <1>3, <2>4, <2>5
  <2> QED
    BY <2>6
<1>5. i \in i .. N
  BY <1>1 DEF N
<1>6. Same(i)
  BY <1>4, <1>5
<1> QED
  BY <1>6 DEF Same, N

(* The requests leave alone what an entity is at the block that the        *)
(* database is asked about.                                                *)
LEMMA LookForward ==
  ASSUME TypeOK, NEW D, Chain(D, queue), NEW k, NEW i \in 1 .. Len(queue),
         ~Answers(k, i)
  PROVE  ValueAt(D[i].table, k, QueryBlock) = ValueAt(D[i - 1].table, k, QueryBlock)
<1>1. i - 1 \in 0 .. Len(queue) /\ i \in 0 .. Len(queue)
  OBVIOUS
<1>2. /\ UpTo(D[i - 1]) /\ Suits(D[i - 1], queue[i])
      /\ D[i] = Outcome(D[i - 1], queue[i])
  BY <1>1 DEF Chain
<1>3. /\ QueryBlock \in 0 .. BlockNumberMax /\ queue[i].block \in Nat
      /\ D[i - 1].ptr \in Nat
      /\ IsRevert(queue[i]) => QueryBlock <= queue[i].block
  BY <1>2, QueryBlockIsLowest, RequestFields DEF UpTo, TableUpTo, Blocks
<1>4. CASE IsRevert(queue[i])
  <2>1. /\ D[i].table = RevertBlock(D[i - 1].table, queue[i].block + 1)
        /\ queue[i].block <= D[i - 1].ptr
    BY <1>2, <1>3, <1>4 DEF Outcome, Suits
  <2>2. ValueAt(D[i].table, k, QueryBlock)
        = ValueAt(D[i - 1].table, k, IF QueryBlock <= queue[i].block
                                     THEN QueryBlock ELSE queue[i].block)
    BY <1>2, <1>3, <2>1, RevertGoesBack DEF UpTo
  <2> QED
    BY <1>3, <1>4, <2>2
<1>5. CASE ~IsRevert(queue[i])
  <2>1. /\ D[i].table = ApplyModifications(D[i - 1].table, queue[i].rows)
        /\ BatchUpTo(D[i - 1].table, D[i - 1].ptr, queue[i].rows, queue[i].block)
        /\ queue[i].rows \subseteq Rows
    BY <1>2, <1>5, RequestFields DEF Outcome, Suits
  <2>2. \A p \in queue[i].rows : p.key = k => QueryBlock < p.block
    <3>1. \A p \in queue[i].rows : p.key = k => RevertAfter(i) < p.block
      BY <1>5, NoAnswer
    <3>2. QueryBlock <= RevertAfter(i) /\ RevertAfter(i) \in Nat
      BY <1>1, QueryBlockIsBefore, RevertAfterIsLowest
    <3>3. \A p \in queue[i].rows : p.block \in Nat
      BY <2>1, RowFields
    <3> QED
      BY <1>3, <3>1, <3>2, <3>3
  <2> QED
    BY <1>2, <1>3, <2>1, <2>2, BatchLeavesThePast DEF UpTo
<1> QED
  BY <1>4, <1>5

LEMMA LookForwardAll ==
  ASSUME TypeOK, NEW D, Chain(D, queue), NEW k, ~InQueue(k),
         NEW i \in 0 .. Len(queue)
  PROVE  ValueAt(D[i].table, k, QueryBlock) = ValueAt(D[0].table, k, QueryBlock)
<1> DEFINE N == Len(queue)
           Same(j) == ValueAt(D[j].table, k, QueryBlock)
                        = ValueAt(D[0].table, k, QueryBlock)
           Differ == {j \in 0 .. N : ~Same(j)}
<1>1. N \in Nat
  BY DEF TypeOK
<1> HIDE DEF N
<1>2. ASSUME NEW j \in 1 .. N, Same(j - 1)
      PROVE  Same(j)
  BY <1>2, LookForward DEF InQueue, N
<1>3. Same(0)
  OBVIOUS
<1> HIDE DEF Same
<1>4. Differ = {}
  <2> SUFFICES ASSUME Differ # {} PROVE FALSE
    OBVIOUS
  <2>1. Differ \in SUBSET Nat
    BY <1>1
  <2>2. PICK j \in Differ : \A m \in Differ : j <= m
    BY <2>1, LeastExists
  <2>3. j # 0 /\ j \in 0 .. N
    BY <1>3
  <2>4. j \in 1 .. N /\ j - 1 \in 0 .. N /\ ~(j <= j - 1)
    BY <1>1, <2>3
  <2>5. Same(j - 1)
    BY <2>2, <2>4
  <2>6. Same(j)
    BY <1>2, <2>4, <2>5
  <2> QED
    BY <2>6
<1> QED
  BY <1>4 DEF Same, N

(* Nothing changes between the two: a batch that ends before the block     *)
(* that the queue goes back to begins after the database's.                *)
LEMMA NothingBetween ==
  ASSUME TypeOK, NEW D, Chain(D, queue), NEW k
  PROVE  ValueAt(D[0].table, k, QueryBlock) = ValueAt(D[0].table, k, RevertAfter(0))
<1>1. 0 \in 0 .. Len(queue) /\ Len(queue) \in Nat
  BY DEF TypeOK
<1>2. /\ QueryBlock \in 0 .. BlockNumberMax /\ RevertAfter(0) \in 0 .. BlockNumberMax
      /\ QueryBlock <= RevertAfter(0) /\ UpTo(D[0]) /\ D[0].ptr \in Nat
  BY <1>1, QueryBlockIsLowest, QueryBlockIsBefore, RevertAfterIsLowest, SMTT(30)
  DEF Chain, UpTo, TableUpTo, Blocks
<1>3. CASE QueryBlock = RevertAfter(0)
  BY <1>3
<1>4. CASE QueryBlock # RevertAfter(0)
  <2>1. \A j \in 1 .. Len(queue) : IsRevert(queue[j]) => QueryBlock < queue[j].block
    <3>1. \A j \in 0 + 1 .. Len(queue) :
            IsRevert(queue[j]) => RevertAfter(0) <= queue[j].block
      BY <1>1, RevertAfterIsLowest
    <3>2. \A j \in 1 .. Len(queue) : j \in 0 + 1 .. Len(queue) /\ queue[j].block \in Nat
      BY RequestFields
    <3> QED
      BY <1>2, <1>4, <3>1, <3>2
  <2>2. PICK e \in 1 .. Len(queue) :
          ~IsRevert(queue[e]) /\ QueryBlock = queue[e].block - 1
    <3>1. \/ QueryBlock = BlockNumberMax
          \/ \E i \in 1 .. Len(queue) :
               QueryBlock = IF IsRevert(queue[i]) THEN queue[i].block
                            ELSE queue[i].block - 1
      BY QueryBlockIsLowest
    <3> QED
      BY <1>2, <1>4, <2>1, <3>1
  <2> DEFINE x == queue[e].block
             Before == {m \in 0 .. Len(queue) : D[m].ptr < x}
  <2>3. x \in Nat /\ QueryBlock = x - 1
    BY <2>2, RequestFields
  <2>4. \A m \in 0 .. Len(queue) : D[m].ptr \in Nat
    BY DEF Chain, UpTo, TableUpTo, Blocks
  <2> HIDE DEF x
  <2>5. e - 1 \in Before
    <3>1. e - 1 \in 0 .. Len(queue)
      BY <1>1
    <3>2. /\ D[e - 1].ptr < queue[e].first /\ queue[e].first <= x
          /\ queue[e].first \in Nat
      BY <2>2, RequestFields DEF Chain, Suits, x
    <3> QED
      BY <2>3, <2>4, <3>1, <3>2
  <2>6. PICK m \in Before : \A l \in Before : m <= l
    <3>1. Before \in SUBSET Nat /\ Before # {}
      BY <2>5
    <3> QED
      BY <3>1, LeastExists
  <2>7. m = 0
    <3> SUFFICES ASSUME m # 0 PROVE FALSE
      OBVIOUS
    <3>1. /\ m \in 1 .. Len(queue) /\ m - 1 \in 0 .. Len(queue) /\ ~(m <= m - 1)
      BY <1>1
    <3>2. D[m - 1].ptr \in Nat /\ ~(D[m - 1].ptr < x) /\ D[m].ptr < x
      BY <2>4, <2>6, <3>1
    <3>3. /\ Suits(D[m - 1], queue[m]) /\ D[m] = Outcome(D[m - 1], queue[m])
          /\ D[m].ptr = queue[m].block /\ queue[m].block \in Nat
      BY <3>1, RequestFields DEF Chain, Outcome
    <3>4. CASE IsRevert(queue[m])
      <4>1. QueryBlock < queue[m].block
        BY <2>1, <3>1, <3>4
      <4> QED
        BY <1>2, <2>3, <3>2, <3>3, <4>1
    <3>5. CASE ~IsRevert(queue[m])
      <4>1. /\ D[m - 1].ptr < queue[m].first /\ queue[m].first <= queue[m].block
            /\ queue[m].first \in Nat
        BY <3>1, <3>3, <3>5, RequestFields DEF Suits
      <4> QED
        BY <2>3, <3>2, <3>3, <4>1
    <3> QED
      BY <3>4, <3>5
  <2>8. D[0].ptr <= QueryBlock
    BY <1>2, <2>3, <2>7
  <2>9. D[0].ptr <= RevertAfter(0)
    BY <1>2, <2>8
  <2> QED
    BY <1>2, <2>8, <2>9, ValueLater DEF UpTo
<1> QED
  BY <1>3, <1>4

(* A query sees an entity as it will be once the whole queue has been      *)
(* written, whether the queue or the database answers it, and also while   *)
(* the oldest request has been executed and not been removed yet           *)
(* (BlockTracker, Queue::get).                                             *)
LEMMA QueueIsLookedThrough ==
  ASSUME TypeOK, NEW D, Chain(D, queue), NEW k, InQueue(k)
  PROVE  FromQueue(k) = ValueAt(D[Len(queue)].table, k, BlockNumberMax)
<1> DEFINE Newest(i) == Answers(k, i) /\ \A j \in i + 1 .. Len(queue) : ~Answers(k, j)
           T == {i \in 1 .. Len(queue) : Answers(k, i)}
<1>1. Len(queue) \in Nat
  BY DEF TypeOK
<1>2. \E i \in 1 .. Len(queue) : Newest(i)
  <2>1. T \in SUBSET Nat /\ T # {} /\ \A i \in T : i <= Len(queue)
    BY <1>1 DEF InQueue
  <2>2. PICK i \in T : \A j \in T : j <= i
    BY <1>1, <2>1, GreatestExists
  <2>3. \A j \in i + 1 .. Len(queue) : j \in 1 .. Len(queue) /\ ~(j <= i)
    BY <1>1
  <2> QED
    BY <2>2, <2>3
<1>3. PICK i \in 1 .. Len(queue) :
        Newest(i) /\ FromQueue(k) = LastOp(queue[i].rows, k, RevertAfter(i))
  BY <1>2 DEF FromQueue
<1>4. i - 1 \in 0 .. Len(queue) /\ i \in 0 .. Len(queue)
  BY <1>1
<1>5. /\ ~IsRevert(queue[i]) /\ HasOp(queue[i].rows, k, RevertAfter(i))
      /\ RevertAfter(i) \in 0 .. BlockNumberMax
  BY <1>3, <1>4, RevertAfterIsLowest DEF Answers
<1>6. /\ UpTo(D[i - 1])
      /\ D[i].table = ApplyModifications(D[i - 1].table, queue[i].rows)
      /\ BatchUpTo(D[i - 1].table, D[i - 1].ptr, queue[i].rows, queue[i].block)
  <2>1. /\ UpTo(D[i - 1]) /\ Suits(D[i - 1], queue[i])
        /\ D[i] = Outcome(D[i - 1], queue[i])
    BY <1>4 DEF Chain
  <2> QED
    BY <1>5, <2>1 DEF Suits, Outcome
<1>7. ValueAt(D[i].table, k, RevertAfter(i)) = LastOp(queue[i].rows, k, RevertAfter(i))
  BY <1>5, <1>6, BatchIsLookedThrough DEF UpTo
<1>8. ValueAt(D[Len(queue)].table, k, BlockNumberMax)
      = ValueAt(D[i].table, k, RevertAfter(i))
  <2>1. \A j \in i + 1 .. Len(queue) : ~Answers(k, j)
    BY <1>3
  <2> QED
    BY <1>4, <2>1, LookBackAll
<1> QED
  BY <1>3, <1>7, <1>8

LEMMA DatabaseIsAsked ==
  ASSUME TypeOK, NEW D, Chain(D, queue), NEW k, ~InQueue(k),
         NEW i \in 0 .. Len(queue)
  PROVE  ValueAt(D[i].table, k, QueryBlock)
           = ValueAt(D[Len(queue)].table, k, BlockNumberMax)
<1>1. 0 \in 0 .. Len(queue) /\ \A j \in 0 + 1 .. Len(queue) : j \in 1 .. Len(queue)
  BY DEF TypeOK
<1>2. ValueAt(D[Len(queue)].table, k, BlockNumberMax)
      = ValueAt(D[0].table, k, RevertAfter(0))
  BY <1>1, LookBackAll DEF InQueue
<1> QED
  BY <1>2, NothingBetween, LookForwardAll
-----------------------------------------------------------------------------
(* Requests are added, executed and removed.                               *)
LEMMA ChainStarts ==
  ASSUME NEW d, UpTo(d)
  PROVE  \E D : Chain(D, <<>>) /\ D[0] = d
<1> DEFINE D == [i \in Nat |-> d]
<1>1. Len(<<>>) = 0 /\ D[0] = d
  OBVIOUS
<1>2. \A i \in 0 .. Len(<<>>) : D[i] = d
  OBVIOUS
<1> HIDE DEF D
<1>3. Chain(D, <<>>)
  BY <1>1, <1>2 DEF Chain
<1> QED
  BY <1>1, <1>3

LEMMA ChainAppended ==
  ASSUME NEW S, NEW reqs \in Seq(S), NEW req \in S,
         NEW D, Chain(D, reqs), Suits(D[Len(reqs)], req), req.block \in Nat
  PROVE  \E E : /\ Chain(E, Append(reqs, req))
                /\ \A i \in 0 .. Len(reqs) : E[i] = D[i]
                /\ E[Len(reqs) + 1] = Outcome(D[Len(reqs)], req)
<1> DEFINE n == Len(reqs)
           longer == Append(reqs, req)
           E == [i \in Nat |-> IF i = n + 1 THEN Outcome(D[n], req) ELSE D[i]]
<1>1. /\ n \in Nat /\ Len(longer) = n + 1 /\ longer[n + 1] = req
      /\ \A i \in 1 .. n : longer[i] = reqs[i]
  OBVIOUS
<1>2. /\ \A i \in 0 .. n : E[i] = D[i]
      /\ E[n + 1] = Outcome(D[n], req)
  BY <1>1
<1> HIDE DEF E, longer
<1>3. UpTo(D[n]) /\ UpTo(Outcome(D[n], req))
  BY <1>1, OutcomeUpTo DEF Chain
<1>4. \A i \in 0 .. n + 1 : UpTo(E[i])
  <2>1. \A i \in 0 .. n + 1 : i \in 0 .. n \/ i = n + 1
    BY <1>1
  <2> QED
    BY <1>2, <1>3, <2>1 DEF Chain
<1>5. ASSUME NEW i \in 1 .. n + 1
      PROVE  Suits(E[i - 1], longer[i]) /\ E[i] = Outcome(E[i - 1], longer[i])
  <2>1. CASE i = n + 1
    <3>1. i - 1 = n /\ n \in 0 .. n
      BY <1>1, <2>1
    <3> QED
      BY <1>1, <1>2, <2>1, <3>1
  <2>2. CASE i # n + 1
    <3>1. i \in 1 .. n /\ i \in 0 .. n /\ i - 1 \in 0 .. n
      BY <1>1, <2>2
    <3> QED
      BY <1>1, <1>2, <3>1 DEF Chain
  <2> QED
    BY <2>1, <2>2
<1>6. Chain(E, longer)
  BY <1>1, <1>4, <1>5 DEF Chain
<1> QED
  BY <1>2, <1>6 DEF longer

LEMMA ChainGrown ==
  ASSUME NEW S, NEW reqs \in Seq(S), reqs # <<>>, NEW req \in S,
         NEW D, Chain(D, reqs), Suits(D[Len(reqs) - 1], req), req.block \in Nat
  PROVE  \E E : /\ Chain(E, [reqs EXCEPT ![Len(reqs)] = req])
                /\ \A i \in 0 .. Len(reqs) - 1 : E[i] = D[i]
                /\ E[Len(reqs)] = Outcome(D[Len(reqs) - 1], req)
<1> DEFINE n == Len(reqs)
           grown == [reqs EXCEPT ![n] = req]
           E == [i \in Nat |-> IF i = n THEN Outcome(D[n - 1], req) ELSE D[i]]
<1>1. /\ n \in Nat /\ n - 1 \in Nat /\ Len(grown) = n /\ grown[n] = req
      /\ \A i \in 1 .. n - 1 : grown[i] = reqs[i]
  OBVIOUS
<1>2. /\ \A i \in 0 .. n - 1 : E[i] = D[i]
      /\ E[n] = Outcome(D[n - 1], req)
  <2>1. n \in Nat
    BY <1>1
  <2> HIDE DEF n
  <2>2. \A i \in 0 .. n - 1 : i \in Nat /\ i # n
    BY <2>1
  <2> QED
    BY <1>1, <2>2, SMTT(30)
<1> HIDE DEF E, grown
<1>3. UpTo(Outcome(D[n - 1], req))
  <2>1. n - 1 \in 0 .. n
    BY <1>1
  <2> QED
    BY <2>1, OutcomeUpTo DEF Chain
<1>4. \A i \in 0 .. n : UpTo(E[i])
  <2>1. \A i \in 0 .. n : i \in 0 .. n - 1 \/ i = n
    BY <1>1
  <2> QED
    BY <1>2, <1>3, <2>1 DEF Chain
<1>5. ASSUME NEW i \in 1 .. n
      PROVE  Suits(E[i - 1], grown[i]) /\ E[i] = Outcome(E[i - 1], grown[i])
  <2>1. CASE i = n
    <3>1. i - 1 \in 0 .. n - 1
      BY <1>1, <2>1
    <3> QED
      BY <1>1, <1>2, <2>1, <3>1
  <2>2. CASE i # n
    <3>1. i \in 1 .. n - 1 /\ i \in 0 .. n - 1 /\ i - 1 \in 0 .. n - 1
      BY <1>1, <2>2
    <3> QED
      BY <1>1, <1>2, <3>1 DEF Chain
  <2> QED
    BY <2>1, <2>2
<1>6. Chain(E, grown)
  BY <1>1, <1>4, <1>5 DEF Chain
<1> QED
  BY <1>2, <1>6 DEF grown

LEMMA ChainShortened ==
  ASSUME NEW S, NEW reqs \in Seq(S), reqs # <<>>, NEW D, Chain(D, reqs)
  PROVE  \E E : /\ Chain(E, Tail(reqs))
                /\ \A i \in 0 .. Len(reqs) - 1 : E[i] = D[i + 1]
<1> DEFINE n == Len(reqs)
           rest == Tail(reqs)
           E == [i \in Nat |-> D[i + 1]]
<1>1. /\ n \in Nat /\ n - 1 \in Nat /\ Len(rest) = n - 1
      /\ \A i \in 1 .. n - 1 : rest[i] = reqs[i + 1]
  OBVIOUS
<1>2. \A i \in 0 .. n - 1 : E[i] = D[i + 1]
  BY <1>1
<1> HIDE DEF E, rest
<1>3. \A i \in 0 .. n - 1 : UpTo(E[i])
  <2>1. \A i \in 0 .. n - 1 : i + 1 \in 0 .. n
    BY <1>1
  <2> QED
    BY <1>2, <2>1 DEF Chain
<1>4. ASSUME NEW i \in 1 .. n - 1
      PROVE  Suits(E[i - 1], rest[i]) /\ E[i] = Outcome(E[i - 1], rest[i])
  <2>1. /\ i + 1 \in 1 .. n /\ i - 1 \in 0 .. n - 1 /\ i \in 0 .. n - 1
        /\ i - 1 + 1 = i /\ i + 1 - 1 = i
    BY <1>1
  <2>2. Suits(D[i], reqs[i + 1]) /\ D[i + 1] = Outcome(D[i], reqs[i + 1])
    BY <2>1 DEF Chain
  <2> QED
    BY <1>1, <1>2, <2>1, <2>2
<1>5. Chain(E, rest)
  BY <1>1, <1>3, <1>4 DEF Chain
<1> QED
  BY <1>2, <1>5 DEF rest

(* That the writer has begun with it changes nothing about a request.      *)
LEMMA Marked ==
  ASSUME TypeOK, queue # <<>>, NEW marked,
         marked = [queue EXCEPT ![1].processed = TRUE]
  PROVE  /\ Len(marked) = Len(queue)
         /\ \A i \in 1 .. Len(queue) :
              /\ IsRevert(marked[i]) <=> IsRevert(queue[i])
              /\ ~IsRevert(queue[i]) => marked[i].rows = queue[i].rows
              /\ \A d : /\ Suits(d, marked[i]) <=> Suits(d, queue[i])
                        /\ Outcome(d, marked[i]) = Outcome(d, queue[i])
<1> DEFINE n == Len(queue)
           first == [queue[1] EXCEPT !.processed = TRUE]
<1>1. n \in Nat /\ 1 \in 1 .. n /\ Len(marked) = n /\ marked[1] = first
      /\ \A i \in 1 .. n : i # 1 => marked[i] = queue[i]
  <2>0. marked = [queue EXCEPT ![1] = first]
    OBVIOUS
  <2>1. queue \in Seq(Writes \cup Reverts) /\ 1 \in 1 .. Len(queue)
    BY DEF TypeOK
  <2>2. queue[1] \in Writes \cup Reverts
    BY <2>1
  <2>3. first \in Writes \cup Reverts
    BY <2>2 DEF Writes, Reverts
  <2> HIDE DEF first
  <2> QED
    BY <2>0, <2>1, <2>3
<1>2. /\ IsRevert(first) <=> IsRevert(queue[1])
      /\ first.block = queue[1].block
      /\ ~IsRevert(queue[1]) => /\ first.rows = queue[1].rows
                                /\ first.first = queue[1].first
  <2>1. queue[1] \in Writes \cup Reverts
    BY <1>1 DEF TypeOK
  <2>2. CASE queue[1] \in Writes
    BY <2>2 DEF Writes, IsRevert
  <2>3. CASE queue[1] \in Reverts
    BY <2>3 DEF Reverts, IsRevert
  <2> QED
    BY <2>1, <2>2, <2>3
<1> HIDE DEF first
<1>3. \A d : /\ Suits(d, first) <=> Suits(d, queue[1])
             /\ Outcome(d, first) = Outcome(d, queue[1])
  BY <1>2 DEF Suits, Outcome
<1> QED
  BY <1>1, <1>2, <1>3

LEMMA ChainMarked ==
  ASSUME TypeOK, queue # <<>>, NEW D, Chain(D, queue)
  PROVE  Chain(D, [queue EXCEPT ![1].processed = TRUE])
<1>1. PICK marked : marked = [queue EXCEPT ![1].processed = TRUE]
  OBVIOUS
<1>2. /\ Len(marked) = Len(queue)
      /\ \A i \in 1 .. Len(queue) :
           \A d : /\ Suits(d, marked[i]) <=> Suits(d, queue[i])
                  /\ Outcome(d, marked[i]) = Outcome(d, queue[i])
  BY <1>1, Marked
<1>3. Chain(D, marked)
  BY <1>2 DEF Chain
<1> QED
  BY <1>1, <1>3
-----------------------------------------------------------------------------
(* The inductive invariant: a table whose versions are disjoint, and while *)
(* the writer has not failed, requests that lead through such tables.  The *)
(* runner's write was made for the last of them, but for the immutable     *)
(* entities it takes to be new, and a query that is about to ask the       *)
(* database gets from each of them what the last one has.                  *)
(*                                                                         *)
(* Once an immutable entity has been set again, the requests lead only as  *)
(* far as the m-th: the table refuses the next, and what is behind it      *)
(* never matters.                                                          *)
Done == IF writer = "pop" THEN 1 ELSE 0

Asks(D) ==
  /\ call.kind = "write" =>
       /\ call.rows = Modifications(
            TakenAsNew([k \in Keys |-> ValueAt(D[Len(queue)].table, k, BlockNumberMax)],
                       call.new),
            call.wants, call.block)
       /\ OnlyInserts(call.rows)
       /\ \A k \in call.new : call.wants[k] # Absent
  /\ At({"get"}, "db") =>
       \A i \in Done .. Len(queue) :
         ValueAt(D[i].table, call.key, call.at)
           = ValueAt(D[Len(queue)].table, call.key, BlockNumberMax)

Leads(D) == Chain(D, queue) /\ db = D[Done] /\ Asks(D)

Again(D) ==
  \E k \in call.new : ValueAt(D[Len(queue)].table, k, BlockNumberMax) # Absent

Stuck(D, m) ==
  /\ m \in Done .. Len(queue) - 1 /\ db = D[Done]
  /\ \A i \in 0 .. m : UpTo(D[i])
  /\ \A i \in 1 .. m :
       Suits(D[i - 1], queue[i]) /\ D[i] = Outcome(D[i - 1], queue[i])
  /\ ~IsRevert(queue[m + 1]) /\ Duplicates(D[m].table, queue[m + 1].rows)

Sure   == UpTo(db) /\ (~Broken => \E D : Leads(D))
Unsure == UpTo(db) /\ ~Broken /\ \E D, m : Stuck(D, m)
TableInv == Sure \/ Unsure

LEMMA SeenIsLast ==
  ASSUME TypeOK, ~Broken, NEW D, Leads(D), NEW k
  PROVE  Seen(k) = ValueAt(D[Len(queue)].table, k, BlockNumberMax)
<1>1. Done \in 0 .. Len(queue)
  BY DEF Done, TypeOK
<1>2. CASE InQueue(k)
  BY <1>2, QueueIsLookedThrough DEF Leads, Seen
<1>3. CASE ~InQueue(k)
  BY <1>1, <1>3, DatabaseIsAsked DEF Leads, Seen
<1> QED
  BY <1>2, <1>3

LEMMA LastPointer ==
  ASSUME TypeOK, ~Broken, NEW D, Leads(D)
  PROVE  /\ LastBlockOf(Pending, db.ptr) = D[Len(queue)].ptr
         /\ UpTo(D[Len(queue)]) /\ D[Len(queue)].ptr \in Nat
<1>1. Len(queue) \in 0 .. Len(queue) /\ Len(queue) \in Nat
  BY DEF TypeOK
<1>2. UpTo(D[Len(queue)]) /\ D[Len(queue)].ptr \in Nat
  BY <1>1 DEF Leads, Chain, UpTo, TableUpTo, Blocks
<1>3. CASE Pending = <<>>
  <2>1. Done = Len(queue)
    BY <1>3, PendingType DEF Done
  <2> QED
    BY <1>2, <1>3, <2>1 DEF Leads, LastBlockOf
<1>4. CASE Pending # <<>>
  <2>1. /\ Len(queue) \in 1 .. Len(queue)
        /\ Pending[Len(Pending)] = queue[Len(queue)]
    <3>1. CASE writer = "pop"
      <4>1. /\ Len(Pending) = Len(queue) - 1 /\ Pending \in Seq(Requests)
            /\ \A i \in 1 .. Len(Pending) : Pending[i] = queue[i + 1]
        BY <3>1, PendingType
      <4>2. Len(Pending) \in 1 .. Len(Pending) /\ Len(Pending) + 1 = Len(queue)
        BY <1>1, <1>4, <4>1
      <4> QED
        BY <1>1, <4>1, <4>2
    <3>2. CASE writer # "pop"
      BY <1>4, <3>2, PendingType
    <3> QED
      BY <3>1, <3>2
  <2>2. D[Len(queue)].ptr = queue[Len(queue)].block
    <3>1. D[Len(queue)] = Outcome(D[Len(queue) - 1], queue[Len(queue)])
      BY <2>1 DEF Leads, Chain
    <3> QED
      BY <3>1 DEF Outcome
  <2> QED
    BY <1>2, <1>4, <2>1, <2>2 DEF LastBlockOf
<1> QED
  BY <1>3, <1>4

(* The runner's write was made for the table that it will be written to.   *)
LEMMA CallChanges ==
  ASSUME TypeOK, OrderInv, ~Broken, NEW D, Leads(D), call.kind = "write", ~Again(D)
  PROVE  /\ ChangesAt(D[Len(queue)].table, call.rows, call.block)
         /\ D[Len(queue)].ptr < call.block /\ call.block \in Blocks
<1>1. call.block \in Blocks /\ call.wants \in [Keys -> Vals \cup {Absent}]
  BY DEF TypeOK, Calls, NoCall, At
<1>2. D[Len(queue)].ptr < call.block /\ UpTo(D[Len(queue)])
  BY LastPointer DEF OrderInv, CallFits
<1> DEFINE last == D[Len(queue)].table
           saw == [k \in Keys |-> ValueAt(last, k, BlockNumberMax)]
<1>3. saw \in [Keys -> Vals \cup {Absent}]
  BY <1>2, ValueType DEF UpTo
<1>4. \A k \in Keys : saw[k] # Absent <=> HasCurrent(last, k)
  BY <1>2, CurrentIsFound DEF UpTo
<1>5. call.rows = Modifications(TakenAsNew(saw, call.new), call.wants, call.block)
  BY DEF Leads, Asks
<1>6. /\ saw = [k \in Keys |-> saw[k]]
      /\ \A k \in Keys \cap call.new : saw[k] = Absent
  BY DEF Again
<1> HIDE DEF saw
<1>7. TakenAsNew(saw, call.new) = saw
  BY <1>6, TakenRightly
<1> QED
  BY <1>1, <1>2, <1>3, <1>4, <1>5, <1>7, ModificationsAreOfABlock

(* A write that sets an immutable entity again: it inserts it once more,   *)
(* and changes the other entities as it should.                            *)
LEMMA CallSetsAgain ==
  ASSUME TypeOK, OrderInv, ~Broken, NEW D, Leads(D), call.kind = "write", Again(D)
  PROVE  /\ \E r \in call.rows :
              /\ r.key \in Immutable /\ r.op = "insert"
              /\ HasCurrent(D[Len(queue)].table, r.key)
         /\ \E plain : /\ ChangesAt(D[Len(queue)].table, plain, call.block)
                       /\ \A r \in call.rows : r.key \in Immutable \/ r \in plain
         /\ \A r \in call.rows : r.block = call.block
         /\ D[Len(queue)].ptr < call.block /\ call.block \in Blocks
<1>1. /\ call.block \in Blocks /\ call.wants \in [Keys -> Vals \cup {Absent}]
      /\ call.new \in SUBSET Immutable
  BY DEF TypeOK, Calls, NoCall, At
<1>2. D[Len(queue)].ptr < call.block /\ UpTo(D[Len(queue)])
  BY LastPointer DEF OrderInv, CallFits
<1> DEFINE last == D[Len(queue)].table
           saw == [k \in Keys |-> ValueAt(last, k, BlockNumberMax)]
<1>3. saw \in [Keys -> Vals \cup {Absent}]
  BY <1>2, ValueType DEF UpTo
<1>4. \A k \in Keys : saw[k] # Absent <=> HasCurrent(last, k)
  BY <1>2, CurrentIsFound DEF UpTo
<1>5. /\ call.rows = Modifications(TakenAsNew(saw, call.new), call.wants, call.block)
      /\ \A k \in call.new : call.wants[k] # Absent
  BY DEF Leads, Asks
<1>6. PICK k \in call.new : k \in Keys /\ saw[k] # Absent
  BY <1>1, ImmutableAssumption DEF Again
<1> HIDE DEF saw, last
<1>7. Row(k, "insert", call.wants[k], call.block) \in call.rows
  <2>1. TakenAsNew(saw, call.new)[k] = Absent
    BY <1>6 DEF TakenAsNew
  <2>2. Modification(k, TakenAsNew(saw, call.new)[k], call.wants[k], call.block)
        = {Row(k, "insert", call.wants[k], call.block)}
    BY <1>5, <2>1 DEF Modification
  <2> QED
    BY <1>5, <1>6, <2>2 DEF Modifications
<1>8. \E r \in call.rows : /\ r.key \in Immutable /\ r.op = "insert"
                           /\ HasCurrent(last, r.key)
  BY <1>1, <1>4, <1>6, <1>7 DEF Row
<1>9. ChangesAt(last, Modifications(saw, call.wants, call.block), call.block)
  BY <1>1, <1>3, <1>4, ModificationsAreOfABlock
<1>10. \A r \in call.rows :
         r.key \in Immutable \/ r \in Modifications(saw, call.wants, call.block)
  BY <1>1, <1>5, OthersAreTheSame
<1>11. \A r \in call.rows : r.block = call.block
  BY <1>5 DEF Modifications, Modification, Row
<1> QED
  BY <1>1, <1>2, <1>8, <1>9, <1>10, <1>11 DEF last

(* Calls that leave the queue alone; the tables stay what they are.        *)
LEMMA CallsLead ==
  ASSUME TypeOK, OrderInv, ~Broken, NEW D, Leads(D),
         \/ SubmitWrite \/ RejectWrite \/ SubmitRevert \/ SubmitFlush \/ SubmitGet
         \/ CallRefused \/ Push \/ WaitEmpty \/ Flushed
         \/ GetFromQueue \/ GetFromDatabase
  PROVE  Leads(D)' /\ UNCHANGED <<db, queue, writer>>
<1>1. UNCHANGED <<db, queue, writer>>
  BY DEF SubmitWrite, RejectWrite, SubmitRevert, SubmitFlush, SubmitGet, Begin, CallRefused,
         Push, CheckErr, WaitEmpty, Flushed, GetFromQueue, GetFromDatabase, queueVars
<1>2. ASSUME Asks(D)'
      PROVE  Leads(D)' /\ UNCHANGED <<db, queue, writer>>
  BY <1>1, <1>2 DEF Leads, Done
<1>3. ~Refused
  BY DEF OrderInv, Refused
<1>4. CASE SubmitWrite
  <2>1. PICK n \in ptr + 1 .. LastBlock, wants \in [Keys -> Vals \cup {Absent}],
             new \in SUBSET Immutable :
          /\ \A k \in new : wants[k] # Absent
          /\ OnlyInserts(WriteCall(n, wants, new).rows)
          /\ call' = WriteCall(n, wants, new)
    BY <1>3, <1>4, WriteSubmitted DEF Begin
  <2>2. [k \in Keys |-> Seen(k)]
        = [k \in Keys |-> ValueAt(D[Len(queue)].table, k, BlockNumberMax)]
    BY SeenIsLast
  <2>3. /\ call'.kind = "write" /\ call'.wants = wants /\ call'.new = new
        /\ call'.block = n
    BY <2>1 DEF WriteCall
  <2>4. call'.rows = Modifications(
          TakenAsNew([k \in Keys |-> ValueAt(D[Len(queue)].table, k, BlockNumberMax)],
                     new), wants, n)
    BY <2>1, <2>2 DEF WriteCall
  <2>5. OnlyInserts(call'.rows)
    BY <2>1
  <2>6. Asks(D)'
    BY <1>1, <2>1, <2>3, <2>4, <2>5 DEF Asks, At
  <2> QED
    BY <1>2, <2>6
<1>5. CASE SubmitRevert \/ SubmitFlush \/ SubmitGet
  <2>1. call'.kind # "write" /\ ~At({"get"}, "db")'
    BY <1>3, <1>5 DEF SubmitRevert, SubmitFlush, SubmitGet, Begin, At
  <2> QED
    BY <1>2, <2>1 DEF Asks
<1>6. CASE \/ CallRefused \/ Flushed \/ GetFromDatabase
           \/ (Push /\ call' = NoCall) \/ RejectWrite
  <2>1. call' = NoCall
    BY <1>6 DEF CallRefused, Flushed, CheckErr, GetFromDatabase, Return,
                RejectWrite, Idle
  <2> QED
    BY <1>2, <2>1 DEF Asks, At, NoCall
<1>7. CASE Push /\ call' # NoCall
  <2>1. /\ call' = [call EXCEPT !.pc = "room"] /\ call.kind \in {"write", "revert"}
        /\ call \in Calls
    BY <1>3, <1>7 DEF Push, CheckErr, GoOn, At, TypeOK
  <2>2. /\ call'.kind = call.kind
        /\ call.kind = "write" => /\ call'.rows = call.rows
                                  /\ call'.wants = call.wants
                                  /\ call'.new = call.new
                                  /\ call'.block = call.block
    BY <2>1 DEF Calls, NoCall
  <2>3. Asks(D)'
    BY <1>1, <2>1, <2>2 DEF Leads, Asks, At
  <2> QED
    BY <1>2, <2>3
<1>8. CASE WaitEmpty
  <2>1. call' = [call EXCEPT !.pc = "done"] /\ call.kind = "flush" /\ call \in Calls
    BY <1>8 DEF WaitEmpty, GoOn, At, TypeOK
  <2>2. call'.kind = "flush"
    BY <2>1 DEF Calls, NoCall
  <2> QED
    BY <1>2, <2>2 DEF Asks, At
<1>9. CASE GetFromQueue
  <2>1. CASE InQueue(call.key)
    <3>1. call' = NoCall
      BY <1>9, <2>1 DEF GetFromQueue, Return
    <3> QED
      BY <1>2, <3>1 DEF Asks, At, NoCall
  <2>2. CASE ~InQueue(call.key)
    <3>1. call' = [kind |-> "get", pc |-> "db", key |-> call.key, at |-> QueryBlock]
      BY <1>9, <2>2 DEF GetFromQueue
    <3>2. \A i \in Done .. Len(queue) : i \in 0 .. Len(queue)
      BY DEF Done
    <3>3. \A i \in Done .. Len(queue) :
            ValueAt(D[i].table, call.key, QueryBlock)
              = ValueAt(D[Len(queue)].table, call.key, BlockNumberMax)
      BY <2>2, <3>2, DatabaseIsAsked DEF Leads
    <3>4. Done' = Done
      BY <1>1 DEF Done
    <3>5. Asks(D)'
      BY <1>1, <3>1, <3>3, <3>4 DEF Asks
    <3> QED
      BY <1>2, <3>5
  <2> QED
    BY <2>1, <2>2
<1> QED
  BY <1>1, <1>4, <1>5, <1>6, <1>7, <1>8, <1>9

(* A new request leads on from where the others have led.                  *)
LEMMA EnqueueLeads ==
  ASSUME TypeOK, OrderInv, ~Broken, NEW D, Leads(D), Enqueue,
         call.kind = "write" => ~Again(D)
  PROVE  \E E : /\ Leads(E)'
                /\ \A i \in 0 .. Len(queue) : E[i] = D[i]
                /\ E[Len(queue) + 1] = Outcome(D[Len(queue)], Request)
                /\ Suits(D[Len(queue)], Request)
<1>1. /\ queue' = Append(queue, Request) /\ call' = NoCall
      /\ UNCHANGED <<db, writer>>
      /\ call.kind \in {"write", "revert"}
  BY DEF Enqueue, Return, At
<1>2. /\ call.block \in Nat /\ call.block \in Blocks
      /\ Request.block = call.block /\ Request \in Writes \cup Reverts
  <2>1. call.block \in Blocks /\ (call.kind = "write" => call.rows \in SUBSET Rows)
    BY <1>1 DEF TypeOK, Calls, NoCall, At
  <2> QED
    BY <1>1, <2>1 DEF Request, Writes, Reverts, Blocks
<1>3. Suits(D[Len(queue)], Request)
  <2>1. CASE call.kind = "write"
    <3>1. /\ ChangesAt(D[Len(queue)].table, call.rows, call.block)
          /\ D[Len(queue)].ptr < call.block /\ D[Len(queue)].ptr \in Nat
      BY <2>1, CallChanges, LastPointer
    <3>2. BatchUpTo(D[Len(queue)].table, D[Len(queue)].ptr, call.rows, call.block)
      BY <1>2, <3>1, ChangesMakeABatchUpTo
    <3>3. \A p \in call.rows : call.block <= p.block
      BY <1>2, <3>1 DEF ChangesAt
    <3>4. /\ ~IsRevert(Request) /\ Request.rows = call.rows
          /\ Request.first = call.block
      BY <2>1 DEF Request, IsRevert
    <3>5. Inserted(call.rows)
      BY <2>1, <3>1 DEF Leads, Asks, OnlyInserts, Inserted, ChangesAt, ChangesOf
    <3> QED
      BY <1>2, <3>1, <3>2, <3>3, <3>4, <3>5 DEF Suits
  <2>2. CASE call.kind = "revert"
    <3>1. call.block < D[Len(queue)].ptr
      BY <2>2, LastPointer DEF OrderInv, CallFits
    <3> QED
      BY <1>2, <2>2, <3>1 DEF Suits, Request, IsRevert
  <2> QED
    BY <1>1, <2>1, <2>2
<1>4. queue \in Seq(Writes \cup Reverts) /\ Len(queue) \in Nat
  BY DEF TypeOK
<1>5. PICK E : /\ Chain(E, Append(queue, Request))
               /\ \A i \in 0 .. Len(queue) : E[i] = D[i]
               /\ E[Len(queue) + 1] = Outcome(D[Len(queue)], Request)
  BY <1>2, <1>3, <1>4, ChainAppended DEF Leads
<1>6. Done' = Done /\ Done \in 0 .. Len(queue)
  BY <1>1, <1>4 DEF Done, TypeOK
<1>7. Leads(E)'
  BY <1>1, <1>5, <1>6 DEF Leads, Asks, At, NoCall
<1> QED
  BY <1>3, <1>5, <1>7

LEMMA AppendedBlocks ==
  ASSUME NEW rows \in SUBSET Rows, NEW new \in SUBSET Rows,
         NEW x \in AppendRows(rows, new)
  PROVE  \E q \in rows \cup new : x.block = q.block
<1>1. CASE \E p \in rows : x = Kept(rows, new, p)
  BY <1>1 DEF Kept, Rows
<1>2. CASE \E r \in new : x \in Pushed(rows, r)
  <2>1. PICK r \in new : x \in Pushed(rows, r)
    BY <1>2
  <2> QED
    BY <2>1, PushedRow
<1> QED
  BY <1>1, <1>2 DEF AppendRows

(* A batch that grows leads to where it and the new changes would have led *)
(* one after the other; the database's checks hold of it.                  *)
LEMMA AppendLeads ==
  ASSUME TypeOK, OrderInv, ~Broken, NEW D, Leads(D), AppendToNewest, ~Again(D)
  PROVE  \E E : /\ Leads(E)' /\ Len(queue') = Len(queue) /\ Len(queue) # 0
                /\ \A i \in 0 .. Len(queue) - 1 : E[i] = D[i]
                /\ E[Len(queue)].table
                     = ApplyModifications(D[Len(queue)].table, call.rows)
                /\ E[Len(queue)].ptr = call.block
                /\ Done < Len(queue) /\ reply' = NoReply
<1> DEFINE n == Len(queue)
           newest == queue[n]
           fits == call.block > newest.block /\ Fits(newest.rows, call.rows)
           joined == [newest EXCEPT !.block = call.block,
                                    !.rows = AppendRows(newest.rows, call.rows)]
<1>1. /\ call.kind = "write" /\ call.block \in Blocks /\ call.rows \in SUBSET Rows
  BY DEF AppendToNewest, At, TypeOK, Calls, NoCall
<1>2. /\ n \in 1 .. n /\ n \in Nat /\ n - 1 \in 0 .. n /\ n \in 0 .. n
      /\ newest \in Writes /\ ~newest.processed /\ ~IsRevert(newest)
  BY DEF AppendToNewest, MayAppend, NewestIsWrite, IsRevert, Writes, Reverts, TypeOK
<1>3. /\ newest.block \in Nat /\ newest.first \in Nat /\ newest.rows \subseteq Rows
      /\ call.block \in Nat
  BY <1>1, <1>2 DEF Writes, Blocks
<1>4. /\ UpTo(D[n - 1]) /\ Suits(D[n - 1], newest)
      /\ D[n] = Outcome(D[n - 1], newest)
  BY <1>2 DEF Leads, Chain
<1>5. /\ TableUpTo(D[n - 1].table, D[n - 1].ptr)
      /\ BatchUpTo(D[n - 1].table, D[n - 1].ptr, newest.rows, newest.block)
      /\ Inserted(newest.rows)
      /\ D[n].table = ApplyModifications(D[n - 1].table, newest.rows)
      /\ D[n].ptr = newest.block
      /\ D[n - 1].ptr < newest.first /\ newest.first <= newest.block
      /\ \A p \in newest.rows : newest.first <= p.block
  BY <1>2, <1>4 DEF UpTo, Suits, Outcome
<1> HIDE DEF newest, joined
<1>6. /\ ChangesAt(ApplyModifications(D[n - 1].table, newest.rows), call.rows, call.block)
      /\ newest.block < call.block
  BY <1>1, <1>5, CallChanges
<1>7. /\ D[n - 1].table \subseteq Versions
      /\ BatchFor(D[n - 1].table, newest.rows)
      /\ ChangesOf(ApplyModifications(D[n - 1].table, newest.rows), call.rows)
      /\ \A p \in newest.rows : p.block <= newest.block /\ p.block \in Nat
      /\ \A r \in call.rows : r.block = call.block
  BY <1>3, <1>5, <1>6, RowFields DEF TableUpTo, BatchUpTo, ChangesAt
<1>8. fits
  <2>1. Later(newest.rows, call.rows)
    BY <1>3, <1>6, <1>7 DEF Later
  <2>2. Fits(newest.rows, call.rows)
    BY <1>7, <2>1, AppendNeverFails
  <2> QED
    BY <1>3, <1>6, <2>2
<1>9. /\ queue' = [queue EXCEPT ![n] = joined]
      /\ UNCHANGED <<db, writer>> /\ call' = NoCall /\ reply' = NoReply
  BY <1>8 DEF AppendToNewest, Return, joined, newest
<1>10. /\ joined \in Writes /\ joined.block = call.block
       /\ joined.rows = AppendRows(newest.rows, call.rows)
       /\ joined.first = newest.first /\ ~IsRevert(joined)
  BY <1>1, <1>2, <1>3, AppendRowsType DEF joined, Writes, IsRevert
<1>11. Suits(D[n - 1], joined)
  <2>1. BatchUpTo(D[n - 1].table, D[n - 1].ptr, joined.rows, joined.block)
    BY <1>1, <1>5, <1>6, <1>10, AppendKeepsBatch
  <2>2. joined.first <= joined.block
    BY <1>3, <1>5, <1>6, <1>10
  <2>3. \A p \in joined.rows : joined.first <= p.block
    <3> SUFFICES ASSUME NEW p \in joined.rows PROVE joined.first <= p.block
      OBVIOUS
    <3>1. PICK q \in newest.rows \cup call.rows : p.block = q.block
      BY <1>1, <1>3, <1>10, AppendedBlocks
    <3> QED
      BY <1>3, <1>5, <1>6, <1>7, <1>10, <3>1
  <2>4. Inserted(joined.rows)
    <3>1. OnlyInserts(call.rows) /\ \A r \in call.rows : ~Ended(r)
      BY <1>1, <1>7 DEF Leads, Asks, ChangesOf
    <3> QED
      BY <1>1, <1>3, <1>5, <1>10, <3>1, AppendKeepsInserted
  <2> QED
    BY <1>5, <1>10, <2>1, <2>2, <2>3, <2>4 DEF Suits
<1>12. queue \in Seq(Writes \cup Reverts) /\ queue # <<>>
  BY <1>2, SMTT(30) DEF TypeOK
<1>13. PICK E : /\ Chain(E, [queue EXCEPT ![Len(queue)] = joined])
                /\ \A i \in 0 .. Len(queue) - 1 : E[i] = D[i]
                /\ E[Len(queue)] = Outcome(D[Len(queue) - 1], joined)
  BY <1>3, <1>10, <1>11, <1>12, ChainGrown, SMTT(30) DEF Leads
<1>14. /\ E[n].table = ApplyModifications(D[n].table, call.rows)
       /\ E[n].ptr = call.block
  BY <1>5, <1>7, <1>10, <1>13, AppendIsSequential DEF Outcome
<1>15. Done \in 0 .. n - 1 /\ Done' = Done
  <2>1. writer = "pop" => n > 1
    BY <1>2 DEF TypeOK, newest
  <2> QED
    BY <1>2, <1>9, <2>1 DEF Done
<1>16. Len(queue') = Len(queue)
  BY <1>9, <1>10, <1>12
<1>17. Leads(E)'
  BY <1>9, <1>13, <1>15 DEF Leads, Asks, At, NoCall
<1> QED
  BY <1>2, <1>9, <1>13, <1>14, <1>15, <1>16, <1>17

(* The writer's steps.                                                     *)
LEMMA PeekLeads ==
  ASSUME TypeOK, ~Broken, NEW D, Leads(D), Peek
  PROVE  Leads(D)' /\ Len(queue') = Len(queue) /\ Done' = Done /\ db' = db
<1>1. /\ queue' = [queue EXCEPT ![1].processed = TRUE] /\ queue # <<>>
      /\ UNCHANGED <<db, call>> /\ writer = "peek" /\ writer' = "execute"
  BY DEF Peek
<1>2. Chain(D, queue)'
  BY <1>1, ChainMarked DEF Leads
<1>3. Len(queue') = Len(queue)
  BY <1>1 DEF TypeOK
<1>4. Done = 0 /\ Done' = 0
  BY <1>1 DEF Done
<1> QED
  BY <1>1, <1>2, <1>3, <1>4 DEF Leads, Asks, At

LEMMA ExecuteLeads ==
  ASSUME TypeOK, ~Broken, NEW D, Leads(D), Execute
  PROVE  Leads(D)' /\ UpTo(db') /\ queue' = queue /\ Done = 0 /\ Done' = 1
<1>1. /\ db' = Outcome(db, Oldest) /\ UNCHANGED <<queue, call>>
      /\ writer = "execute" /\ writer' = "pop"
  BY DEF Execute
<1>2. Done = 0 /\ Done' = 1
  BY <1>1 DEF Done
<1>3. /\ 1 \in 1 .. Len(queue) /\ 1 \in 0 .. Len(queue) /\ 1 - 1 = 0
      /\ Oldest = queue[1]
  BY <1>1 DEF TypeOK, Oldest
<1>4. db' = D[1] /\ UpTo(D[1])
  BY <1>1, <1>2, <1>3 DEF Leads, Chain
<1>5. Asks(D)'
  <2>1. \A i \in 1 .. Len(queue) : i \in 0 .. Len(queue)
    OBVIOUS
  <2> QED
    BY <1>1, <1>2, <2>1 DEF Leads, Asks, At
<1> QED
  BY <1>1, <1>2, <1>4, <1>5 DEF Leads

LEMMA PopLeads ==
  ASSUME TypeOK, ~Broken, NEW D, Leads(D), Pop
  PROVE  \E E : /\ Leads(E)' /\ Len(queue') = Len(queue) - 1
                /\ Done = 1 /\ Done' = 0 /\ db' = db
                /\ \A i \in 0 .. Len(queue) - 1 : E[i] = D[i + 1]
<1>1. /\ queue' = Tail(queue) /\ UNCHANGED <<db, call>> /\ queue # <<>>
      /\ writer = "pop" /\ writer' = "peek" /\ queue \in Seq(Writes \cup Reverts)
  BY DEF Pop, TypeOK
<1>2. Done = 1 /\ Done' = 0
  BY <1>1 DEF Done
<1>3. Len(queue) \in Nat /\ Len(queue') = Len(queue) - 1 /\ Len(queue) # 0
  BY <1>1
<1>4. PICK E : /\ Chain(E, Tail(queue))
               /\ \A i \in 0 .. Len(queue) - 1 : E[i] = D[i + 1]
  BY <1>1, ChainShortened DEF Leads
<1>5. db' = E[0]
  BY <1>1, <1>2, <1>3, <1>4 DEF Leads
<1>6. E[Len(queue')] = D[Len(queue)]
  BY <1>3, <1>4
<1>7. Asks(E)'
  <2>1. \A i \in 0 .. Len(queue') : E[i] = D[i + 1] /\ i + 1 \in 1 .. Len(queue)
    BY <1>3, <1>4
  <2>2. call.kind = "write" =>
          /\ call.rows = Modifications(
               TakenAsNew([k \in Keys |->
                             ValueAt(E[Len(queue')].table, k, BlockNumberMax)],
                          call.new),
               call.wants, call.block)
          /\ OnlyInserts(call.rows)
          /\ \A k \in call.new : call.wants[k] # Absent
    BY <1>6 DEF Leads, Asks
  <2>3. At({"get"}, "db") =>
          \A i \in 0 .. Len(queue') :
             ValueAt(E[i].table, call.key, call.at)
               = ValueAt(E[Len(queue')].table, call.key, BlockNumberMax)
    BY <1>2, <1>6, <2>1 DEF Leads, Asks
  <2> QED
    BY <1>1, <1>2, <2>2, <2>3 DEF Asks, At
<1> QED
  BY <1>1, <1>2, <1>3, <1>4, <1>5, <1>7 DEF Leads

(* Requests that get stuck.  Those up to the m-th stay what they are, and  *)
(* whatever is added to the next one, the table still refuses it.          *)
LEMMA StuckStays ==
  ASSUME ~Broken, NEW D, NEW m, Stuck(D, m), UNCHANGED <<db, writer>>,
         Len(queue) \in Nat, Len(queue') \in Nat, Len(queue) <= Len(queue'),
         \A i \in 1 .. m : queue'[i] = queue[i],
         ~IsRevert(queue'[m + 1]), Duplicates(D[m].table, queue'[m + 1].rows)
  PROVE  Stuck(D, m)' /\ Done' = Done
<1>1. Done' = Done
  BY DEF Done
<1>2. m \in Done .. Len(queue') - 1
  BY DEF Stuck, Done
<1> QED
  BY <1>1, <1>2 DEF Stuck

LEMMA CallsStayStuck ==
  ASSUME TypeOK, ~Broken, NEW D, NEW m, Stuck(D, m), UNCHANGED <<db, queue, writer>>
  PROVE  Stuck(D, m)' /\ Done' = Done
<1>1. Len(queue) \in Nat
  BY DEF TypeOK
<1> QED
  BY <1>1, StuckStays DEF Stuck

LEMMA EnqueueStaysStuck ==
  ASSUME TypeOK, ~Broken, NEW D, NEW m, Stuck(D, m), Enqueue
  PROVE  Stuck(D, m)' /\ Done' = Done
<1>1. queue' = Append(queue, Request) /\ UNCHANGED <<db, writer>>
  BY DEF Enqueue
<1>2. queue \in Seq(Writes \cup Reverts) /\ m \in 0 .. Len(queue) - 1
  BY DEF TypeOK, Stuck, Done
<1>3. /\ Len(queue) \in Nat /\ Len(queue') = Len(queue) + 1
      /\ \A i \in 1 .. Len(queue) : queue'[i] = queue[i]
  BY <1>1, <1>2
<1>4. \A i \in 1 .. m : i \in 1 .. Len(queue)
  BY <1>2, <1>3
<1>5. m + 1 \in 1 .. Len(queue)
  BY <1>2, <1>3
<1>6. \A i \in 1 .. m : queue'[i] = queue[i]
  BY <1>3, <1>4
<1>7. ~IsRevert(queue'[m + 1]) /\ Duplicates(D[m].table, queue'[m + 1].rows)
  BY <1>3, <1>5 DEF Stuck
<1>8. Len(queue') \in Nat /\ Len(queue) <= Len(queue')
  BY <1>3
<1> QED
  BY <1>1, <1>3, <1>6, <1>7, <1>8, StuckStays

LEMMA AppendStaysStuck ==
  ASSUME TypeOK, ~Broken, NEW D, NEW m, Stuck(D, m), AppendToNewest
  PROVE  Stuck(D, m)' /\ Done' = Done
<1> DEFINE n == Len(queue)
           newest == queue[n]
           fits == call.block > newest.block /\ Fits(newest.rows, call.rows)
           joined == IF fits THEN [newest EXCEPT !.block = call.block,
                                                 !.rows = AppendRows(newest.rows, call.rows)]
                     ELSE [newest EXCEPT !.bad = TRUE]
<1>1. /\ queue \in Seq(Writes \cup Reverts) /\ m \in 0 .. n - 1 /\ n \in Nat
      /\ n \in 1 .. n /\ newest \in Writes /\ newest.rows \subseteq Rows
      /\ UNCHANGED <<db, writer>>
  BY DEF AppendToNewest, MayAppend, NewestIsWrite, IsRevert, Writes, Reverts, TypeOK,
         Stuck, Done
<1>2. queue' = [queue EXCEPT ![n] = joined]
  BY DEF AppendToNewest
<1>3. /\ ~IsRevert(joined)
      /\ joined.rows \in {newest.rows, AppendRows(newest.rows, call.rows)}
  BY <1>1 DEF Writes, IsRevert
<1> HIDE DEF joined, newest
<1>4. /\ Len(queue') = n /\ queue'[n] = joined
      /\ \A i \in 1 .. n : i # n => queue'[i] = queue[i]
  BY <1>1, <1>2
<1>5. \A i \in 1 .. m : i \in 1 .. n /\ i # n
  BY <1>1
<1>6. ~IsRevert(queue'[m + 1]) /\ Duplicates(D[m].table, queue'[m + 1].rows)
  <2>1. CASE m + 1 = n
    BY <1>1, <1>3, <1>4, <2>1, DuplicatesStay DEF Stuck, newest
  <2>2. CASE m + 1 # n
    <3>1. m + 1 \in 1 .. n
      BY <1>1
    <3> QED
      BY <1>4, <2>2, <3>1 DEF Stuck
  <2> QED
    BY <2>1, <2>2
<1> QED
  BY <1>1, <1>4, <1>5, <1>6, StuckStays

LEMMA PeekStaysStuck ==
  ASSUME TypeOK, ~Broken, NEW D, NEW m, Stuck(D, m), Peek
  PROVE  Stuck(D, m)' /\ Done' = Done /\ db' = db
<1>1. /\ queue' = [queue EXCEPT ![1].processed = TRUE] /\ queue # <<>>
      /\ db' = db /\ writer = "peek" /\ writer' = "execute"
  BY DEF Peek
<1>2. Done = 0 /\ Done' = 0 /\ m \in 0 .. Len(queue) - 1 /\ Len(queue) \in Nat
  BY <1>1 DEF Done, Stuck, TypeOK
<1>3. /\ Len(queue') = Len(queue)
      /\ \A i \in 1 .. Len(queue) :
           /\ IsRevert(queue'[i]) <=> IsRevert(queue[i])
           /\ ~IsRevert(queue[i]) => queue'[i].rows = queue[i].rows
           /\ \A d : /\ Suits(d, queue'[i]) <=> Suits(d, queue[i])
                     /\ Outcome(d, queue'[i]) = Outcome(d, queue[i])
  BY <1>1, Marked
<1>4. \A i \in 1 .. m : i \in 1 .. Len(queue)
  BY <1>2
<1>5. m + 1 \in 1 .. Len(queue)
  BY <1>2
<1>6. /\ ~IsRevert(queue'[m + 1]) /\ Duplicates(D[m].table, queue'[m + 1].rows)
  BY <1>3, <1>5 DEF Stuck
<1>7. \A i \in 1 .. m :
        Suits(D[i - 1], queue'[i]) /\ D[i] = Outcome(D[i - 1], queue'[i])
  BY <1>3, <1>4 DEF Stuck
<1> QED
  BY <1>1, <1>2, <1>3, <1>6, <1>7 DEF Stuck

LEMMA ExecuteStaysStuck ==
  ASSUME TypeOK, ~Broken, NEW D, NEW m, Stuck(D, m), Execute
  PROVE  /\ Stuck(D, m)' /\ UpTo(db') /\ Done = 0 /\ Done' = 1
         /\ m \in Nat /\ 1 <= m
<1>1. /\ db' = Outcome(db, Oldest) /\ UNCHANGED queue /\ Allowed(Oldest)
      /\ writer = "execute" /\ writer' = "pop" /\ queue # <<>> /\ Oldest = queue[1]
  BY DEF Execute, TypeOK, Oldest
<1>2. Done = 0 /\ Done' = 1 /\ m \in 0 .. Len(queue) - 1
  BY <1>1 DEF Done, Stuck
<1>3. m # 0
  <2> SUFFICES ASSUME m = 0 PROVE FALSE
    OBVIOUS
  <2>1. m + 1 = 1 /\ D[m] = db
    BY <1>2 DEF Stuck
  <2> QED
    BY <1>1, <2>1 DEF Stuck, Allowed
<1>4. 1 \in 1 .. m /\ 1 \in 0 .. m /\ 1 - 1 = 0 /\ m \in 1 .. Len(queue) - 1
  BY <1>2, <1>3
<1>5. D[1] = Outcome(D[0], queue[1]) /\ db = D[0] /\ UpTo(D[1])
  BY <1>2, <1>4 DEF Stuck
<1> QED
  BY <1>1, <1>2, <1>4, <1>5 DEF Stuck

LEMMA PopStaysStuck ==
  ASSUME TypeOK, ~Broken, NEW D, NEW m, Stuck(D, m), Pop
  PROVE  \E E : /\ Stuck(E, m - 1)' /\ Done = 1 /\ Done' = 0 /\ db' = db
                /\ m \in Nat /\ 1 <= m
                /\ \A i \in 0 .. m - 1 : E[i] = D[i + 1]
<1> DEFINE E == [i \in Nat |-> D[i + 1]]
<1>1. /\ queue' = Tail(queue) /\ db' = db /\ queue # <<>>
      /\ writer = "pop" /\ writer' = "peek" /\ queue \in Seq(Writes \cup Reverts)
  BY DEF Pop, TypeOK
<1>2. Done = 1 /\ Done' = 0 /\ m \in 1 .. Len(queue) - 1 /\ Len(queue) \in Nat
  BY <1>1 DEF Done, Stuck
<1>3. /\ Len(queue') = Len(queue) - 1
      /\ \A i \in 1 .. Len(queue) - 1 : queue'[i] = queue[i + 1]
  BY <1>1
<1>4. \A i \in 0 .. m - 1 : E[i] = D[i + 1]
  BY <1>2
<1> HIDE DEF E
<1>5. \A i \in 0 .. m - 1 : UpTo(E[i])
  <2>1. \A i \in 0 .. m - 1 : i + 1 \in 0 .. m
    BY <1>2
  <2> QED
    BY <1>4, <2>1 DEF Stuck
<1>6. ASSUME NEW i \in 1 .. m - 1
      PROVE  Suits(E[i - 1], queue'[i]) /\ E[i] = Outcome(E[i - 1], queue'[i])
  <2>1. /\ i + 1 \in 1 .. m /\ i - 1 \in 0 .. m - 1 /\ i \in 0 .. m - 1
        /\ i - 1 + 1 = i /\ i + 1 - 1 = i /\ i \in 1 .. Len(queue) - 1
    BY <1>2
  <2>2. Suits(D[i], queue[i + 1]) /\ D[i + 1] = Outcome(D[i], queue[i + 1])
    BY <2>1 DEF Stuck
  <2> QED
    BY <1>3, <1>4, <2>1, <2>2
<1>7. /\ m - 1 \in 0 .. Len(queue') - 1 /\ m - 1 + 1 = m /\ m \in 1 .. Len(queue) - 1
      /\ m - 1 \in 0 .. m - 1 /\ 0 \in 0 .. m - 1 /\ 0 + 1 = 1
  BY <1>2, <1>3
<1>8. E[m - 1] = D[m] /\ E[0] = D[1] /\ queue'[m] = queue[m + 1]
  BY <1>3, <1>4, <1>7
<1>9. ~IsRevert(queue'[m]) /\ Duplicates(E[m - 1].table, queue'[m].rows)
  BY <1>8 DEF Stuck
<1>10. db' = E[0]
  BY <1>1, <1>2, <1>8 DEF Stuck
<1>11. Stuck(E, m - 1)'
  BY <1>2, <1>5, <1>6, <1>7, <1>9, <1>10 DEF Stuck
<1> QED
  BY <1>1, <1>2, <1>4, <1>11

(* Where they get stuck: at a write that sets an immutable entity again.   *)
LEMMA EnqueueSticks ==
  ASSUME TypeOK, OrderInv, ~Broken, NEW D, Leads(D), Enqueue,
         call.kind = "write", Again(D)
  PROVE  \E m : m = Len(queue) /\ Stuck(D, m)' /\ Done' = Done
<1> DEFINE n == Len(queue)
<1>1. queue' = Append(queue, Request) /\ UNCHANGED <<db, writer>>
  BY DEF Enqueue
<1>2. queue \in Seq(Writes \cup Reverts) /\ n \in Nat /\ Done \in 0 .. n
  BY DEF TypeOK, Done
<1>3. /\ Len(queue') = n + 1 /\ queue'[n + 1] = Request
      /\ \A i \in 1 .. n : queue'[i] = queue[i]
  BY <1>1, <1>2
<1>4. Done' = Done
  BY <1>1 DEF Done
<1>5. Request.rows = call.rows /\ ~IsRevert(Request)
  BY DEF Request, IsRevert
<1>6. Duplicates(D[n].table, call.rows)
  <2>1. PICK r \in call.rows : /\ r.key \in Immutable /\ r.op = "insert"
                               /\ HasCurrent(D[n].table, r.key)
    BY CallSetsAgain
  <2> QED
    BY <2>1 DEF Duplicates, IsWrite, HasCurrent
<1>7. n \in Done .. Len(queue') - 1
  BY <1>2, <1>3
<1>8. PICK m : m = n
  OBVIOUS
<1>9. Stuck(D, m)'
  BY <1>1, <1>3, <1>4, <1>5, <1>6, <1>7, <1>8 DEF Stuck, Leads, Chain
<1> QED
  BY <1>4, <1>8, <1>9

LEMMA AppendSticks ==
  ASSUME TypeOK, OrderInv, ~Broken, NEW D, Leads(D), AppendToNewest, Again(D)
  PROVE  /\ \E m : m = Len(queue) - 1 /\ Stuck(D, m)' /\ Done' = Done
         /\ Len(queue') = Len(queue) /\ Len(queue) \in Nat /\ Done < Len(queue)
         /\ reply' = NoReply /\ call' = NoCall
<1> DEFINE n == Len(queue)
           newest == queue[n]
           fits == call.block > newest.block /\ Fits(newest.rows, call.rows)
           joined == [newest EXCEPT !.block = call.block,
                                    !.rows = AppendRows(newest.rows, call.rows)]
<1>1. /\ call.kind = "write" /\ call.block \in Blocks /\ call.rows \in SUBSET Rows
  BY DEF AppendToNewest, At, TypeOK, Calls, NoCall
<1>2. /\ n \in 1 .. n /\ n \in Nat /\ n - 1 \in 0 .. n /\ n \in 0 .. n
      /\ newest \in Writes /\ ~newest.processed /\ ~IsRevert(newest)
      /\ queue \in Seq(Writes \cup Reverts)
  BY DEF AppendToNewest, MayAppend, NewestIsWrite, IsRevert, Writes, Reverts, TypeOK
<1>3. /\ newest.block \in Nat /\ newest.rows \subseteq Rows /\ call.block \in Nat
  BY <1>1, <1>2 DEF Writes, Blocks
<1>4. /\ UpTo(D[n - 1]) /\ Suits(D[n - 1], newest)
      /\ D[n] = Outcome(D[n - 1], newest)
  BY <1>2 DEF Leads, Chain
<1>5. /\ D[n - 1].table \subseteq Versions
      /\ BatchFor(D[n - 1].table, newest.rows)
      /\ \A p \in newest.rows : p.block <= newest.block /\ p.block \in Nat
      /\ D[n].table = ApplyModifications(D[n - 1].table, newest.rows)
      /\ D[n].ptr = newest.block
  BY <1>2, <1>3, <1>4, RowFields DEF UpTo, TableUpTo, Suits, BatchUpTo, Outcome
<1> HIDE DEF newest, joined
<1>6. PICK r \in call.rows : /\ r.key \in Immutable /\ r.op = "insert"
                             /\ HasCurrent(D[n].table, r.key)
  BY <1>1, CallSetsAgain
<1>7. PICK plain : /\ ChangesAt(D[n].table, plain, call.block)
                   /\ \A s \in call.rows : s.key \in Immutable \/ s \in plain
  BY <1>1, CallSetsAgain
<1>8. newest.block < call.block /\ \A s \in call.rows : s.block = call.block
  BY <1>1, <1>5, CallSetsAgain
<1>9. Later(newest.rows, call.rows)
  BY <1>3, <1>5, <1>8 DEF Later
<1>10. Fits(newest.rows, call.rows)
  <2>1. ChangesOf(ApplyModifications(D[n - 1].table, newest.rows), plain)
    BY <1>5, <1>7 DEF ChangesAt
  <2>2. Later(newest.rows, plain)
    BY <1>3, <1>5, <1>7, <1>8 DEF Later, ChangesAt
  <2>3. Fits(newest.rows, plain)
    BY <1>5, <2>1, <2>2, AppendNeverFails
  <2> QED
    BY <1>7, <2>3 DEF Fits, Impossible
<1>11. fits
  BY <1>3, <1>8, <1>10
<1>12. /\ queue' = [queue EXCEPT ![n] = joined]
       /\ UNCHANGED <<db, writer>> /\ call' = NoCall /\ reply' = NoReply
  BY <1>11 DEF AppendToNewest, Return, joined, newest
<1>13. /\ ~IsRevert(joined) /\ joined.rows = AppendRows(newest.rows, call.rows)
  BY <1>2 DEF joined, Writes, IsRevert
<1>14. /\ Len(queue') = n /\ queue'[n] = joined
       /\ \A i \in 1 .. n : i # n => queue'[i] = queue[i]
  BY <1>2, <1>12
<1>15. Done \in 0 .. n - 1 /\ Done' = Done
  <2>1. writer = "pop" => n > 1
    BY <1>2 DEF TypeOK, newest
  <2> QED
    BY <1>2, <1>12, <2>1 DEF Done
<1>16. Duplicates(D[n - 1].table, joined.rows)
  BY <1>1, <1>3, <1>5, <1>6, <1>9, <1>13, SetTwice
<1>17. PICK m : m = n - 1 /\ m + 1 = n /\ m \in Done .. n - 1
  BY <1>2, <1>15
<1>18. \A i \in 1 .. m : i \in 1 .. n /\ i # n
  BY <1>2, <1>17
<1>19. \A i \in 0 .. m : i \in 0 .. n
  BY <1>2, <1>17
<1>20. Stuck(D, m)'
  BY <1>12, <1>13, <1>14, <1>15, <1>16, <1>17, <1>18, <1>19, Zenon
  DEF Stuck, Leads, Chain
<1> HIDE DEF fits
<1>21. Done < n /\ m = n - 1 /\ Done' = Done
  BY <1>2, <1>15, <1>17
<1> QED
  BY <1>2, <1>12, <1>14, <1>20, <1>21, Zenon

(* A new store, or a new process.                                          *)
LEMMA FreshLeads ==
  ASSUME UpTo(db), Fresh(db), UNCHANGED db, call' = NoCall
  PROVE  \E D : Leads(D)' /\ D[0] = db
<1>1. queue' = <<>> /\ writer' = "peek"
  BY DEF Fresh
<1>2. PICK D : Chain(D, <<>>) /\ D[0] = db
  BY ChainStarts
<1> QED
  BY <1>1, <1>2 DEF Leads, Asks, At, NoCall, Done

LEMMA TableInit == Init => TableInv
<1> SUFFICES ASSUME Init PROVE TableInv
  OBVIOUS
<1>1. /\ db.table = {} /\ db.ptr = 0 /\ queue = <<>> /\ writer = "peek"
      /\ call = NoCall
  BY DEF Init
<1>2. UpTo(db)
  BY <1>1 DEF UpTo, TableUpTo, Lasting, Blocks
<1>3. PICK D : Chain(D, <<>>) /\ D[0] = db
  BY <1>2, ChainStarts
<1>4. Leads(D)
  BY <1>1, <1>3 DEF Leads, Asks, At, NoCall, Done
<1> QED
  BY <1>2, <1>4 DEF TableInv, Sure

(* A failed writer leaves the table as it is, and so do the calls made     *)
(* since.                                                                  *)
LEMMA BrokenStep ==
  ASSUME TypeOK, OrderInv, Broken, UpTo(db), [Next]_vars
  PROVE  Sure'
<1>1. CASE \/ SubmitWrite \/ RejectWrite \/ SubmitRevert \/ SubmitFlush \/ SubmitGet
           \/ CallRefused \/ Push \/ WaitEmpty \/ Flushed
           \/ GetFromQueue \/ GetFromDatabase \/ AppendToNewest \/ Enqueue
  <2>1. UNCHANGED <<db, writer>>
    BY <1>1
    DEF SubmitWrite, RejectWrite, SubmitRevert, SubmitFlush, SubmitGet, Begin,
        CallRefused, Push, CheckErr, WaitEmpty, Flushed, GetFromQueue,
        GetFromDatabase, AppendToNewest, Enqueue, queueVars
  <2> QED
    BY <2>1 DEF Sure, UpTo, Broken
<1>2. CASE Restart /\ ~poisoned
  <2>1. UNCHANGED <<db, writer>>
    BY <1>2 DEF Restart, queueVars
  <2> QED
    BY <2>1 DEF Sure, UpTo, Broken
<1>3. CASE (Restart /\ poisoned) \/ Crash
  <2>1. Fresh(db) /\ db' = db /\ call' = NoCall
    BY <1>3 DEF Restart, Crash, OrderInv
  <2>2. \E D : Leads(D)'
    BY <2>1, FreshLeads
  <2> QED
    BY <2>1, <2>2 DEF Sure, UpTo
<1>4. CASE Background
  <2>1. db' = db /\ Broken'
    BY <1>4 DEF Background, Peek, Execute, ExecuteFails, Pop, Poison, Clear, Broken
  <2> QED
    BY <2>1 DEF Sure, UpTo
<1>5. CASE UNCHANGED vars
  BY <1>5 DEF vars, Sure, UpTo, Broken
<1> QED
  BY <1>1, <1>2, <1>3, <1>4, <1>5 DEF Next, Runner

LEMMA SureStep ==
  ASSUME TypeOK, OrderInv, Sure, ~Broken, [Next]_vars
  PROVE  TableInv'
<1>1. UpTo(db) /\ \E D : Leads(D)
  BY DEF Sure
<1>2. PICK D : Leads(D)
  BY <1>1
<1>3. CASE \/ SubmitWrite \/ RejectWrite \/ SubmitRevert \/ SubmitFlush \/ SubmitGet
           \/ CallRefused \/ Push \/ WaitEmpty \/ Flushed
           \/ GetFromQueue \/ GetFromDatabase
  <2>1. Leads(D)' /\ db' = db
    BY <1>2, <1>3, CallsLead
  <2> QED
    BY <1>1, <2>1 DEF TableInv, Sure, UpTo
<1>4. CASE Enqueue
  <2>1. UNCHANGED <<db, writer>>
    BY <1>4 DEF Enqueue
  <2>2. CASE call.kind = "write" /\ Again(D)
    <3>1. \E m : Stuck(D, m)'
      BY <1>2, <1>4, <2>2, EnqueueSticks
    <3> QED
      BY <1>1, <2>1, <3>1 DEF TableInv, Unsure, UpTo, Broken
  <2>3. CASE ~(call.kind = "write" /\ Again(D))
    <3>1. \E E : Leads(E)'
      BY <1>2, <1>4, <2>3, EnqueueLeads
    <3> QED
      BY <1>1, <2>1, <3>1 DEF TableInv, Sure, UpTo
  <2> QED
    BY <2>2, <2>3
<1>5. CASE AppendToNewest
  <2>1. UNCHANGED <<db, writer>>
    BY <1>5 DEF AppendToNewest
  <2>2. CASE Again(D)
    <3>1. \E m : Stuck(D, m)'
      BY <1>2, <1>5, <2>2, AppendSticks
    <3> QED
      BY <1>1, <2>1, <3>1 DEF TableInv, Unsure, UpTo, Broken
  <2>3. CASE ~Again(D)
    <3>1. \E E : Leads(E)'
      BY <1>2, <1>5, <2>3, AppendLeads
    <3> QED
      BY <1>1, <2>1, <3>1 DEF TableInv, Sure, UpTo
  <2> QED
    BY <2>2, <2>3
<1>6. CASE Restart \/ Crash
  <2>1. CASE Restart
    <3>1. UNCHANGED <<db, queue, writer, call>>
      BY <2>1 DEF Restart, queueVars, OrderInv
    <3> QED
      BY <1>1, <1>2, <3>1 DEF TableInv, Sure, UpTo, Leads, Asks, At, Done
  <2>2. CASE Crash
    <3>1. Fresh(db) /\ db' = db /\ call' = NoCall
      BY <2>2 DEF Crash
    <3>2. \E E : Leads(E)'
      BY <1>1, <3>1, FreshLeads
    <3> QED
      BY <1>1, <3>1, <3>2 DEF TableInv, Sure, UpTo
  <2> QED
    BY <1>6, <2>1, <2>2
<1>7. CASE Peek
  BY <1>1, <1>2, <1>7, PeekLeads DEF TableInv, Sure, UpTo
<1>8. CASE Execute
  BY <1>2, <1>8, ExecuteLeads DEF TableInv, Sure, UpTo
<1>9. CASE Pop
  <2>1. db' = db /\ \E E : Leads(E)'
    BY <1>2, <1>9, PopLeads
  <2> QED
    BY <1>1, <2>1 DEF TableInv, Sure, UpTo
<1>10. CASE ExecuteFails \/ Poison \/ Clear
  <2>1. db' = db /\ Broken'
    BY <1>10 DEF ExecuteFails, Poison, Clear, Broken
  <2> QED
    BY <1>1, <2>1 DEF TableInv, Sure, UpTo
<1>11. CASE UNCHANGED vars
  BY <1>1, <1>2, <1>11 DEF vars, TableInv, Sure, UpTo, Leads, Asks, At, Done
<1> QED
  BY <1>3, <1>4, <1>5, <1>6, <1>7, <1>8, <1>9, <1>10, <1>11 DEF Next, Runner, Background

LEMMA UnsureStep ==
  ASSUME TypeOK, OrderInv, Unsure, [Next]_vars
  PROVE  TableInv'
<1>1. UpTo(db) /\ ~Broken /\ \E D, m : Stuck(D, m)
  BY DEF Unsure
<1>2. PICK D, m : Stuck(D, m)
  BY <1>1
<1>3. ASSUME UNCHANGED <<db, writer>>, \E E, l : Stuck(E, l)'
      PROVE  TableInv'
  BY <1>1, <1>3 DEF TableInv, Unsure, UpTo, Broken
<1>4. CASE \/ SubmitWrite \/ RejectWrite \/ SubmitRevert \/ SubmitFlush \/ SubmitGet
           \/ CallRefused \/ Push \/ WaitEmpty \/ Flushed
           \/ GetFromQueue \/ GetFromDatabase \/ Restart \/ UNCHANGED vars
  <2>1. UNCHANGED <<db, queue, writer>>
    BY <1>1, <1>4
    DEF SubmitWrite, RejectWrite, SubmitRevert, SubmitFlush, SubmitGet, Begin,
        CallRefused, Push, CheckErr, WaitEmpty, Flushed, GetFromQueue,
        GetFromDatabase, Restart, queueVars, OrderInv, vars
  <2>2. Stuck(D, m)'
    BY <1>1, <1>2, <2>1, CallsStayStuck
  <2> QED
    BY <1>3, <2>1, <2>2
<1>5. CASE Enqueue
  <2>1. Stuck(D, m)' /\ UNCHANGED <<db, writer>>
    BY <1>1, <1>2, <1>5, EnqueueStaysStuck DEF Enqueue
  <2> QED
    BY <1>3, <2>1
<1>6. CASE AppendToNewest
  <2>1. Stuck(D, m)' /\ UNCHANGED <<db, writer>>
    BY <1>1, <1>2, <1>6, AppendStaysStuck DEF AppendToNewest
  <2> QED
    BY <1>3, <2>1
<1>7. CASE Crash
  <2>1. Fresh(db) /\ db' = db /\ call' = NoCall
    BY <1>7 DEF Crash
  <2>2. \E E : Leads(E)'
    BY <1>1, <2>1, FreshLeads
  <2> QED
    BY <1>1, <2>1, <2>2 DEF TableInv, Sure, UpTo
<1>8. CASE Peek
  <2>1. Stuck(D, m)' /\ db' = db /\ ~Broken'
    BY <1>1, <1>2, <1>8, PeekStaysStuck DEF Peek, Broken
  <2> QED
    BY <1>1, <2>1 DEF TableInv, Unsure, UpTo
<1>9. CASE Execute
  <2>1. Stuck(D, m)' /\ UpTo(db') /\ ~Broken'
    BY <1>1, <1>2, <1>9, ExecuteStaysStuck DEF Execute, Broken
  <2> QED
    BY <2>1 DEF TableInv, Unsure, UpTo
<1>10. CASE Pop
  <2>1. \E E, l : Stuck(E, l)'
    BY <1>1, <1>2, <1>10, PopStaysStuck
  <2>2. db' = db /\ ~Broken'
    BY <1>10 DEF Pop, Broken
  <2> QED
    BY <1>1, <2>1, <2>2 DEF TableInv, Unsure, UpTo
<1>11. CASE ExecuteFails \/ Poison \/ Clear
  <2>1. db' = db /\ Broken'
    BY <1>11 DEF ExecuteFails, Poison, Clear, Broken
  <2> QED
    BY <1>1, <2>1 DEF TableInv, Sure, UpTo
<1> QED
  BY <1>4, <1>5, <1>6, <1>7, <1>8, <1>9, <1>10, <1>11 DEF Next, Runner, Background

LEMMA TableStep ==
  ASSUME TypeOK, OrderInv, TableInv, [Next]_vars
  PROVE  TableInv'
<1>1. CASE Broken
  <2>1. UpTo(db)
    BY DEF TableInv, Sure, Unsure
  <2> QED
    BY <1>1, <2>1, BrokenStep DEF TableInv
<1>2. CASE ~Broken
  BY <1>2, SureStep, UnsureStep DEF TableInv
<1> QED
  BY <1>1, <1>2

(* The versions of an entity never overlap, none is empty and none is of a *)
(* block after the deployment's, whatever was batched together, executed,  *)
(* reverted and written again, for any number of blocks: the exclusion     *)
(* constraint of the entity tables never fails a write, and the writes     *)
(* that the runner makes of what it read, through a queue that the writer  *)
(* goes on emptying, are the changes that the table needs.  An immutable   *)
(* entity has one version, which never ends, whatever writes take to be    *)
(* new.                                                                    *)
THEOREM VersionsNeverOverlap == Spec => []VersionsDisjoint
<1>1. Init => TypeOK /\ OrderInv /\ TableInv
  BY InitType, OrderInit, TableInit
<1>2. TypeOK /\ OrderInv /\ TableInv /\ [Next]_vars => (TypeOK /\ OrderInv /\ TableInv)'
  BY RunnerType, BackgroundType, CrashType, OrderStep, TableStep DEF Next
<1>3. TableInv => VersionsDisjoint
  <2> SUFFICES ASSUME TableInv PROVE VersionsDisjoint
    OBVIOUS
  <2>1. /\ db.table \subseteq Versions
        /\ \A v, w \in db.table :
             v.key = w.key => v = w \/ v.upper <= w.lower \/ w.upper <= v.lower
        /\ \A v \in db.table : /\ v.lower < v.upper /\ v.lower <= db.ptr
                               /\ Open(v) \/ v.upper <= db.ptr
                               /\ v.key \in Immutable => Open(v)
    BY DEF TableInv, Sure, Unsure, UpTo, TableUpTo, Lasting
  <2>2. \A v \in db.table : v.lower \in Nat /\ v.upper \in Nat
    BY <2>1, VersionFields
  <2>3. ASSUME NEW v \in db.table, NEW w \in db.table, v # w, v.key = w.key
        PROVE  ~Overlap(v, w)
    BY <2>1, <2>2, <2>3 DEF Overlap
  <2> QED
    BY <2>1, <2>3 DEF VersionsDisjoint
<1> QED
  BY <1>1, <1>2, <1>3, PTL DEF Spec
-----------------------------------------------------------------------------
(* The refinement.  The contents of the tables that the requests lead      *)
(* through are the states of EntityStore, and its abstract writes and      *)
(* reverts are what requests do to contents.                               *)
IsAfter(f, d, reqs, m) ==
  /\ f = [i \in 0 .. m |-> f[i]]
  /\ \A i \in 0 .. m :
       f[i] = IF i = 0 THEN d ELSE Outcome(f[i - 1], reqs[i])

LEMMA AfterExists ==
  ASSUME NEW d, NEW reqs
  PROVE  \E f : IsAfter(f, d, reqs, Capacity)
<1> DEFINE UpToHere(m) == \E f : IsAfter(f, d, reqs, m)
           Missing == {m \in 0 .. Capacity : ~UpToHere(m)}
<1>1. UpToHere(0)
  <2> DEFINE f == [i \in 0 .. 0 |-> d]
  <2>1. /\ f = [i \in 0 .. 0 |-> f[i]]
        /\ \A i \in 0 .. 0 : i = 0 /\ f[i] = d
    OBVIOUS
  <2> HIDE DEF f
  <2>2. IsAfter(f, d, reqs, 0)
    BY <2>1 DEF IsAfter
  <2> QED
    BY <2>2
<1>2. ASSUME NEW m \in Nat, m # 0, UpToHere(m - 1)
      PROVE  UpToHere(m)
  <2>1. PICK f : \A i \in 0 .. m - 1 :
                   f[i] = IF i = 0 THEN d ELSE Outcome(f[i - 1], reqs[i])
    BY <1>2 DEF IsAfter
  <2> DEFINE g == [i \in 0 .. m |->
                     IF i = m THEN Outcome(f[m - 1], reqs[m]) ELSE f[i]]
  <2>2. ASSUME NEW i \in 0 .. m
        PROVE  g[i] = IF i = 0 THEN d ELSE Outcome(g[i - 1], reqs[i])
    <3>1. CASE i = m
      <4>1. m - 1 \in 0 .. m /\ m - 1 # m
        BY <1>2
      <4> QED
        BY <1>2, <3>1, <4>1
    <3>2. CASE i # m
      <4>1. i \in 0 .. m - 1 /\ (i # 0 => i - 1 \in 0 .. m /\ i - 1 # m)
        BY <3>2
      <4>2. f[i] = IF i = 0 THEN d ELSE Outcome(f[i - 1], reqs[i])
        BY <2>1, <4>1
      <4> QED
        BY <3>2, <4>1, <4>2
    <3> QED
      BY <3>1, <3>2
  <2>3. g = [i \in 0 .. m |-> g[i]]
    OBVIOUS
  <2> HIDE DEF g
  <2>4. IsAfter(g, d, reqs, m)
    BY <2>2, <2>3 DEF IsAfter
  <2> QED
    BY <2>4
<1> HIDE DEF UpToHere
<1>3. Missing = {}
  <2> SUFFICES ASSUME Missing # {} PROVE FALSE
    OBVIOUS
  <2>1. Missing \in SUBSET Nat
    OBVIOUS
  <2>2. PICK m \in Missing : \A l \in Missing : m <= l
    BY <2>1, LeastExists
  <2>3. m # 0 /\ m \in 0 .. Capacity /\ m \in Nat
    BY <1>1
  <2>4. m - 1 \in 0 .. Capacity /\ ~(m <= m - 1)
    BY <2>3
  <2>5. UpToHere(m - 1)
    BY <2>2, <2>4
  <2> QED
    BY <1>2, <2>3, <2>5
<1>4. Capacity \in 0 .. Capacity
  OBVIOUS
<1>5. UpToHere(Capacity)
  BY <1>3, <1>4
<1> QED
  BY <1>5 DEF UpToHere

LEMMA AfterUnfolds ==
  /\ After[0] = db
  /\ \A i \in 1 .. Capacity : After[i] = Outcome(After[i - 1], Pending[i])
<1>1. \E f : f = [i \in 0 .. Capacity |->
                    IF i = 0 THEN db ELSE Outcome(f[i - 1], Pending[i])]
  <2>1. PICK f : IsAfter(f, db, Pending, Capacity)
    BY AfterExists, Zenon
  <2>2. f = [i \in 0 .. Capacity |->
               IF i = 0 THEN db ELSE Outcome(f[i - 1], Pending[i])]
    BY <2>1 DEF IsAfter
  <2> QED
    BY <2>2
<1>2. After = [i \in 0 .. Capacity |->
                 IF i = 0 THEN db ELSE Outcome(After[i - 1], Pending[i])]
  BY <1>1, Zenon DEF After
<1>3. \A i \in 0 .. Capacity :
        After[i] = IF i = 0 THEN db ELSE Outcome(After[i - 1], Pending[i])
  BY <1>2
<1> QED
  BY <1>3

(* The states of the refinement are the contents of the tables that the    *)
(* requests lead through.                                                  *)
Pile(D, first, last) == [i \in 1 .. last - first + 1 |-> Contents(D[i - 1 + first])]

Mapped ==
  /\ Broken => States = [i \in 1 .. 1 |-> Contents(db)] /\ Breaking
  /\ ~Broken => \A D : Leads(D) => States = Pile(D, Done, Len(queue)) /\ ~Breaking
  /\ ~Broken => \A D, m : Stuck(D, m) => States = Pile(D, Done, m) /\ Breaking

LEMMA PendingIsAhead ==
  ASSUME TypeOK, ~Broken
  PROVE  /\ Done \in 0 .. Len(queue) /\ Len(queue) \in Nat
         /\ Len(Pending) = Len(queue) - Done /\ Len(Pending) <= Capacity
         /\ \A i \in 1 .. Len(Pending) : Pending[i] = queue[i + Done]
<1>1. Len(queue) \in Nat /\ Len(queue) <= Capacity
  BY DEF TypeOK
<1>2. CASE writer = "pop"
  <2>1. /\ queue # <<>> /\ Len(Pending) = Len(queue) - 1
        /\ \A i \in 1 .. Len(Pending) : Pending[i] = queue[i + 1]
    BY <1>2, PendingType
  <2>2. Done = 1 /\ Len(queue) # 0
    BY <1>2, <2>1 DEF Done, TypeOK
  <2> QED
    BY <1>1, <2>1, <2>2
<1>3. CASE writer # "pop"
  <2>1. Pending = queue /\ Done = 0
    BY <1>3, PendingType DEF Done
  <2> QED
    BY <1>1, <2>1
<1> QED
  BY <1>2, <1>3

(* The first m requests lead through D.                                    *)
Reaches(D, m) ==
  /\ m \in Done .. Len(queue) /\ db = D[Done]
  /\ \A i \in 1 .. m : D[i] = Outcome(D[i - 1], queue[i])

LEMMA AfterIsAhead ==
  ASSUME TypeOK, ~Broken, NEW D, NEW m, Reaches(D, m), NEW n \in 0 .. m - Done
  PROVE  After[n] = D[n + Done]
<1> DEFINE Wrong == {i \in 0 .. m - Done : After[i] # D[i + Done]}
<1>1. /\ Done \in 0 .. Len(queue) /\ Len(queue) \in Nat
      /\ Len(Pending) = Len(queue) - Done /\ Len(Pending) <= Capacity
      /\ \A i \in 1 .. Len(Pending) : Pending[i] = queue[i + Done]
  BY PendingIsAhead
<1>2. After[0] = D[0 + Done]
  BY <1>1, AfterUnfolds DEF Reaches
<1>3. PICK d \in Nat, q \in Nat, l \in Nat :
        /\ d = Done /\ q = Len(queue) /\ l = m /\ Len(Pending) = q - d
        /\ d <= l /\ l <= q
  <2>1. Done \in Nat /\ Len(queue) \in Nat /\ m \in Nat /\ Done <= m /\ m <= Len(queue)
    BY <1>1 DEF Reaches
  <2> QED
    BY <1>1, <2>1
<1>4. ASSUME NEW i \in 1 .. m - Done, After[i - 1] = D[i - 1 + Done]
      PROVE  After[i] = D[i + Done]
  <2>1. i \in 1 .. l - d /\ i \in 1 .. q - d
    BY <1>3
  <2>2. i \in 1 .. Len(Pending) /\ i \in 1 .. Capacity
    <3>1. i \in 1 .. Len(Pending)
      BY <1>3, <2>1
    <3> QED
      BY <1>1, <3>1, StoreAssumption
  <2>3. After[i] = Outcome(After[i - 1], Pending[i])
    BY <2>2, AfterUnfolds
  <2>4. PICK j \in 1 .. m : j = i + Done /\ j - 1 = i - 1 + Done
    <3>1. i + d \in 1 .. l /\ i + d - 1 = i - 1 + d
      BY <1>3, <2>1
    <3> QED
      BY <1>3, <3>1
  <2>5. D[j] = Outcome(D[j - 1], queue[j])
    BY DEF Reaches
  <2> QED
    BY <1>1, <1>4, <2>2, <2>3, <2>4, <2>5
<1>5. Wrong = {}
  <2> SUFFICES ASSUME Wrong # {} PROVE FALSE
    OBVIOUS
  <2>1. Wrong \in SUBSET Nat
    OBVIOUS
  <2>2. PICK i \in Wrong : \A j \in Wrong : i <= j
    BY <2>1, LeastExists
  <2>3. i # 0 /\ i \in 0 .. m - Done
    BY <1>2
  <2>4. i \in 1 .. m - Done /\ i - 1 \in 0 .. m - Done /\ ~(i <= i - 1)
    BY <1>3, <2>3
  <2>5. After[i - 1] = D[i - 1 + Done]
    BY <2>2, <2>4
  <2> QED
    BY <1>4, <2>4, <2>5
<1> QED
  BY <1>5

LEMMA CertainIs ==
  ASSUME NEW n \in Nat, Len(Pending) = n, NEW c \in 0 .. n,
         \A i \in 1 .. c : ~Doomed(i), c < n => Doomed(c + 1)
  PROVE  Certain = c /\ (Breaking <=> Broken \/ c < n)
<1> DEFINE J == {j \in 1 .. n : Doomed(j)}
           T == {n} \cup {i - 1 : i \in J}
<1>1. c \in T
  <2>1. CASE c = n
    BY <2>1
  <2>2. CASE c # n
    <3>1. c + 1 \in J /\ c + 1 - 1 = c
      BY <2>2
    <3> QED
      BY <3>1
  <2> QED
    BY <2>1, <2>2
<1>2. \A t \in T : c <= t /\ t \in Nat
  <2>1. ASSUME NEW i \in J PROVE c <= i - 1 /\ i - 1 \in Nat
    <3>1. i \in 1 .. n /\ i \notin 1 .. c
      OBVIOUS
    <3> QED
      BY <3>1
  <2> QED
    BY <2>1
<1>3. Certain = Lowest(T)
  BY DEF Certain
<1> HIDE DEF T
<1>4. \A t \in T : (\A u \in T : t <= u) <=> t = c
  BY <1>1, <1>2
<1>5. Lowest(T) = c
  BY <1>1, <1>4 DEF Lowest
<1> QED
  BY <1>3, <1>5 DEF Breaking

LEMMA StatesReach ==
  ASSUME TypeOK, ~Broken, NEW D, NEW m, Reaches(D, m), Certain = m - Done
  PROVE  States = Pile(D, Done, m)
<1>1. \A i \in 1 .. m - Done + 1 : After[i - 1] = D[i - 1 + Done]
  <2>1. m - Done \in Nat
    BY PendingIsAhead DEF Reaches
  <2>2. \A i \in 1 .. m - Done + 1 : i - 1 \in 0 .. m - Done
    BY <2>1
  <2> QED
    BY <2>2, AfterIsAhead
<1> QED
  BY <1>1 DEF States, Pile

(* None of those that lead on is refused.                                  *)
LEMMA NoneIsDoomed ==
  ASSUME TypeOK, ~Broken, NEW D, NEW m, Reaches(D, m),
         \A i \in 0 .. m : UpTo(D[i]), \A i \in 1 .. m : Suits(D[i - 1], queue[i]),
         NEW i \in 1 .. m - Done
  PROVE  ~Doomed(i)
<1>1. /\ Done \in Nat /\ Len(queue) \in Nat /\ m \in Nat /\ Done <= m
      /\ m <= Len(queue) /\ Len(Pending) = Len(queue) - Done
      /\ \A j \in 1 .. Len(Pending) : Pending[j] = queue[j + Done]
  BY PendingIsAhead DEF Reaches
<1>2. PICK e : e = i + Done
  OBVIOUS
<1>3. /\ i \in 1 .. Len(Pending) /\ i - 1 \in 0 .. m - Done
      /\ e \in 1 .. m /\ i - 1 + Done = e - 1 /\ e - 1 \in 0 .. m
  BY <1>1, <1>2
<1>4. Pending[i] = queue[e] /\ After[i - 1] = D[e - 1]
  <2>1. After[i - 1] = D[i - 1 + Done]
    BY <1>3, AfterIsAhead
  <2> QED
    BY <1>1, <1>2, <1>3, <2>1
<1>5. UpTo(D[e - 1]) /\ Suits(D[e - 1], queue[e])
  BY <1>3
<1>6. IsRevert(queue[e]) \/ ~Duplicates(D[e - 1].table, queue[e].rows)
  BY <1>5, NoDuplicates DEF Suits, BatchUpTo, UpTo
<1> QED
  BY <1>4, <1>6 DEF Doomed

LEMMA StatesAreMapped ==
  ASSUME TypeOK
  PROVE  Mapped
<1>1. CASE Broken
  <2>1. Pending = <<>> /\ Len(Pending) = 0
    BY <1>1 DEF Pending
  <2>2. Certain = 0
    BY <2>1, CertainIs
  <2>3. \A i \in 1 .. 1 : After[i - 1] = db
    BY AfterUnfolds
  <2>4. States = [i \in 1 .. 1 |-> Contents(db)]
    BY <2>2, <2>3 DEF States
  <2> QED
    BY <1>1, <2>4 DEF Mapped, Breaking
<1>2. CASE ~Broken
  <2>1. /\ Done \in Nat /\ Len(queue) \in Nat /\ Done <= Len(queue)
        /\ Len(Pending) = Len(queue) - Done /\ Len(Pending) \in Nat
        /\ \A j \in 1 .. Len(Pending) : Pending[j] = queue[j + Done]
    BY <1>2, PendingIsAhead
  <2>2. ASSUME NEW D, Leads(D)
        PROVE  States = Pile(D, Done, Len(queue)) /\ ~Breaking
    <3>1. Reaches(D, Len(queue))
      BY <2>1, <2>2 DEF Reaches, Leads, Chain
    <3>2. \A i \in 1 .. Len(queue) - Done : ~Doomed(i)
      BY <1>2, <2>2, <3>1, NoneIsDoomed DEF Leads, Chain
    <3>3. \A i \in 1 .. Len(Pending) : ~Doomed(i)
      BY <2>1, <3>2
    <3>4. Certain = Len(Pending) /\ ~Breaking
      <4>1. PICK n \in Nat : n = Len(Pending) /\ n \in 0 .. n /\ ~(n < n)
        BY <2>1
      <4> QED
        BY <1>2, <3>3, <4>1, CertainIs
    <3> QED
      BY <1>2, <2>1, <3>1, <3>4, StatesReach
  <2>3. ASSUME NEW D, NEW m, Stuck(D, m)
        PROVE  States = Pile(D, Done, m) /\ Breaking
    <3>1. Reaches(D, m) /\ m \in Nat /\ Done <= m /\ m < Len(queue)
      BY <2>1, <2>3 DEF Reaches, Stuck
    <3>2. \A i \in 1 .. m - Done : ~Doomed(i)
      BY <1>2, <2>3, <3>1, NoneIsDoomed DEF Stuck
    <3>3. PICK c \in Nat, d \in Nat, q \in Nat :
            /\ d = Done /\ q = Len(queue) /\ c = m - Done /\ c < q - d /\ c + d = m
      <4>1. m - Done \in Nat /\ m - Done < Len(queue) - Done /\ m - Done + Done = m
        BY <2>1, <3>1
      <4> QED
        BY <2>1, <4>1
    <3>4. Doomed(c + 1)
      <4>1. c + 1 \in 1 .. Len(Pending) /\ c + 1 + Done = m + 1 /\ c + 1 - 1 = c
        BY <2>1, <3>3
      <4>2. Pending[c + 1] = queue[m + 1]
        BY <2>1, <4>1
      <4>3. After[c] = D[m]
        <5>1. c \in 0 .. m - Done /\ c + Done = m
          BY <3>3
        <5> QED
          BY <1>2, <3>1, <5>1, AfterIsAhead
      <4> QED
        BY <2>3, <4>1, <4>2, <4>3 DEF Doomed, Stuck
    <3>5. Certain = c /\ Breaking
      <4>1. c \in 0 .. Len(Pending) /\ c < Len(Pending)
        BY <2>1, <3>3
      <4>2. \A i \in 1 .. c : ~Doomed(i)
        BY <3>2, <3>3
      <4> QED
        BY <2>1, <3>4, <4>1, <4>2, CertainIs
    <3> QED
      BY <1>2, <3>1, <3>3, <3>5, StatesReach
  <2> QED
    BY <1>2, <2>2, <2>3 DEF Mapped
<1> QED
  BY <1>1, <1>2

(* What contents are.                                                      *)
LEMMA ContentsAre ==
  ASSUME NEW d, UpTo(d)
  PROVE  /\ d.ptr \in Nat /\ d.ptr < BlockNumberMax
         /\ Len(Contents(d)) = d.ptr
<1>1. d.ptr \in Nat /\ d.ptr < BlockNumberMax
  BY DEF UpTo, TableUpTo, Blocks
<1>2. Len(Contents(d)) = d.ptr
  BY <1>1 DEF Contents
<1> QED
  BY <1>1, <1>2

LEMMA EntitiesAre ==
  ASSUME NEW d, UpTo(d)
  PROVE  Promise!Entities(Contents(d))
           = [k \in Keys |-> ValueAt(d.table, k, BlockNumberMax)]
<1>1. d.ptr \in Nat /\ d.ptr < BlockNumberMax /\ Len(Contents(d)) = d.ptr
  BY ContentsAre
<1>2. CASE d.ptr = 0
  <2>1. d.table = {}
    <3>1. \A v \in d.table : 0 < v.lower /\ v.lower <= 0 /\ v.lower \in Nat
      BY <1>2, VersionFields DEF UpTo, TableUpTo
    <3> QED
      BY <3>1
  <2>2. \A k \in Keys : ValueAt(d.table, k, BlockNumberMax) = Absent
    BY <2>1, ValueNotFound
  <2>3. Contents(d) = <<>>
    BY <1>2 DEF Contents
  <2> QED
    BY <2>2, <2>3 DEF Promise!Entities
<1>3. CASE d.ptr # 0
  <2>1. /\ d.ptr \in 1 .. d.ptr /\ d.ptr \in 0 .. BlockNumberMax
        /\ BlockNumberMax \in 0 .. BlockNumberMax
        /\ d.ptr <= BlockNumberMax /\ d.ptr <= d.ptr
    BY <1>1, <1>3
  <2>2. Contents(d) # <<>>
    BY <1>1, <1>3
  <2>3. \A k \in Keys :
          ValueAt(d.table, k, d.ptr) = ValueAt(d.table, k, BlockNumberMax)
    BY <2>1, ValueLater DEF UpTo
  <2>4. Promise!Entities(Contents(d)) = Contents(d)[d.ptr]
    BY <1>1, <2>2 DEF Promise!Entities
  <2>5. Contents(d)[d.ptr] = [k \in Keys |-> ValueAt(d.table, k, d.ptr)]
    BY <2>1 DEF Contents
  <2> QED
    BY <2>3, <2>4, <2>5
<1> QED
  BY <1>2, <1>3

(* A block's changes write what the handlers want.                         *)
LEMMA WantsAreWritten ==
  ASSUME NEW d, UpTo(d), NEW n \in Blocks, d.ptr < n,
         NEW saw, \A j \in Keys : saw[j] = ValueAt(d.table, j, BlockNumberMax),
         NEW wants, NEW rows, rows = Modifications(saw, wants, n),
         ChangesAt(d.table, rows, n),
         NEW k \in Keys
  PROVE  ValueAt(ApplyModifications(d.table, rows), k, n) = wants[k]
<1>1. /\ d.ptr \in Nat /\ n \in Nat /\ n < BlockNumberMax
      /\ n \in 0 .. BlockNumberMax /\ BlockNumberMax \in 0 .. BlockNumberMax
  BY ContentsAre DEF Blocks
<1>2. BatchUpTo(d.table, d.ptr, rows, n) /\ TableUpTo(d.table, d.ptr)
  BY <1>1, ChangesMakeABatchUpTo DEF UpTo
<1>3. /\ \A r \in rows : \E j \in Keys : r \in Modification(j, saw[j], wants[j], n)
      /\ \A j \in Keys : Modification(j, saw[j], wants[j], n) \subseteq rows
  BY DEF Modifications
<1>4. saw[k] = ValueAt(d.table, k, BlockNumberMax)
  OBVIOUS
<1>5. \A j \in Keys : \A r \in Modification(j, saw[j], wants[j], n) :
        r.key = j /\ r.block = n
  BY DEF Modification, Row
<1>6. CASE saw[k] = wants[k]
  <2>1. ASSUME NEW r \in rows, r.key = k PROVE FALSE
    <3>1. r \in Modification(k, saw[k], wants[k], n)
      BY <1>3, <1>5, <2>1
    <3> QED
      BY <1>6, <3>1 DEF Modification
  <2>2. ValueAt(ApplyModifications(d.table, rows), k, n) = ValueAt(d.table, k, n)
    BY <1>1, <1>2, <2>1, BatchLeavesThePast
  <2>3. ValueAt(d.table, k, n) = ValueAt(d.table, k, BlockNumberMax)
    <3>1. d.ptr <= n /\ d.ptr <= BlockNumberMax
      BY <1>1
    <3> QED
      BY <1>1, <1>2, <3>1, ValueLater
  <2> QED
    BY <1>4, <1>6, <2>2, <2>3
<1>7. CASE saw[k] # wants[k]
  <2>1. PICK r \in Modification(k, saw[k], wants[k], n) :
          /\ r \in rows /\ r.key = k /\ r.block = n /\ ~Ended(r)
          /\ IF wants[k] = Absent THEN ~IsWrite(r) ELSE IsWrite(r) /\ r.val = wants[k]
    <3>1. \E r \in Modification(k, saw[k], wants[k], n) :
            /\ r.key = k /\ r.block = n /\ ~Ended(r)
            /\ IF wants[k] = Absent THEN ~IsWrite(r) ELSE IsWrite(r) /\ r.val = wants[k]
      BY <1>7 DEF Modification, Row, Ended, IsWrite
    <3> QED
      BY <1>3, <3>1
  <2>2. \A s \in rows : s.key = k => s = r
    BY <2>1 DEF ChangesAt, ChangesOf
  <2>3. HasOp(rows, k, n) /\ LastRow(rows, k, n, r)
    BY <1>1, <2>1, <2>2 DEF HasOp, LastRow
  <2>4. (CHOOSE s \in rows : LastRow(rows, k, n, s)) = r
    BY <2>1, <2>2, <2>3 DEF LastRow
  <2>5. LastOp(rows, k, n) = wants[k]
    BY <2>1, <2>4 DEF LastOp, AfterOp
  <2>6. ValueAt(ApplyModifications(d.table, rows), k, n) = LastOp(rows, k, n)
    BY <1>1, <1>2, <2>3, BatchIsLookedThrough
  <2> QED
    BY <2>5, <2>6
<1> QED
  BY <1>6, <1>7

LEMMA ContentsWritten ==
  ASSUME NEW d, UpTo(d), NEW n \in Blocks, d.ptr < n,
         NEW saw, \A j \in Keys : saw[j] = ValueAt(d.table, j, BlockNumberMax),
         NEW wants \in [Keys -> Vals \cup {Absent}],
         NEW rows, rows = Modifications(saw, wants, n),
         ChangesAt(d.table, rows, n),
         NEW e, e.table = ApplyModifications(d.table, rows), e.ptr = n
  PROVE  Contents(e) = Promise!WriteTo(Contents(d), n, wants)
<1>1. /\ d.ptr \in Nat /\ n \in Nat /\ n < BlockNumberMax
      /\ Len(Contents(d)) = d.ptr
  BY ContentsAre DEF Blocks
<1>2. BatchUpTo(d.table, d.ptr, rows, n) /\ TableUpTo(d.table, d.ptr)
      /\ \A r \in rows : r.block = n
  BY <1>1, ChangesMakeABatchUpTo DEF UpTo, ChangesAt
<1>3. ASSUME NEW b \in 1 .. n, b < n, NEW k \in Keys
      PROVE  ValueAt(e.table, k, b) = ValueAt(d.table, k, b)
  <2>1. b \in 0 .. BlockNumberMax /\ \A r \in rows : r.key = k => b < r.block
    BY <1>1, <1>2, <1>3
  <2> QED
    BY <1>2, <2>1, BatchLeavesThePast
<1>4. ASSUME NEW b \in 1 .. n
      PROVE  [k \in Keys |-> ValueAt(e.table, k, b)]
             = IF b <= Len(Contents(d)) THEN Contents(d)[b]
               ELSE IF b < n THEN Promise!Entities(Contents(d)) ELSE wants
  <2>1. CASE b <= d.ptr
    <3>1. b \in 1 .. d.ptr /\ b < n
      BY <1>1, <2>1
    <3>2. Contents(d)[b] = [k \in Keys |-> ValueAt(d.table, k, b)]
      BY <3>1 DEF Contents
    <3>3. \A k \in Keys : ValueAt(e.table, k, b) = ValueAt(d.table, k, b)
      BY <1>3, <3>1
    <3> QED
      BY <1>1, <2>1, <3>2, <3>3
  <2>2. CASE ~(b <= d.ptr) /\ b < n
    <3>1. \A k \in Keys :
            ValueAt(e.table, k, b) = ValueAt(d.table, k, BlockNumberMax)
      <4>1. /\ b \in 0 .. BlockNumberMax /\ BlockNumberMax \in 0 .. BlockNumberMax
            /\ d.ptr <= b /\ d.ptr <= BlockNumberMax
        BY <1>1, <2>2
      <4>2. \A k \in Keys : ValueAt(d.table, k, b) = ValueAt(d.table, k, BlockNumberMax)
        BY <1>2, <4>1, ValueLater
      <4> QED
        BY <1>3, <2>2, <4>2
    <3>2. Promise!Entities(Contents(d))
          = [k \in Keys |-> ValueAt(d.table, k, BlockNumberMax)]
      BY EntitiesAre
    <3> QED
      BY <1>1, <2>2, <3>1, <3>2
  <2>3. CASE ~(b <= d.ptr) /\ ~(b < n)
    <3>1. b = n
      BY <1>1, <2>3
    <3>2. \A k \in Keys : ValueAt(e.table, k, n) = wants[k]
      BY WantsAreWritten
    <3>3. [k \in Keys |-> ValueAt(e.table, k, n)] = wants
      BY <3>2
    <3> QED
      BY <1>1, <2>3, <3>1, <3>3
  <2> QED
    BY <2>1, <2>2, <2>3
<1> QED
  BY <1>4 DEF Contents, Promise!WriteTo

LEMMA ContentsReverted ==
  ASSUME NEW d, UpTo(d), NEW n \in Nat, n < d.ptr,
         NEW e, e.table = RevertBlock(d.table, n + 1), e.ptr = n
  PROVE  Contents(e) = Promise!RevertTo(Contents(d), n)
<1>1. d.ptr \in Nat /\ d.ptr < BlockNumberMax /\ Len(Contents(d)) = d.ptr
  BY ContentsAre
<1>2. ASSUME NEW b \in 1 .. n
      PROVE  [k \in Keys |-> ValueAt(e.table, k, b)] = Contents(d)[b]
  <2>1. b \in 0 .. BlockNumberMax /\ b <= n /\ n <= d.ptr /\ b \in 1 .. d.ptr
    BY <1>1
  <2>2. \A k \in Keys : ValueAt(e.table, k, b) = ValueAt(d.table, k, b)
    BY <2>1, RevertGoesBack DEF UpTo
  <2>3. Contents(d)[b] = [k \in Keys |-> ValueAt(d.table, k, b)]
    BY <2>1 DEF Contents
  <2> QED
    BY <2>2, <2>3
<1>3. SubSeq(Contents(d), 1, n) = [b \in 1 .. n |-> Contents(d)[b]]
  OBVIOUS
<1>4. Contents(e) = [b \in 1 .. n |-> Contents(d)[b]]
  BY <1>2 DEF Contents
<1> QED
  BY <1>3, <1>4 DEF Promise!RevertTo
-----------------------------------------------------------------------------
(* Piles of contents grow, change and shrink as the queue does.            *)
Piled(D, a, b) == {Contents(D[i]) : i \in a .. b}

LEMMA PileIs ==
  ASSUME NEW D, NEW a \in Nat, NEW b \in Nat, a <= b
  PROVE  /\ Len(Pile(D, a, b)) = b - a + 1
         /\ Pile(D, a, b) \in Seq(Piled(D, a, b))
<1> DEFINE p == Pile(D, a, b)
           n == b - a + 1
<1>1. n \in Nat
  OBVIOUS
<1>2. \A i \in 1 .. n : i - 1 + a \in a .. b
  OBVIOUS
<1>3. p = [i \in 1 .. n |-> Contents(D[i - 1 + a])]
  BY DEF Pile
<1> HIDE DEF p, n
<1>4. Len(p) = n /\ p \in Seq(Piled(D, a, b))
  BY <1>1, <1>2, <1>3 DEF Piled
<1> QED
  BY <1>4 DEF p, n

LEMMA PileEnds ==
  ASSUME NEW D, NEW a \in Nat, NEW b \in Nat, a <= b
  PROVE  /\ Pile(D, a, b)[b - a + 1] = Contents(D[b])
         /\ Head(Pile(D, a, b)) = Contents(D[a])
<1> DEFINE p == Pile(D, a, b)
           n == b - a + 1
<1>1. n \in Nat /\ n \in 1 .. n /\ 1 \in 1 .. n
  OBVIOUS
<1>2. n - 1 + a = b /\ 1 - 1 + a = a
  OBVIOUS
<1>3. \A i \in 1 .. n : p[i] = Contents(D[i - 1 + a])
  BY DEF Pile
<1>4. Len(p) = n /\ p \in Seq(Piled(D, a, b))
  BY PileIs
<1> HIDE DEF p, n
<1>5. p[n] = Contents(D[b]) /\ p[1] = Contents(D[a])
  BY <1>1, <1>2, <1>3
<1>6. Head(p) = p[1]
  BY <1>1, <1>4
<1> QED
  BY <1>5, <1>6 DEF p, n

LEMMA PileMoves ==
  ASSUME NEW D, NEW E, NEW b \in Nat, \A i \in 0 .. b : D[i + 1] = E[i]
  PROVE  Pile(D, 1, b + 1) = Pile(E, 0, b)
<1>1. b + 1 - 1 + 1 = b - 0 + 1
  OBVIOUS
<1>2. ASSUME NEW i \in 1 .. b - 0 + 1
      PROVE  Contents(D[i - 1 + 1]) = Contents(E[i - 1 + 0])
  <2>1. i - 1 \in 0 .. b /\ i - 1 + 0 = i - 1
    OBVIOUS
  <2> QED
    BY <2>1
<1> QED
  BY <1>1, <1>2 DEF Pile

LEMMA PileGrows ==
  ASSUME NEW D, NEW E, NEW a \in Nat, NEW b \in Nat, a <= b,
         \A i \in a .. b : E[i] = D[i]
  PROVE  Pile(E, a, b + 1) = Append(Pile(D, a, b), Contents(E[b + 1]))
<1> DEFINE n == b - a + 1
           p == Pile(D, a, b)
           q == Pile(E, a, b + 1)
           S == Piled(D, a, b)
<1>0. n \in Nat
  OBVIOUS
<1>1. /\ p \in Seq(S) /\ Len(p) = n
      /\ \A i \in 1 .. n : p[i] = Contents(D[i - 1 + a])
  <2>1. p \in Seq(S)
    BY PileIs
  <2>2. Len(p) = n
    BY PileIs
  <2>3. \A i \in 1 .. n : p[i] = Contents(D[i - 1 + a])
    BY DEF Pile
  <2> QED
    BY <2>1, <2>2, <2>3
<1>2. /\ q = [i \in 1 .. n + 1 |-> q[i]]
      /\ \A i \in 1 .. n + 1 : q[i] = Contents(E[i - 1 + a])
  <2>1. b + 1 - a + 1 = n + 1
    OBVIOUS
  <2> QED
    BY <2>1 DEF Pile
<1> HIDE DEF p, q, S
<1>3. \A i \in 1 .. n : q[i] = p[i]
  <2>1. \A i \in 1 .. n : i - 1 + a \in a .. b /\ i \in 1 .. n + 1
    OBVIOUS
  <2> QED
    BY <1>1, <1>2, <2>1
<1>4. q[n + 1] = Contents(E[b + 1])
  <2>1. n + 1 - 1 + a = b + 1 /\ n + 1 \in 1 .. n + 1
    OBVIOUS
  <2> QED
    BY <1>2, <2>1
<1> HIDE DEF n
<1>5. Append(p, Contents(E[b + 1]))
      = [i \in 1 .. n + 1 |-> IF i = n + 1 THEN Contents(E[b + 1]) ELSE p[i]]
  BY <1>0, <1>1
<1>6. ASSUME NEW i \in 1 .. n + 1
      PROVE  q[i] = IF i = n + 1 THEN Contents(E[b + 1]) ELSE p[i]
  <2>1. CASE i = n + 1
    BY <1>4, <2>1
  <2>2. CASE i # n + 1
    <3>1. i \in 1 .. n
      BY <1>0, <2>2
    <3> QED
      BY <1>3, <2>2, <3>1
  <2> QED
    BY <2>1, <2>2
<1>7. q = Append(p, Contents(E[b + 1]))
  BY <1>2, <1>5, <1>6
<1> QED
  BY <1>7 DEF p, q

LEMMA PileChanges ==
  ASSUME NEW D, NEW E, NEW a \in Nat, NEW b \in Nat, a < b,
         \A i \in a .. b - 1 : E[i] = D[i]
  PROVE  /\ Len(Pile(D, a, b)) > 1
         /\ Pile(E, a, b) = [Pile(D, a, b) EXCEPT ![Len(Pile(D, a, b))] = Contents(E[b])]
<1> DEFINE n == b - a + 1
           p == Pile(D, a, b)
           q == Pile(E, a, b)
<1>0. a <= b /\ n \in Nat /\ n > 1
  OBVIOUS
<1>1. /\ Len(p) = n
      /\ \A i \in 1 .. n : p[i] = Contents(D[i - 1 + a])
  <2>1. Len(p) = n
    BY <1>0, PileIs
  <2>2. \A i \in 1 .. n : p[i] = Contents(D[i - 1 + a])
    BY DEF Pile
  <2> QED
    BY <2>1, <2>2
<1>2. /\ p = [i \in 1 .. n |-> p[i]] /\ q = [i \in 1 .. n |-> q[i]]
  BY DEF Pile
<1>3. \A i \in 1 .. n : q[i] = Contents(E[i - 1 + a])
  BY DEF Pile
<1> HIDE DEF p, q
<1>4. ASSUME NEW i \in 1 .. n
      PROVE  q[i] = IF i = n THEN Contents(E[b]) ELSE p[i]
  <2>1. CASE i = n
    <3>1. i - 1 + a = b
      BY <2>1
    <3> QED
      BY <1>3, <2>1, <3>1
  <2>2. CASE i # n
    <3>1. i - 1 + a \in a .. b - 1
      BY <2>2
    <3> QED
      BY <1>1, <1>3, <2>2, <3>1
  <2> QED
    BY <2>1, <2>2
<1> HIDE DEF n
<1>5. q = [p EXCEPT ![n] = Contents(E[b])]
  BY <1>2, <1>4
<1> QED
  BY <1>0, <1>1, <1>5 DEF p, q

LEMMA PileShrinks ==
  ASSUME NEW D, NEW a \in Nat, NEW b \in Nat, a < b
  PROVE  Pile(D, a + 1, b) = Tail(Pile(D, a, b)) /\ Len(Pile(D, a, b)) > 1
<1> DEFINE n == b - a + 1
           p == Pile(D, a, b)
           q == Pile(D, a + 1, b)
           S == Piled(D, a, b)
<1>0. a <= b /\ n \in Nat /\ n > 1
  OBVIOUS
<1>1. /\ p \in Seq(S) /\ Len(p) = n
      /\ \A i \in 1 .. n : p[i] = Contents(D[i - 1 + a])
  <2>1. p \in Seq(S)
    BY <1>0, PileIs
  <2>2. Len(p) = n
    BY <1>0 DEF Pile
  <2>3. \A i \in 1 .. n : p[i] = Contents(D[i - 1 + a])
    BY DEF Pile
  <2> QED
    BY <2>1, <2>2, <2>3
<1>2. /\ q = [i \in 1 .. n - 1 |-> q[i]]
      /\ \A i \in 1 .. n - 1 : q[i] = Contents(D[i - 1 + (a + 1)])
  <2>1. b - (a + 1) + 1 = n - 1
    OBVIOUS
  <2> QED
    BY <2>1 DEF Pile
<1> HIDE DEF p, q, S
<1>3. ASSUME NEW i \in 1 .. n - 1
      PROVE  q[i] = p[i + 1]
  <2>1. PICK j \in 1 .. n : j = i + 1 /\ j - 1 + a = i - 1 + (a + 1)
    BY <1>0
  <2> HIDE DEF n
  <2>2. p[j] = Contents(D[j - 1 + a]) /\ q[i] = Contents(D[i - 1 + (a + 1)])
    BY <1>1, <1>2
  <2> QED
    BY <2>1, <2>2
<1> HIDE DEF n
<1>4. p \in Seq(S) /\ Len(p) = n
  BY <1>1
<1>5. PICK t : /\ t = Tail(p) /\ t \in Seq(S) /\ Len(t) = n - 1
               /\ \A i \in 1 .. n - 1 : t[i] = p[i + 1]
  <2>1. /\ Tail(p) \in Seq(S) /\ Len(Tail(p)) = n - 1
        /\ \A i \in 1 .. n - 1 : Tail(p)[i] = p[i + 1]
    BY <1>0, <1>4
  <2> QED
    BY <2>1, Zenon
<1>6. t = [i \in 1 .. n - 1 |-> t[i]]
  <2>1. t \in Seq(S)
    BY <1>5
  <2>2. t = [i \in 1 .. Len(t) |-> t[i]]
    BY <2>1
  <2>3. Len(t) = n - 1
    BY <1>5
  <2> QED
    BY <2>2, <2>3
<1>7. \A i \in 1 .. n - 1 : t[i] = p[i + 1]
  BY <1>5
<1>8. q = t
  BY <1>2, <1>3, <1>6, <1>7
<1>9. q = Tail(p)
  BY <1>5, <1>8
<1> QED
  BY <1>0, <1>1, <1>9 DEF p, q

LEMMA PileFront ==
  ASSUME NEW D, NEW a \in Nat, NEW b \in Nat, a < b
  PROVE  /\ Len(Pile(D, a, b)) > 1
         /\ Pile(D, a, b - 1) = SubSeq(Pile(D, a, b), 1, Len(Pile(D, a, b)) - 1)
<1> DEFINE n == b - a + 1
           p == Pile(D, a, b)
           q == Pile(D, a, b - 1)
           S == Piled(D, a, b)
<1>0. a <= b /\ n \in Nat /\ n > 1
  OBVIOUS
<1>1. p \in Seq(S) /\ Len(p) = n
  <2>1. p \in Seq(S)
    BY <1>0, PileIs
  <2>2. Len(p) = n
    BY <1>0, PileIs
  <2> QED
    BY <2>1, <2>2
<1>2. \A i \in 1 .. n : p[i] = Contents(D[i - 1 + a])
  BY DEF Pile
<1>3. q = [i \in 1 .. n - 1 |-> Contents(D[i - 1 + a])]
  <2>1. b - 1 - a + 1 = n - 1
    OBVIOUS
  <2> QED
    BY <2>1 DEF Pile
<1> HIDE DEF p, q, S, n
<1>4. SubSeq(p, 1, n - 1) = [i \in 1 .. n - 1 |-> p[i]]
  BY <1>0, <1>1
<1>5. \A i \in 1 .. n - 1 : p[i] = Contents(D[i - 1 + a])
  BY <1>0, <1>2
<1>6. q = SubSeq(p, 1, n - 1)
  BY <1>3, <1>4, <1>5
<1>7. Len(p) > 1 /\ q = SubSeq(p, 1, Len(p) - 1)
  BY <1>0, <1>1, <1>6
<1> QED
  BY <1>7 DEF p, q
-----------------------------------------------------------------------------
(* A flush that returns has seen the queue empty; a failing writer leaves  *)
(* its request in the queue until the store is poisoned.                   *)
FlushInv ==
  /\ At({"flush"}, "done") => queue = <<>>
  /\ writer = "poison" => queue # <<>>
  /\ writer \in {"clear", "dead"} => poisoned

LEMMA FlushInit == Init => FlushInv
BY DEF Init, FlushInv, At, NoCall

LEMMA SubmitsAWrite == SubmitWrite => call'.kind = "write"
<1> SUFFICES ASSUME SubmitWrite PROVE call'.kind = "write"
  OBVIOUS
<1>1. PICK n, wants, new : Begin(WriteCall(n, wants, new))
  BY DEF SubmitWrite
<1> QED
  BY <1>1 DEF Begin, WriteCall

LEMMA FlushStep ==
  ASSUME TypeOK, OrderInv, FlushInv, [Next]_vars
  PROVE  FlushInv'
<1> USE DEF FlushInv
<1>1. CASE SubmitWrite \/ SubmitRevert \/ SubmitFlush \/ SubmitGet
  <2>1. UNCHANGED <<queue, writer, poisoned>>
    BY <1>1 DEF SubmitWrite, SubmitRevert, SubmitFlush, SubmitGet, Begin, queueVars
  <2>2. ~At({"flush"}, "done")'
    <3>1. CASE SubmitWrite
      <4>1. call'.kind = "write"
        BY <3>1, SubmitsAWrite
      <4> QED
        BY <4>1 DEF At
    <3>2. CASE SubmitRevert
      <4>1. call'.kind = "revert"
        BY <3>2 DEF SubmitRevert, Begin
      <4> QED
        BY <4>1 DEF At
    <3>3. CASE SubmitFlush
      <4>1. call'.pc # "done"
        BY <3>3 DEF SubmitFlush, Begin
      <4> QED
        BY <4>1 DEF At
    <3>4. CASE SubmitGet
      <4>1. call'.kind = "get"
        BY <3>4 DEF SubmitGet
      <4> QED
        BY <4>1 DEF At
    <3> QED
      BY <1>1, <3>1, <3>2, <3>3, <3>4
  <2> QED
    BY <2>1, <2>2
<1>2. CASE CallRefused \/ Flushed \/ GetFromDatabase \/ RejectWrite
  <2>1. UNCHANGED <<queue, writer, poisoned>> /\ call' = NoCall
    BY <1>2 DEF CallRefused, Flushed, CheckErr, GetFromDatabase, Return, RejectWrite,
                Idle, queueVars
  <2> QED
    BY <2>1 DEF At, NoCall
<1>3. CASE AppendToNewest \/ Enqueue
  <2>1. UNCHANGED <<writer, poisoned>> /\ call' = NoCall
    BY <1>3 DEF AppendToNewest, Enqueue, Return
  <2>2. queue' # <<>>
    <3>1. CASE AppendToNewest
      <4>1. Len(queue') = Len(queue) /\ queue # <<>>
        BY <3>1 DEF AppendToNewest, MayAppend, NewestIsWrite, TypeOK
      <4> QED
        BY <4>1 DEF TypeOK
    <3>2. CASE Enqueue
      BY <3>2 DEF Enqueue, TypeOK
    <3> QED
      BY <1>3, <3>1, <3>2
  <2> QED
    BY <2>1, <2>2 DEF At, NoCall
<1>4. CASE Push
  <2>1. /\ UNCHANGED <<queue, writer, poisoned>>
        /\ call' = NoCall \/ call' = [call EXCEPT !.pc = "room"]
        /\ call.kind \in {"write", "revert"} /\ call \in Calls
    BY <1>4 DEF Push, CheckErr, Return, GoOn, At, TypeOK
  <2>2. call'.kind # "flush"
    BY <2>1 DEF NoCall, Calls
  <2> QED
    BY <2>1, <2>2 DEF At
<1>5. CASE WaitEmpty
  BY <1>5 DEF WaitEmpty, queueVars
<1>6. CASE GetFromQueue
  <2>1. UNCHANGED <<queue, writer, poisoned>> /\ call'.kind # "flush"
    BY <1>6 DEF GetFromQueue, Return, NoCall, queueVars
  <2> QED
    BY <2>1 DEF At
<1>7. CASE Restart \/ Crash
  <2>1. CASE Fresh(db) /\ call' = NoCall
    BY <2>1 DEF Fresh, At, NoCall
  <2>2. CASE UNCHANGED <<queue, writer, poisoned, call>>
    BY <2>2 DEF At
  <2> QED
    BY <1>7, <2>1, <2>2 DEF Restart, Crash, OrderInv, queueVars
<1>8. CASE Background
  <2>1. CASE Peek
    <3>1. queue # <<>> /\ Len(queue') = Len(queue) /\ writer' = "execute"
      BY <2>1 DEF Peek, TypeOK
    <3> QED
      BY <2>1, <3>1 DEF Peek, At
  <2>2. CASE Execute \/ ExecuteFails \/ Poison
    BY <2>2 DEF Execute, ExecuteFails, Poison, TypeOK, At
  <2>3. CASE Pop \/ Clear
    <3>1. queue = <<>> => queue' = <<>>
      BY <2>3 DEF Pop, Clear, TypeOK
    <3>2. UNCHANGED <<call, poisoned>> /\ writer' # "poison"
          /\ (writer' \in {"clear", "dead"} => writer = "clear")
      BY <2>3 DEF Pop, Clear
    <3> QED
      BY <3>1, <3>2 DEF At
  <2> QED
    BY <1>8, <2>1, <2>2, <2>3 DEF Background
<1>9. CASE UNCHANGED vars
  BY <1>9 DEF vars, At
<1> QED
  BY <1>1, <1>2, <1>3, <1>4, <1>5, <1>6, <1>7, <1>8, <1>9 DEF Next, Runner

(* Every step is one of EntityStore's, or changes nothing there.           *)
LEMMA CallIsCalled ==
  ASSUME TypeOK
  PROVE  /\ Called.kind = call.kind /\ (Called = NoCall <=> call = NoCall)
         /\ call.kind = "write" => /\ Called.block = call.block
                                   /\ Called.wants = call.wants
                                   /\ Called.new = call.new
         /\ call.kind = "revert" => Called.block = call.block
         /\ call.kind = "get" => Called.key = call.key
BY DEF TypeOK, Called, Calls, NoCall, At

LEMMA CalledIsAllowed == TypeOK /\ call # NoCall => Called \in Promise!Calls
<1> SUFFICES ASSUME TypeOK, call # NoCall
             PROVE  Called \in Promise!Calls
  OBVIOUS
<1>1. CASE call.kind = "write"
  BY <1>1 DEF TypeOK, Called, Calls, NoCall, At, Promise!Calls, Blocks
<1>2. CASE call.kind = "revert"
  BY <1>2 DEF TypeOK, Called, Calls, NoCall, At, Promise!Calls, Blocks
<1>3. CASE call.kind = "get"
  BY <1>3 DEF TypeOK, Called, Calls, NoCall, At, Promise!Calls
<1>4. CASE call.kind = "flush"
  BY <1>4 DEF TypeOK, Called, Calls, NoCall, At, Promise!Calls
<1> QED
  BY <1>1, <1>2, <1>3, <1>4 DEF TypeOK, Calls, NoCall, At

(* The states above stay what they are while requests lead the same way.   *)
LEMMA BreakingIsBoolean == Breaking \in BOOLEAN /\ Breaking' \in BOOLEAN
BY DEF Breaking

LEMMA BrokenStay ==
  ASSUME Mapped, Mapped', db' = db, Broken, Broken'
  PROVE  States' = States /\ Breaking' = Breaking /\ Breaking
BY BreakingIsBoolean DEF Mapped

LEMMA StatesStay ==
  ASSUME Mapped, Mapped', ~Broken, ~Broken',
         NEW D, Leads(D), Leads(D)', Done' = Done, Len(queue') = Len(queue)
  PROVE  States' = States /\ Breaking' = Breaking
<1>1. States = Pile(D, Done, Len(queue)) /\ ~Breaking
  BY DEF Mapped
<1>2. States' = Pile(D, Done', Len(queue')) /\ ~Breaking'
  BY DEF Mapped
<1> QED
  BY <1>1, <1>2, BreakingIsBoolean

LEMMA StuckStatesStay ==
  ASSUME Mapped, Mapped', ~Broken, ~Broken',
         NEW D, NEW m, Stuck(D, m), Stuck(D, m)', Done' = Done
  PROVE  States' = States /\ Breaking' = Breaking /\ Breaking
<1>1. States = Pile(D, Done, m) /\ Breaking
  BY DEF Mapped
<1>2. States' = Pile(D, Done', m) /\ Breaking'
  BY DEF Mapped
<1> QED
  BY <1>1, <1>2, BreakingIsBoolean

(* What holds of the states of a working store, and of one that is not.    *)
LEMMA Modes ==
  ASSUME TableInv, Mapped
  PROVE  /\ UpTo(db)
         /\ \/ Broken /\ Breaking
            \/ ~Broken /\ ~Breaking /\ \E D : Leads(D)
            \/ ~Broken /\ Breaking /\ \E D, m : Stuck(D, m)
<1>1. UpTo(db)
  BY DEF TableInv, Sure, Unsure
<1>2. CASE Broken
  BY <1>1, <1>2 DEF Mapped
<1>3. CASE ~Broken /\ Sure
  <2>1. PICK D : Leads(D)
    BY <1>3 DEF Sure
  <2> QED
    BY <1>1, <1>3, <2>1 DEF Mapped
<1>4. CASE Unsure
  <2>1. PICK D, m : Stuck(D, m)
    BY <1>4 DEF Unsure
  <2>2. ~Broken /\ Breaking
    BY <1>4, <2>1 DEF Mapped, Unsure
  <2> QED
    BY <1>1, <2>1, <2>2
<1> QED
  BY <1>2, <1>3, <1>4 DEF TableInv

LEMMA NothingMoves ==
  ASSUME TypeOK, TableInv, Mapped, Mapped', UNCHANGED <<db, queue, writer>>,
         ~Broken => \A D : Leads(D) => Leads(D)'
  PROVE  States' = States /\ Breaking' = Breaking
<1>1. (Broken' <=> Broken) /\ Done' = Done /\ Len(queue') = Len(queue)
  BY DEF Broken, Done
<1>2. CASE Broken
  BY <1>1, <1>2, BrokenStay
<1>3. CASE ~Broken /\ \E D : Leads(D)
  <2>1. PICK D : Leads(D) /\ Leads(D)'
    BY <1>3
  <2> QED
    BY <1>1, <1>3, <2>1, StatesStay
<1>4. CASE ~Broken /\ \E D, m : Stuck(D, m)
  <2>1. PICK D, m : Stuck(D, m)
    BY <1>4
  <2>2. Stuck(D, m)'
    BY <1>4, <2>1, CallsStayStuck
  <2> QED
    BY <1>1, <1>4, <2>1, <2>2, StuckStatesStay
<1> QED
  BY <1>2, <1>3, <1>4, Modes

LEMMA NewCallIsAllowed == (TypeOK /\ call # NoCall => Called \in Promise!Calls)'
BY CalledIsAllowed, PTL

LEMMA CallsKeep ==
  ASSUME TypeOK, OrderInv, TableInv, Mapped, Mapped',
         \/ SubmitWrite \/ RejectWrite \/ SubmitRevert \/ SubmitFlush \/ SubmitGet
         \/ CallRefused \/ Push \/ WaitEmpty \/ Flushed
         \/ GetFromQueue \/ GetFromDatabase
  PROVE  States' = States /\ Breaking' = Breaking
<1>1. UNCHANGED <<db, queue, writer>>
  BY DEF SubmitWrite, RejectWrite, SubmitRevert, SubmitFlush, SubmitGet, Begin,
         CallRefused, Push, CheckErr, WaitEmpty, Flushed, GetFromQueue, GetFromDatabase,
         queueVars
<1>2. ~Broken => \A D : Leads(D) => Leads(D)'
  BY CallsLead
<1> QED
  BY <1>1, <1>2, NothingMoves

LEMMA SubmitAbove ==
  ASSUME TypeOK, TypeOK', OrderInv, TableInv, Mapped, Mapped',
         SubmitWrite \/ SubmitRevert \/ SubmitFlush \/ SubmitGet
  PROVE  Promise!Submit
<1>1. call = NoCall /\ reply # Failure /\ reply' = NoReply
  BY DEF SubmitWrite, SubmitRevert, SubmitFlush, SubmitGet, Begin, Idle
<1>2. call' # NoCall
  <2>1. CASE SubmitWrite
    BY <2>1, SubmitsAWrite DEF NoCall
  <2>2. CASE SubmitRevert
    <3>1. call'.kind = "revert"
      BY <2>2 DEF SubmitRevert, Begin
    <3> QED
      BY <3>1 DEF NoCall
  <2>3. CASE SubmitFlush
    <3>1. call'.kind = "flush"
      BY <2>3 DEF SubmitFlush, Begin
    <3> QED
      BY <3>1 DEF NoCall
  <2>4. CASE SubmitGet
    <3>1. call'.kind = "get"
      BY <2>4 DEF SubmitGet
    <3> QED
      BY <3>1 DEF NoCall
  <2> QED
    BY <2>1, <2>2, <2>3, <2>4
<1>3. Called = NoCall
  BY <1>1, CallIsCalled
<1>4. Called' \in Promise!Calls
  BY <1>2, NewCallIsAllowed
<1>5. States' = States /\ Breaking' = Breaking
  BY CallsKeep
<1> QED
  BY <1>1, <1>3, <1>4, <1>5
  DEF Promise!Submit, NoCall, NoReply, Failure, Promise!NoCall, Promise!NoReply,
      Promise!Failure

LEMMA RejectAbove ==
  ASSUME TypeOK, OrderInv, TableInv, Mapped, Mapped', RejectWrite
  PROVE  Promise!Reject
<1>1. /\ call = NoCall /\ reply # Failure /\ reply' = Failure /\ call' = call
      /\ Called' = Called
  BY DEF RejectWrite, Idle, Called
<1>2. Called = NoCall
  BY <1>1, CallIsCalled
<1>3. States' = States /\ Breaking' = Breaking
  BY CallsKeep
<1> QED
  BY <1>1, <1>2, <1>3 DEF Promise!Reject, NoCall, Failure, Promise!NoCall, Promise!Failure

(* What queries answer, of a working store and of a broken one.            *)
LEMMA LastOpType ==
  ASSUME NEW rows \in SUBSET Rows, NEW k, NEW n, HasOp(rows, k, n)
  PROVE  LastOp(rows, k, n) \in Vals \cup {Absent}
<1> DEFINE R == {r \in rows : r.key = k /\ r.block <= n}
           B == {r.block : r \in R}
<1>1. /\ \A r \in rows : /\ r.block \in Nat /\ r.block <= BlockNumberMax
                         /\ r.val \in Vals \cup {Absent}
      /\ BlockNumberMax \in Nat
  BY DEF Rows, Blocks
<1>2. B \in SUBSET Nat /\ B # {} /\ \A m \in B : m <= BlockNumberMax
  BY <1>1 DEF HasOp
<1>3. PICK m \in B : \A l \in B : l <= m
  BY <1>1, <1>2, GreatestExists
<1>4. PICK r \in R : r.block = m
  OBVIOUS
<1>5. LastRow(rows, k, n, r)
  BY <1>3, <1>4 DEF LastRow
<1> DEFINE last == CHOOSE s \in rows : LastRow(rows, k, n, s)
<1>6. last \in rows
  BY <1>5
<1>7. LastOp(rows, k, n) = AfterOp(last, n)
  BY DEF LastOp
<1> HIDE DEF last
<1> QED
  BY <1>1, <1>6, <1>7 DEF AfterOp

LEMMA FromQueueType ==
  ASSUME TypeOK, NEW k, InQueue(k)
  PROVE  FromQueue(k) \in Vals \cup {Absent}
<1> DEFINE Newest(i) == Answers(k, i) /\ \A j \in i + 1 .. Len(queue) : ~Answers(k, j)
           T == {i \in 1 .. Len(queue) : Answers(k, i)}
<1>1. Len(queue) \in Nat
  BY DEF TypeOK
<1>2. \E i \in 1 .. Len(queue) : Newest(i)
  <2>1. T \in SUBSET Nat /\ T # {} /\ \A i \in T : i <= Len(queue)
    BY <1>1 DEF InQueue
  <2>2. PICK i \in T : \A j \in T : j <= i
    BY <1>1, <2>1, GreatestExists
  <2>3. \A j \in i + 1 .. Len(queue) : j \in 1 .. Len(queue) /\ ~(j <= i)
    BY <1>1
  <2> QED
    BY <2>2, <2>3
<1>3. PICK i \in 1 .. Len(queue) :
        Newest(i) /\ FromQueue(k) = LastOp(queue[i].rows, k, RevertAfter(i))
  BY <1>2 DEF FromQueue
<1>4. ~IsRevert(queue[i]) /\ HasOp(queue[i].rows, k, RevertAfter(i))
  BY <1>3 DEF Answers
<1>5. queue[i].rows \in SUBSET Rows
  BY <1>4, RequestFields
<1> QED
  BY <1>3, <1>4, <1>5, LastOpType

LEMMA ViewIs ==
  ASSUME TypeOK, ~Broken, Mapped, NEW D, Leads(D)
  PROVE  /\ States = Pile(D, Done, Len(queue))
         /\ Len(States) = Len(queue) - Done + 1
         /\ Promise!View = Contents(D[Len(queue)])
         /\ UpTo(D[Len(queue)])
         /\ Done \in Nat /\ Len(queue) \in Nat /\ Done <= Len(queue)
<1>1. Done \in Nat /\ Len(queue) \in Nat /\ Done <= Len(queue)
  <2>1. Len(queue) \in Nat /\ Done \in 0 .. Len(queue)
    BY PendingIsAhead
  <2> QED
    BY <2>1
<1>2. States = Pile(D, Done, Len(queue))
  BY DEF Mapped
<1>3. UpTo(D[Len(queue)])
  BY LastPointer
<1>4. /\ Len(Pile(D, Done, Len(queue))) = Len(queue) - Done + 1
      /\ Pile(D, Done, Len(queue))[Len(Pile(D, Done, Len(queue)))]
           = Contents(D[Len(queue)])
  <2>1. PICK a \in Nat, b \in Nat : a = Done /\ b = Len(queue) /\ a <= b
    BY <1>1
  <2>2. Len(Pile(D, a, b)) = b - a + 1
    BY <2>1, PileIs
  <2>3. Pile(D, a, b)[b - a + 1] = Contents(D[b])
    BY <2>1, PileEnds
  <2> QED
    BY <2>1, <2>2, <2>3
<1> QED
  BY <1>1, <1>2, <1>3, <1>4 DEF Promise!View

LEMMA LostAbove ==
  ASSUME TypeOK, Breaking, Breaking' = Breaking, States' = States,
         call # NoCall, call' = NoCall,
         \/ reply' = Failure
         \/ call.kind \in {"write", "revert"} /\ reply' = NoReply
         \/ call.kind = "get" /\ \E v \in Vals \cup {Absent} : reply' = Answer(v)
  PROVE  Promise!Lost
<1>1. Called # NoCall /\ Called.kind = call.kind
  BY CallIsCalled
<1>2. Called' = NoCall
  BY DEF Called, NoCall
<1> QED
  BY <1>1, <1>2
  DEF Promise!Lost, Promise!Return, NoCall, NoReply, Failure, Answer, Promise!NoCall,
      Promise!NoReply, Promise!Failure, Promise!Answer

LEMMA GetAbove ==
  ASSUME TypeOK, OrderInv, TableInv, Mapped, Mapped',
         GetFromQueue \/ GetFromDatabase, call' = NoCall
  PROVE  Promise!Get \/ Promise!Lost
<1>1. call.kind = "get" /\ call # NoCall /\ call.key \in Keys
  BY DEF GetFromQueue, GetFromDatabase, At, TypeOK, Calls, NoCall
<1>2. States' = States /\ Breaking' = Breaking /\ Called' = NoCall
  BY CallsKeep DEF Called, NoCall
<1>3. \/ InQueue(call.key) /\ reply' = Answer(FromQueue(call.key))
      \/ /\ At({"get"}, "db")
         /\ reply' = Answer(ValueAt(db.table, call.key, call.at))
      \/ reply' = Failure
  BY DEF GetFromQueue, GetFromDatabase, Return, NoCall
<1>4. CASE Breaking
  <2>1. ValueAt(db.table, call.key, call.at) \in Vals \cup {Absent}
    BY Modes, ValueType DEF UpTo
  <2>2. InQueue(call.key) => FromQueue(call.key) \in Vals \cup {Absent}
    BY FromQueueType
  <2>3. reply' = Failure \/ \E v \in Vals \cup {Absent} : reply' = Answer(v)
    BY <1>3, <2>1, <2>2
  <2> QED
    BY <1>1, <1>2, <1>4, <2>3, LostAbove
<1>5. CASE ~Breaking /\ reply' = Failure
  <2>1. Called.kind = "get"
    BY <1>1, CallIsCalled
  <2> QED
    BY <1>2, <1>5, <2>1
    DEF Promise!Get, Promise!Return, NoCall, Failure, Promise!NoCall, Promise!Failure
<1>6. CASE ~Breaking /\ reply' # Failure
  <2>0. ~Broken /\ \E D : Leads(D)
    BY <1>6, Modes
  <2>1. PICK D : Leads(D)
    BY <2>0
  <2>2. /\ Promise!View = Contents(D[Len(queue)]) /\ UpTo(D[Len(queue)])
        /\ Done \in Done .. Len(queue)
    <3>1. /\ Promise!View = Contents(D[Len(queue)]) /\ UpTo(D[Len(queue)])
          /\ Done \in Nat /\ Len(queue) \in Nat /\ Done <= Len(queue)
      BY <2>0, <2>1, ViewIs
    <3> QED
      BY <3>1
  <2>3. Promise!Entities(Promise!View)
        = [k \in Keys |-> ValueAt(D[Len(queue)].table, k, BlockNumberMax)]
    BY <2>2, EntitiesAre
  <2>4. Promise!Entities(Promise!View)[call.key]
        = ValueAt(D[Len(queue)].table, call.key, BlockNumberMax)
    BY <1>1, <2>3
  <2>5. InQueue(call.key) =>
          FromQueue(call.key) = ValueAt(D[Len(queue)].table, call.key, BlockNumberMax)
    BY <2>1, QueueIsLookedThrough DEF Leads
  <2>6. At({"get"}, "db") =>
          ValueAt(db.table, call.key, call.at)
            = ValueAt(D[Len(queue)].table, call.key, BlockNumberMax)
    BY <2>1, <2>2 DEF Leads, Asks
  <2>7. reply' = Answer(Promise!Entities(Promise!View)[call.key])
    BY <1>3, <1>6, <2>4, <2>5, <2>6
  <2>8. Called.kind = "get" /\ Called.key = call.key
    BY <1>1, CallIsCalled
  <2> QED
    BY <1>2, <1>6, <2>7, <2>8
    DEF Promise!Get, Promise!Return, NoCall, Answer, Promise!NoCall, Promise!Answer
<1> QED
  BY <1>4, <1>5, <1>6

LEMMA FlushAbove ==
  ASSUME TypeOK, OrderInv, FlushInv, TableInv, Mapped, Mapped', Flushed
  PROVE  Promise!Flush \/ Promise!Lost
<1>1. call.kind = "flush" /\ call # NoCall /\ queue = <<>> /\ call' = NoCall
  BY DEF Flushed, At, NoCall, FlushInv, CheckErr, Return
<1>2. States' = States /\ Breaking' = Breaking
  BY CallsKeep
<1>3. CASE Refused
  <2>1. Breaking /\ reply' = Failure
    BY <1>3 DEF Flushed, CheckErr, Return, OrderInv, Refused, Breaking
  <2> QED
    BY <1>1, <1>2, <2>1, LostAbove
<1>4. CASE ~Refused
  <2>1. reply' = Ok
    BY <1>4 DEF Flushed, CheckErr, Return
  <2>2. ~Broken /\ Done = 0 /\ Len(queue) = 0
    BY <1>1, <1>4 DEF FlushInv, Refused, Broken, Done, TypeOK
  <2>3. ~Breaking /\ \E D : Leads(D)
    <3>1. ~\E D, m : Stuck(D, m)
      BY <2>2 DEF Stuck
    <3> QED
      BY <2>2, <3>1, Modes
  <2>4. Len(States) = 1
    <3>1. Len(States) = Len(queue) - Done + 1
      <4>1. PICK D : Leads(D)
        BY <2>3
      <4> QED
        BY <2>2, <4>1, ViewIs
    <3> QED
      BY <2>2, <3>1
  <2>5. Called.kind = "flush" /\ Called' = NoCall
    BY <1>1, CallIsCalled DEF Called, NoCall
  <2> QED
    BY <1>2, <2>1, <2>3, <2>4, <2>5
    DEF Promise!Flush, Promise!Return, NoCall, Ok, Promise!NoCall, Promise!Ok
<1> QED
  BY <1>3, <1>4

(* Calls that are refused or go on to their next step.                     *)
LEMMA WaitAbove ==
  ASSUME TypeOK, OrderInv, TableInv, Mapped, Mapped',
         \/ CallRefused \/ Push \/ WaitEmpty
         \/ (GetFromQueue /\ call' # NoCall)
  PROVE  Promise!Lost \/ UNCHANGED Promise!vars
<1>1. States' = States /\ Breaking' = Breaking
  BY CallsKeep
<1>2. CASE CallRefused \/ (Push /\ Refused)
  <2>1. call # NoCall /\ call' = NoCall /\ reply' = Failure
    BY <1>2 DEF CallRefused, Push, CheckErr, Return, At, NoCall
  <2>2. Breaking
    BY <1>2, <2>1 DEF CallRefused, At, OrderInv, Refused, Breaking
  <2> QED
    BY <1>1, <2>1, <2>2, LostAbove
<1>3. CASE \/ Push /\ ~Refused
           \/ WaitEmpty \/ (GetFromQueue /\ call' # NoCall)
  <2>1. reply' = reply
    BY <1>3 DEF Push, CheckErr, GoOn, WaitEmpty, GetFromQueue, Return
  <2>2. Called' = Called
    <3>1. CASE Push /\ ~Refused
      <4>1. call' = [call EXCEPT !.pc = "room"] /\ call \in Calls /\ call # NoCall
        BY <3>1 DEF Push, CheckErr, GoOn, At, TypeOK, NoCall
      <4> QED
        BY <4>1 DEF Called, Calls, NoCall
    <3>2. CASE WaitEmpty
      <4>1. call' = [call EXCEPT !.pc = "done"] /\ call \in Calls /\ call.kind = "flush"
        BY <3>2 DEF WaitEmpty, GoOn, At, TypeOK
      <4> QED
        BY <4>1 DEF Called, Calls, NoCall
    <3>3. CASE GetFromQueue /\ call' # NoCall
      <4>1. call.kind = "get" /\ call'.kind = "get" /\ call'.key = call.key
        BY <3>3 DEF GetFromQueue, Return, At
      <4> QED
        BY <4>1 DEF Called
    <3> QED
      BY <1>3, <3>1, <3>2, <3>3
  <2> QED
    BY <1>1, <2>1, <2>2 DEF Promise!vars
<1> QED
  BY <1>2, <1>3

(* A request joins the queue, or the newest one.                           *)
LEMMA NewIsNew ==
  ASSUME TypeOK, ~Broken, Mapped, NEW D, Leads(D), call.kind = "write"
  PROVE  Promise!AllNew <=> ~Again(D)
<1>1. /\ Promise!View = Contents(D[Len(queue)]) /\ UpTo(D[Len(queue)])
  BY ViewIs
<1>2. Promise!Entities(Promise!View)
      = [k \in Keys |-> ValueAt(D[Len(queue)].table, k, BlockNumberMax)]
  BY <1>1, EntitiesAre
<1>3. Called.new = call.new /\ \A k \in call.new : k \in Keys
  BY CallIsCalled, ImmutableAssumption DEF TypeOK, Calls, NoCall, At
<1>4. \A k \in call.new :
        Promise!Entities(Promise!View)[k]
          = ValueAt(D[Len(queue)].table, k, BlockNumberMax)
  BY <1>2, <1>3
<1> QED
  BY <1>3, <1>4 DEF Promise!AllNew, Again

LEMMA TakenAsSeen ==
  ASSUME NEW D, Leads(D), call.kind = "write", ~Again(D)
  PROVE  \E saw : /\ \A j \in Keys :
                        saw[j] = ValueAt(D[Len(queue)].table, j, BlockNumberMax)
                  /\ call.rows = Modifications(saw, call.wants, call.block)
<1>1. PICK saw : saw = [k \in Keys |-> ValueAt(D[Len(queue)].table, k, BlockNumberMax)]
  OBVIOUS
<1>2. call.rows = Modifications(TakenAsNew(saw, call.new), call.wants, call.block)
  BY <1>1 DEF Leads, Asks
<1>3. saw = [k \in Keys |-> saw[k]] /\ \A k \in Keys \cap call.new : saw[k] = Absent
  BY <1>1 DEF Again
<1>4. TakenAsNew(saw, call.new) = saw
  BY <1>3, TakenRightly
<1>5. \A j \in Keys : saw[j] = ValueAt(D[Len(queue)].table, j, BlockNumberMax)
  BY <1>1
<1> QED
  BY <1>2, <1>4, <1>5

LEMMA EnqueueAbove ==
  ASSUME TypeOK, OrderInv, TableInv, Mapped, Mapped', Enqueue
  PROVE  Promise!Write \/ Promise!Doom \/ Promise!Revert \/ Promise!Lost
<1>1. /\ call.kind \in {"write", "revert"} /\ call' = NoCall /\ reply' = NoReply
      /\ call # NoCall /\ call \in Calls
      /\ queue' = Append(queue, Request) /\ UNCHANGED <<db, writer>>
  BY DEF Enqueue, At, Return, NoCall, TypeOK
<1>2. (Broken' <=> Broken) /\ Done' = Done
  BY <1>1 DEF Broken, Done
<1>3. Called' = NoCall
  BY <1>1 DEF Called, NoCall
<1>4. CASE Broken
  <2>1. States' = States /\ Breaking' = Breaking /\ Breaking
    BY <1>1, <1>2, <1>4, BrokenStay
  <2> QED
    BY <1>1, <2>1, LostAbove
<1>5. CASE ~Broken /\ \E D, m : Stuck(D, m)
  <2>1. PICK D, m : Stuck(D, m)
    BY <1>5
  <2>2. Stuck(D, m)'
    BY <1>5, <2>1, EnqueueStaysStuck
  <2>3. States' = States /\ Breaking' = Breaking /\ Breaking
    BY <1>2, <1>5, <2>1, <2>2, StuckStatesStay
  <2> QED
    BY <1>1, <2>3, LostAbove
<1>6. CASE ~Broken /\ \E D : Leads(D) /\ call.kind = "write" /\ Again(D)
  <2>1. PICK D : Leads(D) /\ call.kind = "write" /\ Again(D)
    BY <1>6
  <2>2. PICK m : m = Len(queue) /\ Stuck(D, m)'
    BY <1>6, <2>1, EnqueueSticks
  <2>3. States = Pile(D, Done, Len(queue)) /\ ~Breaking
    BY <1>6, <2>1 DEF Mapped
  <2>4. States' = Pile(D, Done', m) /\ Breaking'
    BY <1>2, <1>6, <2>2 DEF Mapped
  <2>5. UNCHANGED States /\ Breaking' = TRUE
    BY <1>2, <2>2, <2>3, <2>4, BreakingIsBoolean
  <2>6. ~Promise!AllNew /\ Called.kind = "write"
    BY <1>6, <2>1, NewIsNew, CallIsCalled
  <2> QED
    BY <1>1, <1>3, <2>3, <2>5, <2>6
    DEF Promise!Doom, NoCall, NoReply, Promise!NoCall, Promise!NoReply
<1>7. CASE ~Broken /\ \E D : Leads(D) /\ (call.kind = "write" => ~Again(D))
  <2>1. PICK D : Leads(D) /\ (call.kind = "write" => ~Again(D))
    BY <1>7
  <2>2. PICK E : /\ Leads(E)'
                 /\ \A i \in 0 .. Len(queue) : E[i] = D[i]
                 /\ E[Len(queue) + 1] = Outcome(D[Len(queue)], Request)
    BY <1>7, <2>1, EnqueueLeads
  <2>3. PICK a \in Nat, b \in Nat : a = Done /\ b = Len(queue) /\ a <= b
    <3>1. Done \in Nat /\ Len(queue) \in Nat /\ Done <= Len(queue)
      BY <1>7, <2>1, ViewIs
    <3> QED
      BY <3>1
  <2>4. /\ States = Pile(D, a, b) /\ Promise!View = Contents(D[b]) /\ UpTo(D[b])
    BY <1>7, <2>1, <2>3, ViewIs
  <2>5. Len(queue') = b + 1
    BY <1>1, <2>3 DEF TypeOK
  <2>6. States' = Pile(E, a, b + 1)
    <3>1. States' = Pile(E, Done', Len(queue'))
      BY <1>2, <1>7, <2>2 DEF Mapped
    <3>2. Done' = a
      BY <1>2, <2>3
    <3> QED
      BY <2>5, <3>1, <3>2
  <2>7. \A i \in a .. b : E[i] = D[i]
    <3>1. \A i \in 0 .. b : E[i] = D[i]
      BY <2>2, <2>3
    <3>2. \A i \in a .. b : i \in 0 .. b
      OBVIOUS
    <3> QED
      BY <3>1, <3>2
  <2>8. Pile(E, a, b + 1) = Append(Pile(D, a, b), Contents(E[b + 1]))
    <3>1. a <= b
      BY <2>3
    <3> QED
      BY <3>1, <2>7, PileGrows, ZenonT(30)
  <2>9. States' = Append(States, Contents(E[b + 1]))
    BY <2>4, <2>6, <2>8
  <2>10. Len(Promise!View) = D[b].ptr
    BY <2>4, ContentsAre
  <2>11. E[b + 1] = Outcome(D[b], Request)
    BY <2>2, <2>3
  <2>12. ~Breaking /\ Breaking' = Breaking
    <3>1. ~Breaking
      BY <1>7, <2>1 DEF Mapped
    <3>2. ~Breaking'
      BY <1>2, <1>7, <2>2 DEF Mapped
    <3> QED
      BY <3>1, <3>2, BreakingIsBoolean
  <2>13. CASE call.kind = "write"
    <3>1. /\ Called.kind = "write" /\ Called.block = call.block
          /\ Called.wants = call.wants
      BY <2>13, CallIsCalled
    <3>2. /\ ChangesAt(D[b].table, call.rows, call.block)
          /\ D[b].ptr < call.block /\ call.block \in Blocks
      BY <1>7, <2>1, <2>3, <2>13, CallChanges
    <3>3. /\ call.wants \in [Keys -> Vals \cup {Absent}]
      BY <1>1, <2>13 DEF Calls, NoCall
    <3>4. PICK saw : /\ \A j \in Keys : saw[j] = ValueAt(D[b].table, j, BlockNumberMax)
                     /\ call.rows = Modifications(saw, call.wants, call.block)
      BY <2>1, <2>3, <2>13, TakenAsSeen
    <3>5. /\ E[b + 1].table = ApplyModifications(D[b].table, call.rows)
          /\ E[b + 1].ptr = call.block
      BY <2>11, <2>13 DEF Outcome, Request, IsRevert
    <3>6. Contents(E[b + 1])
          = Promise!WriteTo(Contents(D[b]), call.block, call.wants)
      BY <2>4, <3>2, <3>3, <3>4, <3>5, ContentsWritten
    <3>7. States' = Append(States, Promise!WriteTo(Promise!View, Called.block,
                                                   Called.wants))
      BY <2>4, <2>9, <3>1, <3>6
    <3>8. call.block \in Nat /\ D[b].ptr \in Nat /\ Called.block > Len(Promise!View)
      <4>1. D[b].ptr \in Nat
        BY <2>4, ContentsAre
      <4> QED
        BY <2>10, <3>1, <3>2, <4>1 DEF Blocks
    <3>9. Promise!Change(Promise!WriteTo(Promise!View, Called.block, Called.wants))
      BY <3>7 DEF Promise!Change
    <3>10. Promise!AllNew
      BY <1>7, <2>1, <2>13, NewIsNew
    <3> QED
      BY <1>1, <1>3, <2>12, <3>1, <3>8, <3>9, <3>10
      DEF Promise!Write, Promise!Return, NoCall, NoReply, Promise!NoCall,
          Promise!NoReply
  <2>14. CASE call.kind = "revert"
    <3>1. Called.kind = "revert" /\ Called.block = call.block
      BY <2>14, CallIsCalled
    <3>2. call.block < D[b].ptr /\ call.block \in Nat
      <4>1. call.block < D[b].ptr
        BY <1>7, <2>1, <2>3, <2>14, LastPointer DEF OrderInv, CallFits
      <4> QED
        BY <1>1, <2>14, <4>1 DEF Calls, NoCall, Blocks
    <3>3. /\ E[b + 1].table = RevertBlock(D[b].table, call.block + 1)
          /\ E[b + 1].ptr = call.block
      BY <2>11, <2>14 DEF Outcome, Request, IsRevert
    <3>4. Contents(E[b + 1]) = Promise!RevertTo(Contents(D[b]), call.block)
      BY <2>4, <3>2, <3>3, ContentsReverted
    <3>5. States' = Append(States, Promise!RevertTo(Promise!View, Called.block))
      BY <2>4, <2>9, <3>1, <3>4
    <3>6. Called.block < Len(Promise!View)
      BY <2>10, <3>1, <3>2
    <3>7. Promise!Change(Promise!RevertTo(Promise!View, Called.block))
      BY <3>5 DEF Promise!Change
    <3> QED
      BY <1>1, <1>3, <2>12, <3>1, <3>6, <3>7
      DEF Promise!Revert, Promise!Return, NoCall, NoReply, Promise!NoCall,
          Promise!NoReply
  <2> QED
    BY <1>1, <2>13, <2>14
<1> QED
  BY <1>4, <1>5, <1>6, <1>7, Modes

LEMMA AppendAbove ==
  ASSUME TypeOK, OrderInv, TableInv, Mapped, Mapped', AppendToNewest
  PROVE  Promise!Write \/ Promise!Doom \/ Promise!Lost
<1>1. /\ call.kind = "write" /\ call' = NoCall /\ call # NoCall /\ call \in Calls
      /\ reply' \in {NoReply, Failure} /\ UNCHANGED <<db, writer>>
  BY DEF AppendToNewest, At, Return, NoCall, TypeOK
<1>2. (Broken' <=> Broken) /\ Done' = Done
  BY <1>1 DEF Broken, Done
<1>3. Called' = NoCall
  BY <1>1 DEF Called, NoCall
<1>4. CASE Broken
  <2>1. States' = States /\ Breaking' = Breaking /\ Breaking
    BY <1>1, <1>2, <1>4, BrokenStay
  <2> QED
    BY <1>1, <2>1, LostAbove
<1>5. CASE ~Broken /\ \E D, m : Stuck(D, m)
  <2>1. PICK D, m : Stuck(D, m)
    BY <1>5
  <2>2. Stuck(D, m)'
    BY <1>5, <2>1, AppendStaysStuck
  <2>3. States' = States /\ Breaking' = Breaking /\ Breaking
    BY <1>2, <1>5, <2>1, <2>2, StuckStatesStay
  <2> QED
    BY <1>1, <2>3, LostAbove
<1>6. CASE ~Broken /\ \E D : Leads(D) /\ Again(D)
  <2>1. PICK D : Leads(D) /\ Again(D)
    BY <1>6
  <2>2. PICK m : /\ m = Len(queue) - 1 /\ Stuck(D, m)'
                 /\ Len(queue) \in Nat /\ Done < Len(queue) /\ reply' = NoReply
    BY <1>6, <2>1, AppendSticks
  <2>3. PICK a \in Nat, b \in Nat : a = Done /\ b = Len(queue) /\ a < b
    <3>1. Done \in Nat
      BY DEF Done
    <3> QED
      BY <2>2, <3>1
  <2>4. States = Pile(D, a, b) /\ ~Breaking
    BY <1>6, <2>1, <2>3 DEF Mapped
  <2>5. States' = Pile(D, a, b - 1) /\ Breaking'
    <3>1. States' = Pile(D, Done', m) /\ Breaking'
      BY <1>2, <1>6, <2>2 DEF Mapped
    <3> QED
      BY <1>2, <2>2, <2>3, <3>1
  <2>6. /\ Len(Pile(D, a, b)) > 1
        /\ Pile(D, a, b - 1) = SubSeq(Pile(D, a, b), 1, Len(Pile(D, a, b)) - 1)
    BY <2>3, PileFront
  <2>7. /\ Len(States) > 1 /\ States' = SubSeq(States, 1, Len(States) - 1)
        /\ Breaking' = TRUE
    BY <2>4, <2>5, <2>6, BreakingIsBoolean
  <2>8. ~Promise!AllNew /\ Called.kind = "write"
    BY <1>1, <1>6, <2>1, NewIsNew, CallIsCalled
  <2> QED
    BY <1>1, <1>3, <2>2, <2>4, <2>7, <2>8
    DEF Promise!Doom, NoCall, NoReply, Promise!NoCall, Promise!NoReply
<1>7. CASE ~Broken /\ \E D : Leads(D) /\ ~Again(D)
  <2>1. PICK D : Leads(D) /\ ~Again(D)
    BY <1>7
  <2>2. PICK E : /\ Leads(E)' /\ Len(queue') = Len(queue)
                 /\ \A i \in 0 .. Len(queue) - 1 : E[i] = D[i]
                 /\ E[Len(queue)].table
                      = ApplyModifications(D[Len(queue)].table, call.rows)
                 /\ E[Len(queue)].ptr = call.block
                 /\ Done < Len(queue) /\ reply' = NoReply
    BY <1>7, <2>1, AppendLeads
  <2>3. PICK a \in Nat, b \in Nat : a = Done /\ b = Len(queue) /\ a < b
    <3>1. Done \in Nat /\ Len(queue) \in Nat
      BY <1>7, <2>1, ViewIs
    <3> QED
      BY <2>2, <3>1
  <2>4. /\ States = Pile(D, a, b) /\ Promise!View = Contents(D[b]) /\ UpTo(D[b])
    BY <1>7, <2>1, <2>3, ViewIs
  <2>5. States' = Pile(E, a, b)
    <3>1. States' = Pile(E, Done', Len(queue'))
      BY <1>2, <1>7, <2>2 DEF Mapped
    <3>2. Done' = a /\ Len(queue') = b
      BY <1>2, <2>2, <2>3
    <3> QED
      BY <3>1, <3>2
  <2>6. \A i \in a .. b - 1 : E[i] = D[i]
    <3>1. \A i \in 0 .. b - 1 : E[i] = D[i]
      BY <2>2, <2>3
    <3>2. \A i \in a .. b - 1 : i \in 0 .. b - 1
      OBVIOUS
    <3> QED
      BY <3>1, <3>2
  <2>7. Len(States) > 1 /\ States' = [States EXCEPT ![Len(States)] = Contents(E[b])]
    <3>1. a < b
      BY <2>3
    <3>2. Len(Pile(D, a, b)) > 1
      BY <2>6, <3>1, PileChanges
    <3>3. Pile(E, a, b) = [Pile(D, a, b) EXCEPT ![Len(Pile(D, a, b))] = Contents(E[b])]
      BY <2>6, <3>1, PileChanges
    <3> QED
      BY <2>4, <2>5, <3>2, <3>3, Zenon
  <2>8. Len(Promise!View) = D[b].ptr /\ D[b].ptr \in Nat
    BY <2>4, ContentsAre
  <2>9. /\ Called.kind = "write" /\ Called.block = call.block
        /\ Called.wants = call.wants
    BY <1>1, CallIsCalled
  <2>10. /\ ChangesAt(D[b].table, call.rows, call.block)
         /\ D[b].ptr < call.block /\ call.block \in Blocks
    BY <1>1, <1>7, <2>1, <2>3, CallChanges
  <2>11. call.wants \in [Keys -> Vals \cup {Absent}]
    BY <1>1 DEF Calls, NoCall
  <2>12. PICK saw : /\ \A j \in Keys : saw[j] = ValueAt(D[b].table, j, BlockNumberMax)
                    /\ call.rows = Modifications(saw, call.wants, call.block)
    BY <1>1, <2>1, <2>3, TakenAsSeen
  <2>13. /\ E[b].table = ApplyModifications(D[b].table, call.rows)
         /\ E[b].ptr = call.block
    BY <2>2, <2>3
  <2>14. Contents(E[b]) = Promise!WriteTo(Contents(D[b]), call.block, call.wants)
    BY <2>4, <2>10, <2>11, <2>12, <2>13, ContentsWritten
  <2>15. Promise!Change(Promise!WriteTo(Promise!View, Called.block, Called.wants))
    BY <2>4, <2>7, <2>9, <2>14 DEF Promise!Change
  <2>16. Called.block > Len(Promise!View)
    BY <2>8, <2>9, <2>10 DEF Blocks
  <2>17. reply' = NoReply
    BY <2>2
  <2>18. ~Breaking /\ Breaking' = Breaking
    <3>1. ~Breaking
      BY <1>7, <2>1 DEF Mapped
    <3>2. ~Breaking'
      BY <1>2, <1>7, <2>2 DEF Mapped
    <3> QED
      BY <3>1, <3>2, BreakingIsBoolean
  <2>19. Promise!AllNew
    BY <1>1, <1>7, <2>1, NewIsNew
  <2> QED
    BY <1>1, <1>3, <2>9, <2>15, <2>16, <2>17, <2>18, <2>19
    DEF Promise!Write, Promise!Return, NoCall, NoReply, Promise!NoCall,
        Promise!NoReply
<1> QED
  BY <1>4, <1>5, <1>6, <1>7, Modes

(* The writer commits, fails or goes on.                                   *)
LEMMA HeadIs ==
  ASSUME TypeOK, TableInv, Mapped
  PROVE  Head(States) = Contents(db)
<1>1. CASE Broken
  BY <1>1 DEF Mapped
<1>2. ASSUME NEW D, NEW a \in Nat, NEW b \in Nat, a <= b,
             States = Pile(D, a, b), db = D[a]
      PROVE  Head(States) = Contents(db)
  BY <1>2, PileEnds
<1>3. CASE ~Broken /\ \E D : Leads(D)
  <2>1. PICK D : Leads(D)
    BY <1>3
  <2>2. PICK a \in Nat, b \in Nat : a = Done /\ b = Len(queue) /\ a <= b
    <3>1. Done \in Nat /\ Len(queue) \in Nat /\ Done <= Len(queue)
      BY <1>3, <2>1, ViewIs
    <3> QED
      BY <3>1
  <2>3. States = Pile(D, a, b) /\ db = D[a]
    BY <1>3, <2>1, <2>2, ViewIs DEF Leads
  <2> QED
    BY <1>2, <2>2, <2>3
<1>4. CASE ~Broken /\ \E D, m : Stuck(D, m)
  <2>1. PICK D, m : Stuck(D, m)
    BY <1>4
  <2>2. PICK a \in Nat, b \in Nat : a = Done /\ b = m /\ a <= b
    <3>1. Done \in Nat /\ m \in Nat /\ Done <= m
      BY <1>4, <2>1, PendingIsAhead DEF Stuck
    <3> QED
      BY <3>1
  <2>3. States = Pile(D, a, b) /\ db = D[a]
    BY <1>4, <2>1, <2>2 DEF Mapped, Stuck
  <2> QED
    BY <1>2, <2>2, <2>3
<1> QED
  BY <1>1, <1>3, <1>4, Modes

LEMMA BackgroundAbove ==
  ASSUME TypeOK, OrderInv, TableInv, Mapped, Mapped', Background
  PROVE  Promise!Commit \/ Promise!Fail \/ UNCHANGED Promise!vars
<1>1. UNCHANGED <<call, reply>> /\ Called' = Called
  BY DEF Background, Peek, Execute, ExecuteFails, Pop, Poison, Clear, Called
<1>2. CASE Peek
  <2>1. ~Broken /\ ~Broken' /\ db' = db
    BY <1>2 DEF Peek, Broken
  <2>2. CASE \E D : Leads(D)
    <3>1. PICK D : Leads(D)
      BY <2>2
    <3>2. Leads(D)' /\ Len(queue') = Len(queue) /\ Done' = Done
      BY <1>2, <2>1, <3>1, PeekLeads
    <3>3. States' = States /\ Breaking' = Breaking
      BY <2>1, <3>1, <3>2, StatesStay
    <3> QED
      BY <1>1, <3>3 DEF Promise!vars
  <2>3. CASE \E D, m : Stuck(D, m)
    <3>1. PICK D, m : Stuck(D, m)
      BY <2>3
    <3>2. Stuck(D, m)' /\ Done' = Done
      BY <1>2, <2>1, <3>1, PeekStaysStuck
    <3>3. States' = States /\ Breaking' = Breaking
      BY <2>1, <3>1, <3>2, StuckStatesStay
    <3> QED
      BY <1>1, <3>3 DEF Promise!vars
  <2> QED
    BY <2>1, <2>2, <2>3, Modes
<1>3. CASE Execute
  <2>1. ~Broken /\ ~Broken' /\ Len(queue) \in Nat /\ 0 < Len(queue)
    BY <1>3 DEF Execute, Broken, TypeOK
  <2>2. ASSUME NEW D, NEW b \in Nat, 0 < b, States = Pile(D, 0, b),
               States' = Pile(D, 1, b), Breaking' = Breaking
        PROVE  Promise!Commit
    <3>1. Pile(D, 0 + 1, b) = Tail(Pile(D, 0, b)) /\ Len(Pile(D, 0, b)) > 1
      BY <2>2, PileShrinks
    <3>2. States' = Tail(States) /\ Len(States) > 1
      BY <2>2, <3>1
    <3> QED
      BY <1>1, <2>2, <3>2 DEF Promise!Commit
  <2>3. CASE \E D : Leads(D)
    <3>1. PICK D : Leads(D)
      BY <2>3
    <3>2. Leads(D)' /\ queue' = queue /\ Done = 0 /\ Done' = 1
      BY <1>3, <2>1, <3>1, ExecuteLeads
    <3>3. PICK b \in Nat : b = Len(queue) /\ 0 < b
      BY <2>1
    <3>4. States = Pile(D, 0, b) /\ ~Breaking
      BY <2>1, <3>1, <3>2, <3>3 DEF Mapped
    <3>5. States' = Pile(D, 1, b) /\ ~Breaking'
      BY <2>1, <3>2, <3>3 DEF Mapped
    <3> QED
      BY <2>2, <3>3, <3>4, <3>5, BreakingIsBoolean
  <2>4. CASE \E D, m : Stuck(D, m)
    <3>1. PICK D, m : Stuck(D, m)
      BY <2>4
    <3>2. Stuck(D, m)' /\ Done = 0 /\ Done' = 1 /\ m \in Nat /\ 1 <= m
      BY <1>3, <2>1, <3>1, ExecuteStaysStuck
    <3>3. 0 < m
      BY <3>2
    <3>4. States = Pile(D, 0, m) /\ Breaking
      BY <2>1, <3>1, <3>2 DEF Mapped
    <3>5. States' = Pile(D, 1, m) /\ Breaking'
      BY <2>1, <3>2 DEF Mapped
    <3> QED
      BY <2>2, <3>2, <3>3, <3>4, <3>5, BreakingIsBoolean
  <2> QED
    BY <2>1, <2>3, <2>4, Modes
<1>4. CASE ExecuteFails
  <2>1. Broken' /\ db' = db
    BY <1>4 DEF ExecuteFails, Broken
  <2>2. States' = [i \in 1 .. 1 |-> Contents(db)] /\ Breaking'
    BY <2>1 DEF Mapped
  <2>3. Head(States) = Contents(db)
    BY HeadIs
  <2>4. States' = <<Head(States)>>
    BY <2>2, <2>3
  <2>5. Breaking' = TRUE
    BY <2>2, BreakingIsBoolean
  <2> QED
    BY <1>1, <2>4, <2>5 DEF Promise!Fail
<1>5. CASE Pop
  <2>1. ~Broken /\ ~Broken' /\ Len(queue) \in Nat /\ 0 < Len(queue)
    BY <1>5 DEF Pop, Broken, TypeOK
  <2>2. ASSUME NEW D, NEW E, NEW b \in Nat, \A i \in 0 .. b : D[i + 1] = E[i],
               States = Pile(D, 1, b + 1), States' = Pile(E, 0, b),
               Breaking' = Breaking
        PROVE  UNCHANGED Promise!vars
    <3>1. Pile(D, 1, b + 1) = Pile(E, 0, b)
      BY <2>2, PileMoves, Zenon
    <3> QED
      BY <1>1, <2>2, <3>1 DEF Promise!vars
  <2>3. CASE \E D : Leads(D)
    <3>1. PICK D : Leads(D)
      BY <2>3
    <3>2. PICK E : /\ Leads(E)' /\ Len(queue') = Len(queue) - 1
                   /\ Done = 1 /\ Done' = 0
                   /\ \A i \in 0 .. Len(queue) - 1 : E[i] = D[i + 1]
      BY <1>5, <2>1, <3>1, PopLeads
    <3>3. PICK b \in Nat : b = Len(queue) - 1 /\ Len(queue) = b + 1
      BY <2>1
    <3>4. States = Pile(D, 1, b + 1) /\ ~Breaking
      BY <2>1, <3>1, <3>2, <3>3 DEF Mapped
    <3>5. States' = Pile(E, 0, b) /\ ~Breaking'
      <4>1. States' = Pile(E, Done', Len(queue')) /\ ~Breaking'
        BY <2>1, <3>2 DEF Mapped
      <4> QED
        BY <3>2, <3>3, <4>1
    <3>6. \A i \in 0 .. b : D[i + 1] = E[i]
      BY <3>2, <3>3
    <3> QED
      BY <2>2, <3>4, <3>5, <3>6, BreakingIsBoolean
  <2>4. CASE \E D, m : Stuck(D, m)
    <3>1. PICK D, m : Stuck(D, m)
      BY <2>4
    <3>2. PICK E : /\ Stuck(E, m - 1)' /\ Done = 1 /\ Done' = 0
                   /\ m \in Nat /\ 1 <= m
                   /\ \A i \in 0 .. m - 1 : E[i] = D[i + 1]
      BY <1>5, <2>1, <3>1, PopStaysStuck
    <3>3. PICK b \in Nat : b = m - 1 /\ m = b + 1
      BY <3>2
    <3>4. States = Pile(D, 1, b + 1) /\ Breaking
      BY <2>1, <3>1, <3>2, <3>3 DEF Mapped
    <3>5. States' = Pile(E, 0, b) /\ Breaking'
      <4>1. Stuck(E, b)'
        BY <3>2, <3>3
      <4> QED
        BY <2>1, <3>2, <4>1 DEF Mapped
    <3>6. \A i \in 0 .. b : D[i + 1] = E[i]
      BY <3>2, <3>3
    <3> QED
      BY <2>2, <3>4, <3>5, <3>6, BreakingIsBoolean
  <2> QED
    BY <2>1, <2>3, <2>4, Modes
<1>6. CASE Poison \/ Clear
  <2>1. Broken /\ Broken' /\ db' = db
    BY <1>6 DEF Poison, Clear, Broken
  <2>2. States' = States /\ Breaking' = Breaking
    BY <2>1, BrokenStay
  <2> QED
    BY <1>1, <2>2 DEF Promise!vars
<1> QED
  BY <1>2, <1>3, <1>4, <1>5, <1>6 DEF Background

LEMMA FreshStates ==
  ASSUME UpTo(db), Fresh(db), db' = db, call' = NoCall, Mapped'
  PROVE  States' = [i \in 1 .. 1 |-> Contents(db)] /\ Breaking' = FALSE
<1>1. queue' = <<>> /\ writer' = "peek"
  BY DEF Fresh
<1>2. ~Broken' /\ Done' = 0 /\ Len(queue') = 0
  BY <1>1 DEF Broken, Done
<1>3. PICK D : Leads(D)' /\ D[0] = db
  BY FreshLeads
<1>4. States' = Pile(D, Done', Len(queue')) /\ ~Breaking'
  BY <1>2, <1>3 DEF Mapped
<1>5. Pile(D, 0, 0) = [i \in 1 .. 1 |-> Contents(db)]
  <2>1. 0 - 0 + 1 = 1 /\ \A i \in 1 .. 1 : i - 1 + 0 = 0
    OBVIOUS
  <2> QED
    BY <1>3, <2>1 DEF Pile
<1> QED
  BY <1>2, <1>4, <1>5, BreakingIsBoolean

LEMMA RestartAbove ==
  ASSUME TypeOK, OrderInv, TableInv, Mapped, Mapped', Restart
  PROVE  Promise!Restart
<1>1. /\ reply = Failure /\ reply' = NoReply /\ UNCHANGED <<db, call>>
      /\ call = NoCall /\ Called' = Called
  BY DEF Restart, OrderInv, Called
<1>2. CASE poisoned
  <2>1. Broken /\ Fresh(db)
    BY <1>2 DEF OrderInv, Restart
  <2>2. States' = [i \in 1 .. 1 |-> Contents(db)] /\ Breaking' = FALSE
    BY <1>1, <2>1, Modes, FreshStates
  <2>3. States = [i \in 1 .. 1 |-> Contents(db)]
    BY <2>1 DEF Mapped
  <2>4. States' = States /\ Breaking' = FALSE
    BY <2>2, <2>3
  <2> QED
    BY <1>1, <2>4
    DEF Promise!Restart, NoReply, Failure, Promise!NoReply, Promise!Failure
<1>3. CASE ~poisoned
  <2>1. UNCHANGED <<queue, writer>>
    BY <1>3 DEF Restart, queueVars
  <2>2. ~Broken => \A D : Leads(D) => Leads(D)'
    BY <1>1, <2>1 DEF Leads, Asks, At, Done
  <2>3. States' = States /\ Breaking' = Breaking
    BY <1>1, <2>1, <2>2, NothingMoves
  <2> QED
    BY <1>1, <2>3
    DEF Promise!Restart, NoReply, Failure, Promise!NoReply, Promise!Failure
<1> QED
  BY <1>2, <1>3

LEMMA CrashAbove ==
  ASSUME TypeOK, TableInv, Mapped, Mapped', Crash
  PROVE  Promise!Crash
<1>1. /\ Fresh(db) /\ db' = db /\ call' = NoCall /\ reply' = NoReply
      /\ Called' = NoCall
  BY DEF Crash, Called, NoCall
<1>2. States' = [i \in 1 .. 1 |-> Contents(db)] /\ Breaking' = FALSE
  BY <1>1, Modes, FreshStates
<1>3. Head(States) = Contents(db)
  BY HeadIs
<1>4. States' = <<Head(States)>> /\ Breaking' = FALSE
  BY <1>2, <1>3
<1> QED
  BY <1>1, <1>4 DEF Promise!Crash, NoCall, NoReply, Promise!NoCall, Promise!NoReply

LEMMA StepAbove ==
  ASSUME TypeOK, TypeOK', OrderInv, FlushInv, TableInv, Mapped, Mapped',
         [Next]_vars
  PROVE  [Promise!Next]_(Promise!vars)
<1> USE DEF Promise!Next
<1>1. CASE SubmitWrite \/ SubmitRevert \/ SubmitFlush \/ SubmitGet
  BY <1>1, SubmitAbove
<1>2. CASE CallRefused \/ Push \/ WaitEmpty \/ (GetFromQueue /\ call' # NoCall)
  BY <1>2, WaitAbove
<1>3. CASE (GetFromQueue /\ call' = NoCall) \/ GetFromDatabase
  <2>1. call' = NoCall
    BY <1>3 DEF GetFromDatabase, Return
  <2> QED
    BY <1>3, <2>1, GetAbove
<1>4. CASE Flushed
  BY <1>4, FlushAbove
<1>5. CASE AppendToNewest
  BY <1>5, AppendAbove
<1>6. CASE Enqueue
  BY <1>6, EnqueueAbove
<1>7. CASE Restart
  BY <1>7, RestartAbove
<1>8. CASE Background
  BY <1>8, BackgroundAbove
<1>9. CASE Crash
  BY <1>9, CrashAbove
<1>10. CASE RejectWrite
  BY <1>10, RejectAbove
<1>11. CASE UNCHANGED vars
  <2>1. UNCHANGED <<db, queue, writer, call, reply>>
    BY <1>11 DEF vars
  <2>2. Called' = Called
    BY <2>1 DEF Called
  <2>3. ~Broken => \A D : Leads(D) => Leads(D)'
    BY <2>1 DEF Leads, Asks, At, Done
  <2>4. States' = States /\ Breaking' = Breaking
    BY <2>1, <2>3, NothingMoves
  <2> QED
    BY <2>1, <2>2, <2>4 DEF Promise!vars
<1> QED
  BY <1>1, <1>2, <1>3, <1>4, <1>5, <1>6, <1>7, <1>8, <1>9, <1>10, <1>11
  DEF Next, Runner

LEMMA InitAbove ==
  ASSUME Init, TypeOK, Mapped
  PROVE  Promise!Init
<1>1. /\ ~Broken /\ Done = 0 /\ Len(queue) = 0 /\ db.ptr = 0
      /\ call = NoCall /\ reply = NoReply
  BY DEF Init, Broken, Done
<1>2. PICK D : Leads(D)
  <2>1. TableInv /\ ~\E D, m : Stuck(D, m)
    BY <1>1, TableInit DEF Stuck
  <2> QED
    BY <1>1, <2>1, Modes
<1>3. D[0] = db /\ States = Pile(D, 0, 0) /\ Breaking = FALSE
  BY <1>1, <1>2, BreakingIsBoolean DEF Leads, Mapped
<1>4. Contents(D[0]) = <<>>
  BY <1>1, <1>3 DEF Contents
<1>5. Pile(D, 0, 0) = << <<>> >>
  <2>1. 0 - 0 + 1 = 1 /\ \A i \in 1 .. 1 : i - 1 + 0 = 0
    OBVIOUS
  <2>2. Pile(D, 0, 0) = [i \in 1 .. 1 |-> <<>>]
    BY <1>4, <2>1 DEF Pile
  <2> QED
    BY <2>2
<1>6. States = << <<>> >> /\ Called = NoCall
  BY <1>1, <1>3, <1>5 DEF Called, NoCall
<1> QED
  BY <1>1, <1>3, <1>6 DEF Promise!Init, NoCall, NoReply, Promise!NoCall, Promise!NoReply

(* The store keeps the promise of EntityStore: writes and reverts take     *)
(* effect for the runner in the order it makes them, though they wait in a *)
(* queue, are added to a batch that waits there, and are committed several *)
(* blocks at a time; a query sees what the last of them left, whether the  *)
(* queue or the database answers it and whatever the writer commits in     *)
(* between; a flush returns only when everything has been committed; and   *)
(* an error of the database or a crash undoes exactly what has not been.   *)
(* Only a write that takes an immutable entity to be new which is there    *)
(* already makes the store lose what is to come, and it always does.       *)
THEOREM StoreKeepsItsPromise == Spec => KeepsPromise
<1>1. Init => TypeOK /\ OrderInv /\ FlushInv /\ TableInv
  BY InitType, OrderInit, FlushInit, TableInit
<1>2. /\ TypeOK /\ OrderInv /\ FlushInv /\ TableInv /\ [Next]_vars
      => (TypeOK /\ OrderInv /\ FlushInv /\ TableInv)'
  BY RunnerType, BackgroundType, CrashType, OrderStep, FlushStep, TableStep DEF Next
<1>3. TypeOK => Mapped
  BY StatesAreMapped
<1>4. Init /\ TypeOK /\ Mapped => Promise!Init
  BY InitAbove
<1>5. /\ TypeOK /\ TypeOK' /\ OrderInv /\ FlushInv /\ TableInv
      /\ Mapped /\ Mapped' /\ [Next]_vars
      => [Promise!Next]_(Promise!vars)
  BY StepAbove
<1> QED
  BY <1>1, <1>2, <1>3, <1>4, <1>5, PTL DEF Spec, KeepsPromise, Promise!Spec
=============================================================================
