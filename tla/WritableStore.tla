--------------------------- MODULE WritableStore ---------------------------
(***************************************************************************)
(* A deployment's WritableStore (store/postgres/src/writable.rs): the      *)
(* runner's writes and reverts wait in a bounded queue for a background    *)
(* task that commits them, several blocks to a transaction; its queries    *)
(* look through the queue before they ask the database.                    *)
(*                                                                         *)
(* One task, the runner, makes the calls, one at a time.  Whether a batch  *)
(* is young and light enough to be added to, and whether the writer waits  *)
(* for it to grow, are matters of time and weight and left open; that      *)
(* takes the batch_writes flag in, which a write sets before it reads it.  *)
(***************************************************************************)
EXTENDS WriteBatch, Sequences

CONSTANTS
  Capacity,   \* GRAPH_STORE_WRITE_QUEUE, not 0: the queue is in use
  LastBlock,  \* bound: the highest block
  Wanted      \* bound: what each block may leave the entities as

ASSUME StoreAssumption ==
  /\ Capacity \in Nat \ {0}
  /\ LastBlock \in 0 .. BlockNumberMax - 1
ASSUME WantedAssumption ==
  Wanted \in [Blocks -> SUBSET [Keys -> Vals \cup {Absent}]]

VARIABLES
  db,        \* the entity table and the block pointer in the database
  queue,     \* the requests, oldest first
  writer,    \* where the background task is
  writeErr,  \* there is an error to report
  poisoned,
  ptr,       \* the in-memory block pointer
  call,      \* the runner's call, and where it is
  reply      \* what the last query, flush or failure returned

vars == <<db, queue, writer, writeErr, poisoned, ptr, call, reply>>
queueVars == <<queue, writer, writeErr, poisoned>>

NoCall  == [kind |-> "none"]
NoReply == [kind |-> "none"]
Ok      == [kind |-> "ok"]
Failure == [kind |-> "error"]
Answer(val) == [kind |-> "entity", val |-> val]

FreshWithOldPointer(d) ==
  /\ queue' = <<>> /\ writer' = "peek"
  /\ writeErr' = FALSE /\ poisoned' = FALSE
  /\ UNCHANGED ptr
Fresh(d) ==
  /\ queue' = <<>> /\ writer' = "peek"
  /\ writeErr' = FALSE /\ poisoned' = FALSE
  /\ ptr' = d.ptr

Init ==
  /\ db = [table |-> {}, ptr |-> 0]
  /\ queue = <<>> /\ writer = "peek"
  /\ writeErr = FALSE /\ poisoned = FALSE
  /\ ptr = 0 /\ call = NoCall /\ reply = NoReply
-----------------------------------------------------------------------------
(* BlockTracker: requests are looked at from the newest to the oldest.     *)
IsRevert(req) == req.kind = "revert"
Lowest(S) == CHOOSE n \in S : \A m \in S : n <= m

(* The lowest block that a revert behind the i-th request goes back to.    *)
RevertAfter(i) ==
  Lowest({BlockNumberMax}
           \cup {queue[j].block : j \in {k \in i + 1 .. Len(queue) :
                                           IsRevert(queue[k])}})
Answers(k, i) ==
  /\ ~IsRevert(queue[i])
  /\ queue[i].first <= RevertAfter(i)
  /\ HasOp(queue[i].rows, k, RevertAfter(i))

InQueue(k) == \E i \in 1 .. Len(queue) : Answers(k, i)
FromQueue(k) ==
  LET newest == CHOOSE i \in 1 .. Len(queue) :
                  /\ Answers(k, i)
                  /\ \A j \in i + 1 .. Len(queue) : ~Answers(k, j)
  IN  LastOp(queue[newest].rows, k, RevertAfter(newest))

(* The highest block that nothing in the queue changes.                    *)
QueryBlock ==
  Lowest({BlockNumberMax}
           \cup {IF IsRevert(queue[i]) THEN queue[i].block
                 ELSE queue[i].block - 1 : i \in 1 .. Len(queue)})

Seen(k) == IF InQueue(k) THEN FromQueue(k)
           ELSE ValueAt(db.table, k, QueryBlock)
-----------------------------------------------------------------------------
(* The runner calls.  Once it has been told of an error it sleeps for      *)
(* seconds, or opens a new block stream, before its next call; a writer in *)
(* the middle of record_err has executed the next statement by then.       *)
Idle == call = NoCall /\ reply # Failure /\ (writer = "poison" => writeErr)
At(kinds, pc) == call.kind \in kinds /\ call.pc = pc
Return(r) == call' = NoCall /\ reply' = r
GoOn(pc) == call' = [call EXCEPT !.pc = pc] /\ UNCHANGED reply

(* check_err: the error is reported once, then that the store is poisoned. *)
Refused == writeErr \/ poisoned
CheckErr(next) ==
  /\ writeErr' = FALSE
  /\ IF Refused THEN Return(Failure) ELSE next

(* A call but get begins with check_queue_running.                         *)
Begin(c) ==
  /\ Idle
  /\ call' = IF Refused THEN [c EXCEPT !.pc = "refused"] ELSE c
  /\ reply' = NoReply
  /\ writeErr' = FALSE
  /\ UNCHANGED <<db, queue, writer, poisoned>>

(* transact_block_operations, for the changes the entity cache has found;  *)
(* new are the immutable entities it has not looked up.                    *)
WriteCall(n, wants, new) ==
  [kind |-> "write", pc |-> "push", block |-> n, wants |-> wants, new |-> new,
   rows |-> Modifications(TakenAsNew([k \in Keys |-> Seen(k)], new), wants, n)]
SubmitWrite ==
  /\ \E n \in ptr + 1 .. LastBlock : \E wants \in Wanted[n] :
       \E new \in SUBSET {k \in Immutable : wants[k] # Absent} :
         /\ OnlyInserts(WriteCall(n, wants, new).rows)
         /\ Begin(WriteCall(n, wants, new))
  /\ UNCHANGED ptr

(* It returns an error before it comes to the queue, and to what the queue *)
(* has to report, for a block not after the pointer, for changes that are  *)
(* not OnlyInserts, and, for any block, when deployment_synced or a query  *)
(* of the entity cache fails in the database.                              *)
RejectWrite ==
  /\ Idle
  /\ reply' = Failure
  /\ UNCHANGED <<db, queueVars, ptr, call>>

(* revert_block_operations sets the pointer first.  The runner reverts     *)
(* only to a block before it.                                              *)
NotAfterPointer == 0 .. ptr
BeforePointer == 0 .. ptr - 1
SubmitRevert ==
  \E n \in BeforePointer :
    /\ Begin([kind |-> "revert", pc |-> "push", block |-> n])
    /\ ptr' = n

SubmitFlush == Begin([kind |-> "flush", pc |-> "empty"]) /\ UNCHANGED ptr

SubmitGet ==
  /\ Idle
  /\ \E k \in Keys : call' = [kind |-> "get", pc |-> "queue", key |-> k]
  /\ reply' = NoReply
  /\ UNCHANGED <<db, queueVars, ptr>>

CallRefused ==
  /\ At({"write", "revert", "flush"}, "refused")
  /\ Return(Failure)
  /\ UNCHANGED <<db, queueVars, ptr>>

(* push_write: a batch joins the newest request if that is a write that    *)
(* the writer has not begun with.                                          *)
NewestIsWrite == queue # <<>> /\ ~IsRevert(queue[Len(queue)])
MayAppend == NewestIsWrite /\ ~queue[Len(queue)].processed

AppendToNewest ==
  LET n == Len(queue)
      newest == queue[n]
      fits == call.block > newest.block /\ Fits(newest.rows, call.rows)
  IN  /\ At({"write"}, "push")
      /\ MayAppend
      /\ queue' = [queue EXCEPT ![n] =
           IF fits THEN [newest EXCEPT !.block = call.block,
                                       !.rows = AppendRows(newest.rows, call.rows)]
           ELSE [newest EXCEPT !.bad = TRUE]]
      /\ IF fits THEN Return(NoReply) /\ ptr' = call.block
         ELSE Return(Failure) /\ UNCHANGED ptr
      /\ UNCHANGED <<db, writer, writeErr, poisoned>>

(* push: wait for room in the queue.                                       *)
Push ==
  /\ At({"write", "revert"}, "push")
  /\ CheckErr(GoOn("room"))
  /\ UNCHANGED <<db, queue, writer, poisoned, ptr>>

Request ==
  IF call.kind = "write"
  THEN [kind |-> "write", first |-> call.block, block |-> call.block,
        rows |-> call.rows, bad |-> FALSE, processed |-> FALSE]
  ELSE [kind |-> "revert", block |-> call.block, processed |-> FALSE]

OverfullRoom == Len(queue) <= Capacity
Room == Len(queue) < Capacity

Enqueue ==
  /\ At({"write", "revert"}, "room")
  /\ Room
  /\ queue' = Append(queue, Request)
  /\ ptr' = call.block
  /\ Return(NoReply)
  /\ UNCHANGED <<db, writer, writeErr, poisoned>>

(* flush: wait until the queue is empty, then look for an error.           *)
WaitEmpty ==
  /\ At({"flush"}, "empty")
  /\ queue = <<>>
  /\ GoOn("done")
  /\ UNCHANGED <<db, queueVars, ptr>>

Flushed ==
  /\ At({"flush"}, "done")
  /\ CheckErr(Return(Ok))
  /\ UNCHANGED <<db, queue, writer, poisoned, ptr>>

(* get (get_many is the same for each of its keys): the queue is looked    *)
(* through under its lock, the database afterwards.                        *)
GetFromQueue ==
  /\ At({"get"}, "queue")
  /\ IF InQueue(call.key) THEN Return(Answer(FromQueue(call.key)))
     ELSE /\ call' = [kind |-> "get", pc |-> "db", key |-> call.key,
                      at |-> QueryBlock]
          /\ UNCHANGED reply
  /\ UNCHANGED <<db, queueVars, ptr>>

GetFromDatabase ==
  /\ At({"get"}, "db")
  /\ \/ Return(Answer(ValueAt(db.table, call.key, call.at)))
     \/ Return(Failure)
  /\ UNCHANGED <<db, queueVars, ptr>>

(* After an error the runner calls restart: a poisoned store is replaced   *)
(* by a new one, in the state of the database.                             *)
Restart ==
  /\ reply = Failure
  /\ reply' = NoReply
  /\ IF poisoned THEN Fresh(db) ELSE UNCHANGED <<queueVars, ptr>>
  /\ UNCHANGED <<db, call>>
-----------------------------------------------------------------------------
(* The background writer.                                                  *)
Oldest == Head(queue)

Peek ==
  /\ writer = "peek" /\ queue # <<>>
  /\ writer' = "execute"
  /\ queue' = [queue EXCEPT ![1].processed = TRUE]
  /\ UNCHANGED <<db, writeErr, poisoned, ptr, call, reply>>

(* transact_block_operations and revert_block_operations in the database,  *)
(* with the sanity checks that processing goes forward and reverts go      *)
(* backward, and the table's that an immutable entity has one version.     *)
Allowed(req) ==
  IF IsRevert(req) THEN req.block < db.ptr
  ELSE ~req.bad /\ req.block > db.ptr /\ ~Duplicates(db.table, req.rows)
Outcome(d, req) ==
  [table |-> IF IsRevert(req) THEN RevertBlock(d.table, req.block + 1)
             ELSE ApplyModifications(d.table, req.rows),
   ptr |-> req.block]

Execute ==
  /\ writer = "execute"
  /\ Allowed(Oldest)
  /\ db' = Outcome(db, Oldest)
  /\ writer' = "pop"
  /\ UNCHANGED <<queue, writeErr, poisoned, ptr, call, reply>>

(* The request is not allowed, or the database reports an error (kept in   *)
(* write_err for the runner).  That can be after it has committed: a call  *)
(* that is tried again because the database went away then finds that it   *)
(* no longer goes the right way.                                           *)
ExecuteFails ==
  /\ writer \in {"execute", "pop"}
  /\ writer' = "poison"
  /\ writeErr' = TRUE
  /\ UNCHANGED <<db, queue, poisoned, ptr, call, reply>>

Pop ==
  /\ writer = "pop"
  /\ writer' = "peek"
  /\ queue' = Tail(queue)
  /\ UNCHANGED <<db, writeErr, poisoned, ptr, call, reply>>

(* The rest of record_err, a step at a time.                                *)
Poison ==
  /\ writer = "poison"
  /\ writer' = "clear"
  /\ poisoned' = TRUE
  /\ UNCHANGED <<db, queue, writeErr, ptr, call, reply>>

ClearNothing ==
  /\ writer = "clear"
  /\ writer' = "dead"
  /\ UNCHANGED <<db, queue, writeErr, poisoned, ptr, call, reply>>
Clear ==
  /\ writer = "clear"
  /\ IF queue = <<>> THEN writer' = "dead" /\ UNCHANGED queue
     ELSE queue' = Tail(queue) /\ UNCHANGED writer
  /\ UNCHANGED <<db, writeErr, poisoned, ptr, call, reply>>

(* The process dies and starts again.                                      *)
Crash ==
  /\ Fresh(db)
  /\ call' = NoCall /\ reply' = NoReply
  /\ UNCHANGED db

Runner ==
  \/ CallRefused \/ AppendToNewest \/ Push \/ Enqueue
  \/ WaitEmpty \/ Flushed \/ GetFromQueue \/ GetFromDatabase \/ Restart
Background == Peek \/ Execute \/ ExecuteFails \/ Pop \/ Poison \/ Clear

Next ==
  \/ SubmitWrite \/ RejectWrite \/ SubmitRevert \/ SubmitFlush \/ SubmitGet
  \/ Runner \/ Background \/ Crash

(* The runner's call and the background task go on; the runner need not    *)
(* call, nothing has to fail and no process has to die.                    *)
Fairness == WF_vars(Runner) /\ WF_vars(Background)

Spec == Init /\ [][Next]_vars /\ Fairness
-----------------------------------------------------------------------------
Writes == [kind : {"write"}, first : Blocks, block : Blocks,
           rows : SUBSET Rows, bad : BOOLEAN, processed : BOOLEAN]
Reverts == [kind : {"revert"}, block : Blocks, processed : BOOLEAN]
Calls ==
       {NoCall}
  \cup [kind : {"write"}, pc : {"refused", "push", "room"}, block : Blocks,
        wants : [Keys -> Vals \cup {Absent}], new : SUBSET Immutable,
        rows : SUBSET Rows]
  \cup [kind : {"revert"}, pc : {"refused", "push", "room"}, block : Blocks]
  \cup [kind : {"flush"}, pc : {"refused", "empty", "done"}]
  \cup [kind : {"get"}, pc : {"queue"}, key : Keys]

(* Types, and what holds of the queue whatever happens: it never outgrows  *)
(* its capacity, and only its oldest request is ever being processed.      *)
TypeOK ==
  /\ db.table \subseteq Versions /\ db.ptr \in Blocks /\ ptr \in Blocks
  /\ queue \in Seq(Writes \cup Reverts) /\ Len(queue) <= Capacity
  /\ \A i \in 2 .. Len(queue) : ~queue[i].processed
  /\ writer \in {"peek", "execute", "pop", "poison", "clear", "dead"}
  /\ writer \in {"execute", "pop"} => queue # <<>> /\ queue[1].processed
  /\ writeErr \in BOOLEAN /\ poisoned \in BOOLEAN
  /\ call \in Calls \/ (At({"get"}, "db") /\ call.key \in Keys)

(* The versions of an entity never overlap (the exclusion constraint of    *)
(* its table), none is empty, and none is of a block after the pointer's,  *)
(* whatever was batched together, reverted and written again; those of     *)
(* immutable entities never end, so that they have one each.               *)
Overlap(v, w) == v.lower < w.upper /\ w.lower < v.upper
VersionsDisjoint ==
  /\ \A v, w \in db.table : v # w /\ v.key = w.key => ~Overlap(v, w)
  /\ \A v \in db.table : /\ v.lower < v.upper /\ v.lower <= db.ptr
                         /\ Open(v) \/ v.upper <= db.ptr
                         /\ v.key \in Immutable => Open(v)

(* The store as its promise has it.                                        *)
Broken == writer \in {"poison", "clear", "dead"}
Pending == IF Broken THEN <<>> ELSE IF writer = "pop" THEN Tail(queue) ELSE queue
After[i \in 0 .. Capacity] ==
  IF i = 0 THEN db ELSE Outcome(After[i - 1], Pending[i])
Contents(d) ==
  [b \in 1 .. d.ptr |-> [k \in Keys |-> ValueAt(d.table, k, b)]]
(* The first requests that the database has no reason to refuse; those     *)
(* behind one that it will refuse are lost with it.                        *)
Doomed(i) == ~IsRevert(Pending[i]) /\ Duplicates(After[i - 1].table, Pending[i].rows)
Certain ==
  Lowest({Len(Pending)} \cup {i - 1 : i \in {j \in 1 .. Len(Pending) : Doomed(j)}})
Breaking == Broken \/ Certain < Len(Pending)
States == [i \in 1 .. Certain + 1 |-> Contents(After[i - 1])]
Called ==
  IF call.kind = "write"
  THEN [kind |-> "write", block |-> call.block, wants |-> call.wants,
        new |-> call.new]
  ELSE IF call.kind = "revert" THEN [kind |-> "revert", block |-> call.block]
  ELSE IF call.kind = "get" THEN [kind |-> "get", key |-> call.key]
  ELSE [kind |-> call.kind]

(* A request that the writer executes goes the way the database insists    *)
(* on, and so does every block of a batch, of which the database checks    *)
(* the last only.                                                          *)
GoesTheRightWay ==
  writer = "execute" =>
    IF IsRevert(Oldest) THEN Oldest.block < db.ptr
    ELSE db.ptr < Oldest.first /\ Oldest.first <= Oldest.block

(* Between calls the in-memory pointer, from which the runner goes on, is  *)
(* where the database will be once the queue has been written.             *)
LastPtr == IF Pending = <<>> THEN db.ptr ELSE Pending[Len(Pending)].block
PointerIsLast == call = NoCall /\ ~Broken => ptr = LastPtr

(* The store keeps the promise of EntityStore.                             *)
Promise == INSTANCE EntityStore WITH
  states <- States, call <- Called, broken <- Breaking
KeepsPromise == Promise!Spec

(* Every call returns, also one that waits for room in a full queue, or    *)
(* for an empty one, when the writer fails.                                *)
CallsReturn == call # NoCall ~> call = NoCall
=============================================================================
