---------------------------- MODULE BlockStream ----------------------------
(***************************************************************************)
(* One deployment that follows the chain: the polling block stream         *)
(* (graph/src/blockchain/polling_block_stream.rs), the channel that        *)
(* buffers its events (block_stream.rs), the runner that applies them      *)
(* (core/src/subgraph/runner.rs) and the deployment's health, beside the   *)
(* ingestor of ChainStore.                                                 *)
(*                                                                         *)
(* What a block's handlers write is abstract: applied is the set of blocks *)
(* whose triggers have taken effect.  The deployment's rows in the         *)
(* database follow the runner's view of them through a queue (see          *)
(* WritableStore); here db is any state that view has had.                 *)
(***************************************************************************)
EXTENDS ChainStore

CONSTANTS
  Triggers,        \* blocks with a trigger of this deployment
  StartPtr,        \* the block before the manifest's start block
  ReorgThreshold,  \* blocks behind the head that may still change
  CloseToHead,     \* no pointer update is skipped this close to the head
  BufferSize,      \* BUFFERED_BLOCK_STREAM_SIZE
  MaxFaults        \* bound: failures for a passing reason

ASSUME StreamAssumption ==
  /\ Triggers \subseteq Blocks /\ StartPtr \in Blocks
  /\ ReorgThreshold \in Nat /\ CloseToHead \in Nat /\ BufferSize \in Nat \ {0}
  /\ MaxFaults \in Nat

(* None is no error either.                                                *)
ASSUME NoneAssumption == None \notin [block : Blocks, deterministic : BOOLEAN]
(* The threshold is set no lower than the node ever reorganises.           *)
ASSUME FinalityAssumption == ReorgDepth <= ReorgThreshold
(* The ingestor is configured to keep REORG_THRESHOLD ancestors.           *)
ASSUME RetentionAssumption == ReorgThreshold <= AncestorCount
(* The manifest's data sources start behind the start block.               *)
ASSUME StartAssumption == \A b \in Triggers : Number(b) > Number(StartPtr)

VARIABLES
  cur,        \* the stream's current_block
  stage,      \* where the stream's reconciliation is
  view,       \* the head it has read
  yielding,   \* blocks it has found and not yet yielded, with what they hold
  buffer,     \* events sent and not yet handled
  ptr,        \* the runner's block pointer
  applied,    \* blocks whose triggers are in the deployment's entities
  db,         \* ptr and applied in the database
  running,    \* the runner has not ended
  fatal,      \* the fatal error in the database
  tryUnfail,  \* should_try_unfail_non_deterministic
  errors      \* blocks whose processing failed so far

streamVars == <<cur, stage, view, yielding, buffer>>
runnerVars == <<ptr, applied, db, running, fatal, tryUnfail, errors>>
vars == <<tip, storeVars, faults, streamVars, runnerVars>>

Found(b) == [block |-> b, hit |-> b \in Triggers]
Process(f) == [kind |-> "process", block |-> f.block, hit |-> f.hit]
Revert(b) == [kind |-> "revert", block |-> b, hit |-> FALSE]
Error(b, det) == [block |-> b, deterministic |-> det]

Init ==
  /\ ChainInit
  /\ cur = StartPtr /\ stage = "begin" /\ view = None
  /\ yielding = {} /\ buffer = <<>>
  /\ ptr = StartPtr /\ applied = {} /\ db = [ptr |-> StartPtr, applied |-> {}]
  /\ running = TRUE /\ fatal = None /\ tryUnfail = TRUE
  /\ errors = 0
-----------------------------------------------------------------------------
(* The stream.  get_next_step reads the head, then decides the direction.  *)

(* Genesis is not part of the threshold.                                   *)
Threshold(h) == AtMost(ReorgThreshold, Number(h))
FinalShort(h) == Number(h) - Threshold(h) + 1
Final(h) == Number(h) - Threshold(h)

ReadHead ==
  /\ stage = "begin"
  /\ IF head = None \/ (head # None /\ Number(cur) >= Number(head))
     THEN stage' = "idle" /\ UNCHANGED view
     ELSE /\ view' = head
          /\ stage' = IF Number(cur) < Final(head) THEN "far" ELSE "near"
  /\ UNCHANGED <<tip, storeVars, faults, cur, yielding, buffer, runnerVars>>

(* A chain head update arrives, or the watcher's time-out passes.          *)
HeadUpdate ==
  /\ stage = "idle"
  /\ stage' = "begin"
  /\ UNCHANGED <<tip, storeVars, faults, cur, view, yielding, buffer,
                 runnerVars>>

(* The stream steps back: it looks for the block's parent in the store,    *)
(* then asks the node, which may no longer know the block, and yields a    *)
(* Revert.  Sending waits for room in the channel.                         *)
OverfullRoom == Len(buffer) <= BufferSize
Room == Len(buffer) < BufferSize

StepBack ==
  \/ /\ Room
     /\ UpsertLightBlocks({cur})
     /\ cur' = Parent(cur)
     /\ buffer' = Append(buffer, Revert(Parent(cur)))
     /\ stage' = "begin"
     /\ UNCHANGED <<view, yielding>>
  \/ /\ cur \notin blocks /\ ~Canonical(cur)
     /\ stage' = "begin"
     /\ UNCHANGED <<blocks, light, cur, view, yielding, buffer>>

(* Beyond the threshold the node's answers by number are final.            *)
IsOnMainChain ==
  /\ stage = "far"
  /\ \/ /\ Canonical(cur)
        /\ stage' = "scan"
        /\ UNCHANGED <<blocks, light, cur, view, yielding, buffer>>
     \/ /\ ~Canonical(cur)
        /\ StepBack
  /\ UNCHANGED <<tip, head, ingestor, cleaning, faults, runnerVars>>

(* scan_triggers: the node is asked for the last block of a range, then    *)
(* for the triggers in it; the blocks with triggers and the last one are   *)
(* loaded.  Should the answers differ on the last block, it fails.         *)
ResolveTo ==
  /\ stage = "scan"
  /\ \E to \in Number(cur) + 1 .. Final(view) :
       yielding' = {Found(Ancestor(tip, to))}
  /\ stage' = "logs"
  /\ UNCHANGED <<tip, storeVars, faults, cur, view, buffer, runnerVars>>

Hits(to) ==
  {b \in Triggers :
     Canonical(b) /\ Number(b) \in Number(cur) + 1 .. Number(to)}

ScanTriggers ==
  /\ stage = "logs"
  /\ \E f \in yielding :
       LET hits == Hits(f.block)
       IN  IF \E b \in hits : Number(b) = Number(f.block) /\ b # f.block
           THEN yielding' = {} /\ UNCHANGED <<blocks, light>>
           ELSE /\ UpsertLightBlocks(hits \cup {f.block})
                /\ yielding' = {Found(b) : b \in hits}
                                 \cup {[f EXCEPT !.hit = f.block \in hits]}
  /\ stage' = "yield"
  /\ UNCHANGED <<tip, head, ingestor, cleaning, faults, cur, view, buffer,
                 runnerVars>>

(* ancestor_block: walk from the head towards the child of the current     *)
(* block; the query returns the deepest block it finds in the store.       *)
Reached ==
  {n \in Number(cur) + 1 .. Number(view) :
     \A m \in n .. Number(view) : Ancestor(view, m) \in blocks}
(* The receipts of a block stored without them are taken to be none.       *)
FoundInStore(b) == [block |-> b, hit |-> b \in Triggers \ light]

AncestorFound ==
  \E n \in Reached :
    /\ \A m \in Reached : n <= m
    /\ \/ /\ Ancestor(view, n - 1) = cur
          /\ yielding' = {FoundInStore(Ancestor(view, n))}
          /\ stage' = "yield"
          /\ UNCHANGED <<blocks, light, cur, view, buffer>>
       \/ /\ Ancestor(view, n - 1) # cur
          /\ StepBack

(* Nothing is found, or what the cache of recent blocks holds of the block *)
(* that is found does not decode.                                          *)
AncestorBlock ==
  /\ stage = "near"
  /\ \/ /\ stage' = "begin"
        /\ UNCHANGED <<blocks, light, cur, view, yielding, buffer>>
     \/ AncestorFound
  /\ UNCHANGED <<tip, head, ingestor, cleaning, faults, runnerVars>>

(* YieldingBlocks: one block at a time, by number.                         *)
YieldBlock ==
  /\ stage = "yield"
  /\ \/ /\ yielding = {}
        /\ stage' = "begin"
        /\ UNCHANGED <<cur, yielding, buffer>>
     \/ \E f \in yielding :
        /\ \A g \in yielding : Number(f.block) <= Number(g.block)
        /\ Room
        /\ yielding' = yielding \ {f}
        /\ cur' = f.block
        /\ buffer' = Append(buffer, Process(f))
        /\ UNCHANGED stage
  /\ UNCHANGED <<tip, storeVars, faults, view, runnerVars>>

StreamStep ==
  ReadHead \/ HeadUpdate \/ IsOnMainChain \/ ResolveTo \/ ScanTriggers
    \/ AncestorBlock \/ YieldBlock
-----------------------------------------------------------------------------
(* The runner handles the events in order.                                 *)
Event == Head(buffer)
Handles(kind) == running /\ buffer # <<>> /\ Event.kind = kind

(* Go on with the next event of this stream.                               *)
NextEvent == buffer' = Tail(buffer) /\ UNCHANGED <<cur, stage, view, yielding>>

(* A new stream starts at block p; the old one goes with its buffer.       *)
StaleStream(p) ==
  /\ cur' = p /\ stage' = "begin" /\ view' = None
  /\ yielding' = {} /\ buffer' = buffer
NewStream(p) ==
  /\ cur' = p /\ stage' = "begin" /\ view' = None
  /\ yielding' = {} /\ buffer' = <<>>

(* handle_process_block: far behind the head, a block without triggers     *)
(* does not move the pointer.                                              *)
SkipPtrUpdate ==
  /\ Handles("process")
  /\ ~Event.hit
  /\ Number(Event.block) < Number(head) - CloseToHead
  /\ NextEvent
  /\ UNCHANGED <<tip, storeVars, faults, runnerVars>>

(* unfail_non_deterministic_error, tried after the first block processed.  *)
UnfailNonDeterministic(b) ==
  /\ tryUnfail' = FALSE
  /\ fatal' = IF /\ tryUnfail /\ fatal # None
                 /\ ~fatal.deterministic
                 /\ Number(fatal.block) <= Number(b)
              THEN None ELSE fatal

(* process_block and handle_action when all goes well; a block that adds   *)
(* data sources restarts the stream.                                       *)
Effects(f) == IF f.hit THEN {f.block} ELSE {}
ProcessBlock ==
  /\ Handles("process")
  /\ Number(Event.block) > Number(ptr)
  /\ ptr' = Event.block
  /\ applied' = applied \cup Effects(Event)
  /\ UnfailNonDeterministic(Event.block)
  /\ NextEvent \/ NewStream(Event.block)
  /\ UNCHANGED <<tip, storeVars, faults, db, running, errors>>

(* Only MaxFaults things go wrong for a passing reason.                    *)
MayFail == faults + errors < MaxFaults

(* The handlers missed a block that the node has abandoned.                *)
PossibleReorg ==
  /\ Handles("process")
  /\ Event.hit
  /\ ~Canonical(Event.block)
  /\ NewStream(ptr)
  /\ UNCHANGED <<tip, storeVars, faults, runnerVars>>

(* A deterministic error: the block moves the pointer but leaves no        *)
(* entities (the proof of indexing apart), and the runner ends.            *)
DeterministicError ==
  /\ Handles("process")
  /\ Event.hit
  /\ Number(Event.block) > Number(ptr)
  /\ MayFail /\ errors' = errors + 1
  /\ ptr' = Event.block
  /\ fatal' = Error(Event.block, TRUE)
  /\ running' = FALSE
  /\ NewStream(Event.block)
  /\ UNCHANGED <<tip, storeVars, faults, applied, db, tryUnfail>>

(* Any other error: the deployment is marked failed unless it is already,  *)
(* and the stream restarts from the pointer, or from the database if the   *)
(* writer has failed.                                                      *)
NonDeterministicError(lost) ==
  /\ Handles("process")
  /\ MayFail /\ errors' = errors + 1
  /\ fatal' = IF fatal = None THEN Error(Event.block, FALSE) ELSE fatal
  /\ tryUnfail' = TRUE
  /\ ptr' = IF lost THEN db.ptr ELSE ptr
  /\ applied' = IF lost THEN db.applied ELSE applied
  /\ NewStream(ptr')
  /\ UNCHANGED <<tip, storeVars, faults, db, running>>

(* handle_revert.                                                          *)
RevertTo(p, s) == {b \in s : Number(b) <= Number(p)}

HandleRevert ==
  /\ Handles("revert")
  /\ \/ /\ Number(Event.block) >= Number(ptr)
        /\ NextEvent
        /\ UNCHANGED <<ptr, applied>>
     \/ /\ Number(Event.block) < Number(ptr)
        /\ ptr' = Event.block
        /\ applied' = RevertTo(Event.block, applied)
        /\ NextEvent \/ NewStream(Event.block)
  /\ UNCHANGED <<tip, storeVars, faults, db, running, fatal, tryUnfail, errors>>

(* The writer has failed: what it had not written is lost.                 *)
RevertFails ==
  /\ Handles("revert")
  /\ Number(Event.block) < Number(ptr)
  /\ MayFail /\ faults' = faults + 1
  /\ ptr' = db.ptr /\ applied' = db.applied
  /\ NewStream(db.ptr)
  /\ UNCHANGED <<tip, storeVars, db, running, fatal, tryUnfail, errors>>

(* The background writer catches up.                                       *)
Commit ==
  /\ db # [ptr |-> ptr, applied |-> applied]
  /\ db' = [ptr |-> ptr, applied |-> applied]
  /\ UNCHANGED <<tip, storeVars, faults, streamVars, ptr, applied, running,
                 fatal, tryUnfail, errors>>

(* The process dies and starts again: run_inner first reverts the block    *)
(* of a deterministic error, when that is the deployment's head.           *)
Unfails == fatal # None /\ fatal.deterministic /\ fatal.block = db.ptr
Restart ==
  /\ MayFail /\ faults' = faults + 1
  /\ ptr' = IF Unfails THEN Parent(db.ptr) ELSE db.ptr
  /\ applied' = IF Unfails THEN RevertTo(Parent(db.ptr), db.applied)
                ELSE db.applied
  /\ db' = [ptr |-> ptr', applied |-> applied']
  /\ fatal' = IF Unfails THEN None ELSE fatal
  /\ running' = TRUE
  /\ tryUnfail' = TRUE
  /\ NewStream(ptr')
  /\ UNCHANGED <<tip, storeVars, errors>>

RunnerStep == SkipPtrUpdate \/ ProcessBlock \/ PossibleReorg \/ HandleRevert

(* What cleanup_cached_blocks knows of the deployment: a failed one does   *)
(* not count.                                                              *)
SlowestActive == IF fatal = None THEN db.ptr ELSE None

Next ==
  \/ NodeAdvance /\ UNCHANGED <<streamVars, runnerVars>>
  \/ IngestorStep(SlowestActive) /\ UNCHANGED <<streamVars, runnerVars>>
  \/ MayFail /\ PollFails /\ UNCHANGED <<streamVars, runnerVars>>
  \/ running /\ StreamStep
  \/ RunnerStep
  \/ RevertFails
  \/ DeterministicError
  \/ \E lost \in BOOLEAN : NonDeterministicError(lost)
  \/ Commit
  \/ Restart

(* The processes keep running, and a provider keeps reporting its latest   *)
(* block (the ingestor polls for ever).  Nothing makes the node's chain    *)
(* grow or anything fail.                                                  *)
IngestorProgress ==
  IngestorStep(SlowestActive) /\ UNCHANGED <<streamVars, runnerVars>>
PollTip == Poll(tip) /\ UNCHANGED <<streamVars, runnerVars>>

Fairness ==
  /\ WF_vars(IngestorProgress) /\ SF_vars(PollTip)
  /\ WF_vars(running /\ StreamStep)
  /\ SF_vars(running /\ AncestorBlock /\ AncestorFound)
  /\ WF_vars(RunnerStep)
  /\ WF_vars(Commit)

Spec == Init /\ [][Next]_vars /\ Fairness
-----------------------------------------------------------------------------
Stages == {"begin", "far", "scan", "logs", "near", "yield", "idle"}
Finds  == [block : Blocks, hit : BOOLEAN]
Events == [kind : {"process", "revert"}, block : Blocks, hit : BOOLEAN]

(* The values the variables take.                                          *)
TypeOK ==
  /\ tip \in Blocks /\ blocks \subseteq Blocks /\ light \subseteq blocks
  /\ head \in Blocks \cup {None} /\ cleaning \in BOOLEAN
  /\ ingestor \in [pc : {"idle", "fetch", "update", "clean"},
                   want : Blocks \cup {None}]
  /\ ingestor.pc = "fetch" => ingestor.want \in Blocks
  /\ faults \in Nat /\ errors \in Nat /\ faults + errors <= MaxFaults
  /\ cur \in Blocks /\ stage \in Stages /\ view \in Blocks \cup {None}
  /\ stage \in {"far", "scan", "logs", "near"} =>
       view \in Blocks /\ Number(cur) < Number(view)
  /\ yielding \subseteq Finds /\ buffer \in Seq(Events)
  /\ Len(buffer) <= BufferSize
  /\ ptr \in Blocks /\ applied \subseteq Triggers
  /\ db \in [ptr : Blocks, applied : SUBSET Triggers]
  /\ running \in BOOLEAN /\ tryUnfail \in BOOLEAN
  /\ fatal \in [block : Blocks, deterministic : BOOLEAN] \cup {None}

(* The head and its AncestorCount most recent ancestors are in the store,  *)
(* whatever the ingestor fetches, fails to fetch or cleans away: "we get a *)
(* helpful guarantee", as get_next_step puts it, on which everything       *)
(* within the reorg threshold relies.                                      *)
HeadAncestorsPresent ==
  head # None => \A n \in Wanted(head) \cup {Number(head)} :
                   Ancestor(head, n) \in blocks

(* The chain head never goes back, or to another block of its height:      *)
(* "an ingestor might wait or move forward, but it never wavers".          *)
HeadAdvances ==
  [][head' # head => head' # None /\ Number(head') > HeadNumber]_vars

(* What the deployment holds is the effect of the blocks up to its pointer *)
(* and of no other block: no trigger is lost in a skipped pointer update,  *)
(* in a range scanned during a reorganisation or in a block stored without *)
(* its receipts, and none survives a revert, an error or a restart.        *)
(* A block of a deterministic error is the one exception: it has no effect *)
(* and goes when the deployment next starts.                               *)
History(p) == {b \in Triggers : OnChain(b, p) /\ Number(b) > Number(StartPtr)}
Failed(p) == fatal = Error(p, TRUE)
AppliedIsHistory ==
  /\ applied = History(ptr) \/ (~running /\ Failed(ptr))
  /\ db.applied = History(db.ptr) \/ Failed(db.ptr)

(* The blocks a stream yields extend the runner's block, and a stream that *)
(* steps back past what the runner has applied takes the runner with it:   *)
(* seen through the buffer, the runner is always on the stream's chain.    *)
Behind(p, n) == IF n = 0 THEN p ELSE buffer[n].block
StreamConnected ==
  \A n \in 1 .. Len(buffer) :
    LET before == Behind(ptr, n - 1)
    IN  IF buffer[n].kind = "process"
        THEN OnChain(before, buffer[n].block) /\ buffer[n].block # before
        ELSE n > 1 => buffer[n].block = Parent(before)

(* A stream steps back only from a block that has been abandoned, unless   *)
(* the head has left its block more than AncestorCount behind meanwhile:   *)
(* up to there no block that ancestor_block walks through is cleaned away  *)
(* or was never fetched, however slow the walk and whatever has failed.    *)
StepsBack == buffer' = Append(buffer, Revert(cur'))
StepsBackOffChainOnly ==
  [][StepsBack /\ OnChain(cur, IF stage = "near" THEN view ELSE tip)
       => Number(head) - AncestorCount > Number(cur) + 1]_vars

(* Further behind, the blocks of the walk are kept for a deployment that   *)
(* has never failed and whose pointer in the database is not ahead of its  *)
(* stream: there is a whole chain to walk when the stream has read the     *)
(* head, and cleanup_cached_blocks leaves it whole.  (A failed deployment  *)
(* does not count as active, and one that has yet to revert counts with    *)
(* the pointer it is about to leave: see the README.)                      *)
WalkWhole ==
  \A n \in Number(cur) + 1 .. Number(view) : Ancestor(view, n) \in blocks
Walking == stage = "near" /\ WalkWhole
WalkKept ==
  [][errors = 0 /\ Number(db.ptr) <= Number(cur)
       /\ (Walking \/ stage = "begin") /\ stage' = "near"
       => Walking']_vars

(* Once the node has settled on the longest chain, the deployment reaches  *)
(* its last block, unless it has failed for good.  (Cleaning may delete an *)
(* abandoned block the stream still has to step back from, which the node  *)
(* need not know any more: see the README.)                                *)
Longest == {b \in Blocks : \A c \in Blocks \ {b} : Number(c) < Number(b)}
CatchesUp == (tip \in Longest /\ ~cleaning) ~> (ptr \in Longest \/ ~running)

(* "Keep trying to unfail subgraph for everytime it advances block(s)      *)
(* until it's health is not Failed anymore" (handle_action): processing a  *)
(* block no lower than the one that failed clears a passing error.         *)
UnfailsOnceAdvanced ==
  [][ProcessBlock => \/ fatal' = None
                     \/ fatal'.deterministic
                     \/ Number(ptr') < Number(fatal'.block)]_vars
=============================================================================
