----------------------------- MODULE ChainStore -----------------------------
(***************************************************************************)
(* The Ethereum node graph-node follows (external), its block store        *)
(* (store/postgres/src/chain_store.rs) and the polling block ingestor that *)
(* fills it (chain/ethereum/src/ingestor.rs).                              *)
(*                                                                         *)
(* A block's hash commits to all of its ancestors.  A block is therefore   *)
(* the sequence of choices that lead to it from the genesis block <<>>:    *)
(* its length is the block number, its prefixes are its ancestors.  The    *)
(* blocks cached in memory (recent_blocks_cache) answer only along         *)
(* verified parent links of blocks also in the database and are cleared    *)
(* when the database is cleaned, so the two are one set here.              *)
(***************************************************************************)
EXTENDS Integers, Sequences, FiniteSets

CONSTANTS
  Blocks,         \* every block that is ever mined
  ReorgDepth,     \* blocks the node may take back when it changes its mind
  AncestorCount,  \* ancestors of the head that the ingestor asks for
  None            \* no block

ASSUME BlocksAssumption ==
  /\ <<>> \in Blocks
  /\ \A b \in Blocks : /\ b \in Seq(Nat)
                       /\ \A n \in 0 .. Len(b) : SubSeq(b, 1, n) \in Blocks
ASSUME CountAssumption ==
  /\ AncestorCount \in Nat \ {0} /\ ReorgDepth \in Nat
  /\ None \notin Blocks

VARIABLES
  tip,       \* the node's latest block
  blocks,    \* blocks in the store
  light,     \* those of them stored without their receipts
  head,      \* head_block_hash and head_block_number of ethereum_networks
  ingestor,  \* where do_poll is, and the block it wants
  cleaning,  \* GRAPH_ETHEREUM_CLEANUP_BLOCKS, fixed when the process starts
  faults     \* polls that failed, and processes that died, so far

storeVars == <<blocks, light, head, ingestor, cleaning>>

Genesis == <<>>
Number(b) == Len(b)
Ancestor(b, n) == SubSeq(b, 1, n)
Parent(b) == Ancestor(b, Number(b) - 1)
OnChain(a, b) == Number(a) <= Number(b) /\ Ancestor(b, Number(a)) = a
AtMost(m, n) == IF m < n THEN m ELSE n
AtLeast(m, n) == IF m > n THEN m ELSE n

ChainInit ==
  /\ tip = Genesis
  /\ blocks = {} /\ light = {} /\ head = None
  /\ ingestor = [pc |-> "idle", want |-> None]
  /\ cleaning \in BOOLEAN
  /\ faults = 0
-----------------------------------------------------------------------------
(* The node: its chain grows, or it moves to one as long or longer.        *)
Canonical(b) == OnChain(b, tip)

NodeAdvance ==
  /\ \E b \in Blocks \ {tip} :
       /\ Number(b) >= Number(tip)
       /\ OnChain(Ancestor(tip, AtLeast(0, Number(tip) - ReorgDepth)), b)
       /\ tip' = b
  /\ UNCHANGED <<storeVars, faults>>
-----------------------------------------------------------------------------
(* The ingestor.                                                           *)
Fetch(b)  == [pc |-> "fetch", want |-> b]
EndOfPoll == [pc |-> IF cleaning THEN "clean" ELSE "idle", want |-> None]

(* do_poll reads the head and asks a provider for its latest header, which *)
(* may lag behind by a block.                                              *)
IgnoresNewer(latest) == head # None /\ Number(latest) >= Number(head)
IgnoresLatest(latest) ==
  head # None /\ (latest = head \/ Number(latest) < Number(head))

Poll(latest) ==
  /\ ingestor.pc = "idle"
  /\ ingestor' = IF IgnoresLatest(latest) THEN EndOfPoll ELSE Fetch(latest)
  /\ UNCHANGED <<tip, blocks, light, head, cleaning, faults>>

(* ingest_block: load the block by its hash and upsert it, receipts and    *)
(* all.                                                                    *)
IngestBlock ==
  /\ ingestor.pc = "fetch"
  /\ blocks' = blocks \cup {ingestor.want}
  /\ light' = light \ {ingestor.want}
  /\ ingestor' = [ingestor EXCEPT !.pc = "update"]
  /\ UNCHANGED <<tip, head, cleaning, faults>>

(* The node does not have to know a block it has abandoned.                *)
BlockUnavailable ==
  /\ ingestor.pc = "fetch"
  /\ ~Canonical(ingestor.want)
  /\ ingestor' = EndOfPoll
  /\ UNCHANGED <<tip, blocks, light, head, cleaning, faults>>

PollFails ==
  /\ ingestor.pc \in {"fetch", "update"}
  /\ faults' = faults + 1
  /\ ingestor' = EndOfPoll
  /\ UNCHANGED <<tip, blocks, light, head, cleaning>>

(* attempt_chain_head_update: the stored block with the highest number, if *)
(* that is higher than the head; ties are broken by the hash.              *)
HeadNumber == IF head = None THEN -1 ELSE Number(head)
CandidatesNotHigher == {b \in blocks : \A c \in blocks : Number(c) <= Number(b)}
Candidates == {b \in blocks : /\ Number(b) > HeadNumber
                              /\ \A c \in blocks : Number(c) <= Number(b)}

(* Ancestors the recursive query of missing_parent looks for.              *)
Wanted(b) == AtLeast(0, Number(b) - AncestorCount) .. Number(b) - 1
NoneMissing(b) == {}
MissingButLast(b) ==
  {n \in Wanted(b) : n - 1 \in Wanted(b) /\ Ancestor(b, n) \notin blocks}
MissingParents(b) == {n \in Wanted(b) : Ancestor(b, n) \notin blocks}

AttemptChainHeadUpdate ==
  /\ ingestor.pc = "update"
  /\ \/ /\ Candidates = {}
        /\ ingestor' = EndOfPoll
        /\ UNCHANGED head
     \/ /\ Candidates # {}
        /\ LET best == CHOOSE b \in Candidates : TRUE
           IN  \/ /\ MissingParents(best) = {}
                  /\ head' = best
                  /\ ingestor' = EndOfPoll
               \/ \E n \in MissingParents(best) :
                  /\ \A m \in MissingParents(best) : m <= n
                  /\ ingestor' = Fetch(Ancestor(best, n))
                  /\ UNCHANGED head
  /\ UNCHANGED <<tip, blocks, light, cleaning, faults>>

(* cleanup_cached_blocks: drop the blocks before the slowest deployment    *)
(* and before the head's ancestors; slowest is None if none is active.     *)
RetainFromHead(slowest) == Number(head) - AncestorCount
RetainFrom(slowest) ==
  LET recent == Number(head) - AncestorCount
  IN  IF slowest = None THEN recent ELSE AtMost(Number(slowest), recent)

CleanupCachedBlocks(slowest) ==
  /\ ingestor.pc = "clean"
  /\ blocks' = IF head # None /\ RetainFrom(slowest) > 0
               THEN {b \in blocks : Number(b) >= RetainFrom(slowest)
                                      \/ Number(b) = 0}
               ELSE blocks
  /\ light' = light \cap blocks'
  /\ ingestor' = [pc |-> "idle", want |-> None]
  /\ UNCHANGED <<tip, head, cleaning, faults>>

IngestorStep(slowest) ==
  \/ \E latest \in {tip, Parent(tip)} \cap Blocks : Poll(latest)
  \/ IngestBlock
  \/ BlockUnavailable
  \/ AttemptChainHeadUpdate
  \/ CleanupCachedBlocks(slowest)

(* upsert_light_blocks: blocks that an index node loaded join the store    *)
(* without their receipts, unless they are there already.                  *)
UpsertLightBlocks(new) ==
  /\ blocks' = blocks \cup new
  /\ light' = light \cup (new \ blocks)
=============================================================================
