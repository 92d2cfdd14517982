--------------------------- MODULE BlockStreamProofs ---------------------------
(***************************************************************************)
(* Proofs about BlockStream, for any tree of blocks and any bounds: types, *)
(* what the chain head promises, and that the runner is never off the      *)
(* stream's chain.                                                         *)
(***************************************************************************)
EXTENDS BlockStream, SequenceTheorems, TLAPS

USE BlocksAssumption, CountAssumption, StreamAssumption

-----------------------------------------------------------------------------
(* Blocks and their ancestors.                                             *)
LEMMA AncestorOf ==
  ASSUME NEW b \in Blocks, NEW n \in 0 .. Number(b)
  PROVE  /\ Ancestor(b, n) \in Blocks
         /\ Number(Ancestor(b, n)) = n
         /\ \A i \in 1 .. n : Ancestor(b, n)[i] = b[i]
<1>1. /\ b \in Seq(Nat) /\ Number(b) \in Nat /\ n \in Int
      /\ SubSeq(b, 1, n) \in Blocks
  <2>1. b \in Seq(Nat)
    OBVIOUS
  <2>2. Len(b) \in Nat
    BY <2>1, LenProperties
  <2> QED
    BY <2>1, <2>2 DEF Number
<1>2. \A i \in 1 .. n : b[i] \in Nat
  <2>1. \A i \in 1 .. n : i \in 1 .. Len(b)
    BY <1>1 DEF Number
  <2> QED
    BY <1>1, <2>1, ElementOfSeq
<1>3. /\ Len(SubSeq(b, 1, n)) = IF 1 <= n THEN n - 1 + 1 ELSE 0
      /\ \A i \in 1 .. n - 1 + 1 : SubSeq(b, 1, n)[i] = b[1 + i - 1]
  BY <1>1, <1>2, SubSeqProperties
<1> QED
  BY <1>1, <1>3 DEF Ancestor, Number

LEMMA NumberType ==
  ASSUME NEW b \in Blocks
  PROVE  b \in Seq(Nat) /\ Number(b) \in Nat
  BY LenProperties DEF Number

LEMMA SameBlock ==
  ASSUME NEW a \in Blocks, NEW b \in Blocks, Number(a) = Number(b),
         \A i \in 1 .. Number(a) : a[i] = b[i]
  PROVE  a = b
  BY NumberType, SeqEqual DEF Number

LEMMA AncestorSelf ==
  ASSUME NEW b \in Blocks
  PROVE  Ancestor(b, Number(b)) = b
  BY NumberType, SubSeqFull DEF Ancestor, Number

LEMMA AncestorAncestor ==
  ASSUME NEW b \in Blocks, NEW n \in 0 .. Number(b), NEW m \in 0 .. n
  PROVE  Ancestor(Ancestor(b, n), m) = Ancestor(b, m)
<1>1. /\ Number(b) \in Nat /\ n \in Int /\ m \in 0 .. Number(b)
      /\ Ancestor(b, n) \in Blocks /\ Number(Ancestor(b, n)) = n
  BY NumberType, AncestorOf
<1>2. /\ Ancestor(Ancestor(b, n), m) \in Blocks
      /\ Number(Ancestor(Ancestor(b, n), m)) = m
      /\ \A i \in 1 .. m : Ancestor(Ancestor(b, n), m)[i] = Ancestor(b, n)[i]
  <2>1. m \in 0 .. Number(Ancestor(b, n))
    BY <1>1
  <2> QED
    BY <1>1, <2>1, AncestorOf, Zenon
<1>3. /\ Ancestor(b, m) \in Blocks /\ Number(Ancestor(b, m)) = m
      /\ \A i \in 1 .. m : Ancestor(b, m)[i] = b[i]
  BY <1>1, AncestorOf
<1>4. \A i \in 1 .. m : Ancestor(b, n)[i] = b[i]
  BY <1>1, AncestorOf
<1> QED
  BY <1>2, <1>3, <1>4, SameBlock

LEMMA AncestorOnChain ==
  ASSUME NEW b \in Blocks, NEW n \in 0 .. Number(b)
  PROVE  OnChain(Ancestor(b, n), b)
<1>1. Number(Ancestor(b, n)) = n
  BY AncestorOf
<1>2. Number(b) \in Nat
  BY NumberType
<1> QED
  BY <1>1, <1>2 DEF OnChain

LEMMA OnChainSelf ==
  ASSUME NEW b \in Blocks
  PROVE  OnChain(b, b)
<1>1. Number(b) \in Nat
  BY NumberType
<1>2. \A n \in Nat : n <= n
  OBVIOUS
<1>3. Ancestor(b, Number(b)) = b
  BY AncestorSelf, Zenon
<1> QED
  BY <1>1, <1>2, <1>3, Zenon DEF OnChain

LEMMA OnChainTransitive ==
  ASSUME NEW a \in Blocks, NEW b \in Blocks, NEW c \in Blocks,
         OnChain(a, b), OnChain(b, c)
  PROVE  OnChain(a, c)
<1>1. /\ Number(a) \in 0 .. Number(b) /\ Number(b) \in 0 .. Number(c)
      /\ Number(a) <= Number(c)
  BY NumberType DEF OnChain
<1>2. Ancestor(Ancestor(c, Number(b)), Number(a)) = Ancestor(c, Number(a))
  BY <1>1, AncestorAncestor
<1> QED
  BY <1>1, <1>2 DEF OnChain

LEMMA OnChainTotal ==
  ASSUME NEW a \in Blocks, NEW b \in Blocks, NEW c \in Blocks,
         OnChain(a, c), OnChain(b, c), Number(a) <= Number(b)
  PROVE  OnChain(a, b)
<1>1. Number(a) \in 0 .. Number(b) /\ Number(b) \in 0 .. Number(c)
  BY NumberType DEF OnChain
<1>2. Ancestor(Ancestor(c, Number(b)), Number(a)) = Ancestor(c, Number(a))
  BY <1>1, AncestorAncestor
<1> QED
  BY <1>2 DEF OnChain

LEMMA OnChainSameNumber ==
  ASSUME NEW a \in Blocks, NEW b \in Blocks, OnChain(a, b),
         Number(b) <= Number(a)
  PROVE  a = b
  BY AncestorSelf, NumberType DEF OnChain

LEMMA GenesisBlock ==
  ASSUME NEW a \in Blocks, NEW b \in Blocks, Number(a) = 0
  PROVE  OnChain(a, b)
<1>1. /\ Number(b) \in Nat /\ 0 \in 0 .. Number(b)
      /\ Ancestor(b, 0) \in Blocks /\ Number(Ancestor(b, 0)) = 0
  BY NumberType, AncestorOf
<1>2. Ancestor(b, 0) = a
  BY <1>1, SameBlock
<1> QED
  BY <1>1, <1>2 DEF OnChain

LEMMA ParentType ==
  ASSUME NEW b \in Blocks
  PROVE  Parent(b) \in Blocks
<1>1. CASE Number(b) = 0
  <2>1. SubSeq(b, 1, Number(b) - 1) = << >>
    BY <1>1, SubSeqEmpty
  <2> QED
    BY <2>1 DEF Parent, Ancestor
<1>2. CASE Number(b) # 0
  <2>1. Number(b) - 1 \in 0 .. Number(b)
    BY <1>2, NumberType
  <2> QED
    BY <2>1, AncestorOf DEF Parent
<1> QED
  BY <1>1, <1>2

LEMMA ParentOf ==
  ASSUME NEW b \in Blocks, Number(b) # 0
  PROVE  /\ Number(Parent(b)) = Number(b) - 1
         /\ OnChain(Parent(b), b)
<1>1. Number(b) - 1 \in 0 .. Number(b)
  BY NumberType
<1> QED
  BY <1>1, AncestorOf, AncestorOnChain DEF Parent

LEMMA ParentOnChain ==
  ASSUME NEW a \in Blocks, NEW b \in Blocks, OnChain(a, b), a # b
  PROVE  /\ Number(b) # 0 /\ OnChain(a, Parent(b))
<1>1. Number(a) < Number(b) /\ Number(b) # 0
  BY OnChainSameNumber, NumberType
<1> QED
  BY <1>1, NumberType, ParentType, ParentOf, OnChainTotal
-----------------------------------------------------------------------------
(* TypeOK in parts, and what else it takes to be inductive: what a stream  *)
(* finds or sends as a hit is a block with a trigger.                      *)
TrueFinds  == {f \in Finds : f.hit => f.block \in Triggers}
TrueEvents == {e \in Events : e.hit => e.block \in Triggers}

StoreType ==
  /\ tip \in Blocks /\ blocks \subseteq Blocks /\ light \subseteq blocks
  /\ head \in Blocks \cup {None} /\ cleaning \in BOOLEAN
IngestorType ==
  /\ ingestor \in [pc : {"idle", "fetch", "update", "clean"},
                   want : Blocks \cup {None}]
  /\ ingestor.pc = "fetch" => ingestor.want \in Blocks
FaultsType == faults \in Nat /\ errors \in Nat /\ faults + errors <= MaxFaults
StreamType ==
  /\ cur \in Blocks /\ stage \in Stages /\ view \in Blocks \cup {None}
  /\ stage \in {"far", "scan", "logs", "near"} =>
       view \in Blocks /\ Number(cur) < Number(view)
  /\ yielding \subseteq TrueFinds
BufferType == buffer \in Seq(TrueEvents) /\ Len(buffer) <= BufferSize
RunnerType ==
  /\ ptr \in Blocks /\ applied \subseteq Triggers
  /\ db \in [ptr : Blocks, applied : SUBSET Triggers]
  /\ running \in BOOLEAN /\ tryUnfail \in BOOLEAN
  /\ fatal \in [block : Blocks, deterministic : BOOLEAN] \cup {None}

(* Nothing that has been seen of the chain is higher than its tip.         *)
StoreHeights ==
  /\ \A b \in blocks : Number(b) <= Number(tip)
  /\ head # None => Number(head) <= Number(tip)
  /\ ingestor.want # None => Number(ingestor.want) <= Number(tip)
StreamHeights ==
  /\ view # None => Number(view) <= Number(tip)
  /\ \A f \in yielding : Number(f.block) <= Number(tip)

TypeInv ==
  /\ StoreType /\ StoreHeights /\ IngestorType /\ FaultsType
  /\ StreamType /\ StreamHeights /\ BufferType /\ RunnerType

LEMMA TypeParts == TypeInv => TypeOK
<1> SUFFICES ASSUME TypeInv PROVE TypeOK
  OBVIOUS
<1>1. buffer \in Seq(Events)
  BY SeqMonotonic DEF TypeInv, BufferType, TrueEvents
<1> QED
  BY <1>1 DEF TypeInv, TypeOK, StoreType, IngestorType, FaultsType, StreamType,
     BufferType, RunnerType, TrueFinds

LEMMA InitTypes == Init => TypeInv
<1> SUFFICES ASSUME Init PROVE TypeInv
  OBVIOUS
<1>1. StoreType /\ StoreHeights /\ IngestorType /\ FaultsType
  BY DEF Init, ChainInit, Genesis, StoreType, StoreHeights, IngestorType, FaultsType
<1>2. StreamType /\ StreamHeights /\ RunnerType
  BY DEF Init, StreamType, StreamHeights, RunnerType, Stages
<1>3. BufferType
  BY EmptySeq DEF Init, BufferType
<1> QED
  BY <1>1, <1>2, <1>3 DEF TypeInv

(* What the ingestor and the node do to the store.                         *)
LEMMA WantedType ==
  ASSUME NEW b \in Blocks, NEW n \in Wanted(b)
  PROVE  n \in 0 .. Number(b) /\ n < Number(b)
  BY NumberType DEF Wanted, AtLeast

LEMMA UpdateTypes ==
  ASSUME StoreType, StoreHeights, IngestorType, AttemptChainHeadUpdate
  PROVE  StoreType' /\ StoreHeights' /\ IngestorType'
<1>1. CASE Candidates = {}
  BY <1>1 DEF AttemptChainHeadUpdate, StoreType, StoreHeights, IngestorType, EndOfPoll
<1>2. CASE Candidates # {}
  <2> DEFINE best == CHOOSE b \in Candidates : TRUE
  <2>1. best \in Candidates
    BY <1>2
  <2>2. best \in Blocks /\ best \in blocks /\ Number(best) <= Number(tip)
    BY <2>1 DEF Candidates, StoreType, StoreHeights
  <2> HIDE DEF best
  <2>3. CASE head' = best /\ ingestor' = EndOfPoll
    BY <2>2, <2>3 DEF AttemptChainHeadUpdate, StoreType, StoreHeights,
       IngestorType, EndOfPoll
  <2>4. ASSUME NEW n \in MissingParents(best), head' = head,
               ingestor' = Fetch(Ancestor(best, n))
        PROVE  StoreType' /\ StoreHeights' /\ IngestorType'
    <3>1. /\ Ancestor(best, n) \in Blocks
          /\ Number(Ancestor(best, n)) <= Number(tip)
      BY <2>2, WantedType, AncestorOf, NumberType DEF MissingParents, StoreType
    <3> QED
      BY <2>4, <3>1 DEF AttemptChainHeadUpdate, StoreType, StoreHeights,
         IngestorType, Fetch
  <2> QED
    BY <1>2, <2>3, <2>4 DEF AttemptChainHeadUpdate, best
<1> QED
  BY <1>1, <1>2

LEMMA PollTypes ==
  ASSUME StoreType, StoreHeights, IngestorType,
         NEW latest \in {tip, Parent(tip)} \cap Blocks, Poll(latest)
  PROVE  StoreType' /\ StoreHeights' /\ IngestorType'
<1>1. Number(latest) <= Number(tip)
  <2>1. CASE Number(tip) = 0
    BY <2>1, SubSeqEmpty, EmptySeq, NumberType
       DEF StoreType, Parent, Ancestor, Number
  <2>2. CASE Number(tip) # 0
    BY <2>2, ParentOf, NumberType DEF StoreType
  <2> QED
    BY <2>1, <2>2
<1> QED
  BY <1>1 DEF Poll, StoreType, StoreHeights, IngestorType, EndOfPoll, Fetch

LEMMA IngestorTypes ==
  ASSUME StoreType, StoreHeights, IngestorType, NEW slowest, IngestorStep(slowest)
  PROVE  StoreType' /\ StoreHeights' /\ IngestorType'
<1>1. CASE IngestBlock
  BY <1>1 DEF IngestBlock, StoreType, StoreHeights, IngestorType
<1>2. CASE BlockUnavailable
  BY <1>2 DEF BlockUnavailable, StoreType, StoreHeights, IngestorType, EndOfPoll
<1>3. CASE CleanupCachedBlocks(slowest)
  BY <1>3 DEF CleanupCachedBlocks, StoreType, StoreHeights, IngestorType
<1> QED
  BY <1>1, <1>2, <1>3, PollTypes, UpdateTypes DEF IngestorStep

(* The stream.                                                             *)
LEMMA UpsertTypes ==
  ASSUME StoreType, NEW new \in SUBSET Blocks, UpsertLightBlocks(new),
         UNCHANGED <<tip, head, cleaning>>
  PROVE  StoreType'
  BY DEF UpsertLightBlocks, StoreType

LEMMA AppendTypes ==
  ASSUME BufferType, Room, NEW e \in TrueEvents, buffer' = Append(buffer, e)
  PROVE  BufferType'
  BY DEF BufferType, Room

LEMMA StepBackTypes ==
  ASSUME StoreType, StoreHeights, StreamType, StreamHeights, BufferType, StepBack,
         stage \in {"far", "near"}, UNCHANGED <<tip, head, ingestor, cleaning>>
  PROVE  /\ StoreType' /\ StoreHeights'
         /\ StreamType' /\ StreamHeights' /\ BufferType'
<1>1. /\ cur \in Blocks /\ view \in Blocks /\ tip \in Blocks
      /\ Number(cur) <= Number(tip)
  BY NumberType DEF StreamType, StreamHeights, StoreType
<1>2. Parent(cur) \in Blocks /\ {cur} \in SUBSET Blocks
  BY <1>1, ParentType
<1>3. Revert(Parent(cur)) \in TrueEvents
  BY <1>2 DEF Revert, Events, TrueEvents
<1>4. CASE /\ Room /\ UpsertLightBlocks({cur}) /\ cur' = Parent(cur)
           /\ buffer' = Append(buffer, Revert(Parent(cur)))
           /\ stage' = "begin" /\ UNCHANGED <<view, yielding>>
  <2>1. StoreType'
    BY <1>2, <1>4, UpsertTypes
  <2>2. StoreHeights'
    BY <1>1, <1>4 DEF UpsertLightBlocks, StoreHeights
  <2>3. BufferType'
    BY <1>3, <1>4, AppendTypes
  <2>4. StreamType' /\ StreamHeights'
    BY <1>2, <1>4 DEF StreamType, StreamHeights, Stages
  <2> QED
    BY <2>1, <2>2, <2>3, <2>4
<1>5. CASE stage' = "begin" /\ UNCHANGED <<blocks, light, cur, view, yielding, buffer>>
  BY <1>5 DEF StoreType, StoreHeights, StreamType, StreamHeights, BufferType, Stages
<1> QED
  BY <1>4, <1>5 DEF StepBack

LEMMA FinalBounds ==
  ASSUME NEW h \in Blocks, NEW n \in Nat, n < Final(h)
  PROVE  /\ Final(h) = Number(h) - ReorgThreshold
         /\ Final(h) \in Nat /\ Final(h) <= Number(h)
  BY NumberType DEF Final, Threshold, AtMost

LEMMA FinalType ==
  ASSUME NEW h \in Blocks
  PROVE  Final(h) \in 0 .. Number(h)
  BY NumberType DEF Final, Threshold, AtMost

LEMMA ReadHeadTypes ==
  ASSUME StoreType, StoreHeights, StreamType, StreamHeights, BufferType, ReadHead
  PROVE  /\ StoreType' /\ StoreHeights'
         /\ StreamType' /\ StreamHeights' /\ BufferType'
  BY NumberType DEF ReadHead, StoreType, StoreHeights, StreamType, StreamHeights,
     BufferType, storeVars, Stages

LEMMA HeadUpdateTypes ==
  ASSUME StoreType, StoreHeights, StreamType, StreamHeights, BufferType, HeadUpdate
  PROVE  /\ StoreType' /\ StoreHeights'
         /\ StreamType' /\ StreamHeights' /\ BufferType'
  BY DEF HeadUpdate, StoreType, StoreHeights, StreamType, StreamHeights,
     BufferType, storeVars, Stages

LEMMA IsOnMainChainTypes ==
  ASSUME StoreType, StoreHeights, StreamType, StreamHeights, BufferType, IsOnMainChain
  PROVE  /\ StoreType' /\ StoreHeights'
         /\ StreamType' /\ StreamHeights' /\ BufferType'
<1>1. CASE /\ stage' = "scan"
           /\ UNCHANGED <<blocks, light, cur, view, yielding, buffer>>
  BY <1>1 DEF IsOnMainChain, StoreType, StoreHeights, StreamType, StreamHeights,
     BufferType, Stages
<1>2. CASE StepBack
  BY <1>2, StepBackTypes DEF IsOnMainChain
<1> QED
  BY <1>1, <1>2 DEF IsOnMainChain

LEMMA FindType ==
  ASSUME NEW b \in Blocks, NEW hit \in BOOLEAN, hit => b \in Triggers
  PROVE  /\ [block |-> b, hit |-> hit] \in TrueFinds
         /\ [block |-> b, hit |-> hit].block = b
  BY DEF Finds, TrueFinds

LEMMA FoundType ==
  ASSUME NEW b \in Blocks
  PROVE  Found(b) \in TrueFinds /\ Found(b).block = b
<1>1. CASE b \in Triggers
  <2>1. Found(b) = [block |-> b, hit |-> TRUE]
    BY <1>1, Zenon DEF Found
  <2> QED
    BY <1>1, <2>1, FindType
<1>2. CASE b \notin Triggers
  <2>1. (b \in Triggers) = FALSE
    BY <1>2
  <2>2. Found(b) = [block |-> b, hit |-> FALSE]
    BY <2>1, Zenon DEF Found
  <2> QED
    BY <2>2, FindType
<1> QED
  BY <1>1, <1>2

LEMMA FoundInStoreType ==
  ASSUME NEW b \in Blocks
  PROVE  FoundInStore(b) \in TrueFinds /\ FoundInStore(b).block = b
<1>1. CASE b \in Triggers \ light
  <2>1. FoundInStore(b) = [block |-> b, hit |-> TRUE]
    BY <1>1, Zenon DEF FoundInStore
  <2> QED
    BY <1>1, <2>1, FindType
<1>2. CASE b \notin Triggers \ light
  <2>1. (b \in Triggers \ light) = FALSE
    BY <1>2
  <2>2. FoundInStore(b) = [block |-> b, hit |-> FALSE]
    BY <2>1, Zenon DEF FoundInStore
  <2> QED
    BY <2>2, FindType
<1> QED
  BY <1>1, <1>2

LEMMA RangeEndType ==
  ASSUME NEW f \in Finds, NEW hits \in SUBSET Triggers
  PROVE  /\ [f EXCEPT !.hit = f.block \in hits] \in TrueFinds
         /\ [f EXCEPT !.hit = f.block \in hits].block = f.block
<1>1. PICK b \in Blocks, hit \in BOOLEAN : f = [block |-> b, hit |-> hit]
  BY DEF Finds
<1>2. [f EXCEPT !.hit = f.block \in hits] = [block |-> b, hit |-> f.block \in hits]
  BY <1>1
<1>3. (f.block \in hits) \in BOOLEAN
  OBVIOUS
<1> QED
  BY <1>1, <1>2, <1>3 DEF Finds, TrueFinds

LEMMA ResolveToTypes ==
  ASSUME StoreType, StoreHeights, StreamType, StreamHeights, BufferType, ResolveTo
  PROVE  /\ StoreType' /\ StoreHeights'
         /\ StreamType' /\ StreamHeights' /\ BufferType'
<1>1. PICK to \in Number(cur) + 1 .. Final(view) :
        yielding' = {Found(Ancestor(tip, to))}
  BY DEF ResolveTo
<1>2. view \in Blocks /\ cur \in Blocks /\ tip \in Blocks
      /\ Number(view) <= Number(tip)
  BY DEF ResolveTo, StreamType, StreamHeights, StoreType
<1>3. to \in 0 .. Number(tip)
  <2>1. /\ Number(view) \in Nat /\ Number(cur) \in Nat /\ Number(tip) \in Nat
        /\ Final(view) \in 0 .. Number(view)
    BY <1>2, NumberType, FinalType
  <2> QED
    BY <1>2, <2>1
<1>4. Ancestor(tip, to) \in Blocks /\ Number(Ancestor(tip, to)) = to
  BY <1>2, <1>3, AncestorOf
<1>5. StreamType' /\ StreamHeights'
  <2>1. yielding' \subseteq TrueFinds /\ \A f \in yielding' : f.block = Ancestor(tip, to)
    BY <1>1, <1>4, FoundType
  <2>2. UNCHANGED <<tip, cur, view>> /\ stage = "scan" /\ stage' = "logs"
    BY DEF ResolveTo
  <2> QED
    BY <1>2, <1>3, <1>4, <2>1, <2>2 DEF StreamType, StreamHeights, Stages
<1> QED
  BY <1>5 DEF ResolveTo, StoreType, StoreHeights, BufferType, storeVars

LEMMA ScanTriggersTypes ==
  ASSUME StoreType, StoreHeights, StreamType, StreamHeights, BufferType, ScanTriggers
  PROVE  /\ StoreType' /\ StoreHeights'
         /\ StreamType' /\ StreamHeights' /\ BufferType'
<1>1. PICK f \in yielding :
        LET hits == Hits(f.block)
        IN  IF \E b \in hits : Number(b) = Number(f.block) /\ b # f.block
            THEN yielding' = {} /\ UNCHANGED <<blocks, light>>
            ELSE /\ UpsertLightBlocks(hits \cup {f.block})
                 /\ yielding' = {Found(b) : b \in hits}
                                  \cup {[f EXCEPT !.hit = f.block \in hits]}
  BY DEF ScanTriggers
<1>2. f \in Finds /\ f.block \in Blocks /\ Number(f.block) <= Number(tip)
  BY DEF StreamType, StreamHeights, TrueFinds, Finds
<1>3. /\ Hits(f.block) \in SUBSET Triggers /\ Hits(f.block) \subseteq Blocks
      /\ \A b \in Hits(f.block) : Number(b) <= Number(tip)
  BY DEF Hits, Canonical, OnChain
<1>4. UNCHANGED <<tip, head, ingestor, cleaning, cur, view, buffer>> /\ stage' = "yield"
  BY DEF ScanTriggers
<1>5. CASE yielding' = {} /\ UNCHANGED <<blocks, light>>
  BY <1>4, <1>5 DEF StoreType, StoreHeights, StreamType, StreamHeights, BufferType, Stages
<1>6. CASE /\ UpsertLightBlocks(Hits(f.block) \cup {f.block})
           /\ yielding' = {Found(b) : b \in Hits(f.block)}
                            \cup {[f EXCEPT !.hit = f.block \in Hits(f.block)]}
  <2>1. /\ yielding' \subseteq TrueFinds
        /\ \A g \in yielding' : Number(g.block) <= Number(tip)
    <3> SUFFICES ASSUME NEW g \in yielding'
                 PROVE  g \in TrueFinds /\ Number(g.block) <= Number(tip)
      OBVIOUS
    <3>1. CASE \E b \in Hits(f.block) : g = Found(b)
      BY <1>3, <3>1, FoundType
    <3>2. CASE g = [f EXCEPT !.hit = f.block \in Hits(f.block)]
      BY <1>2, <1>3, <3>2, RangeEndType
    <3> QED
      BY <1>6, <3>1, <3>2
  <2>2. StreamType' /\ StreamHeights' /\ BufferType'
    BY <1>4, <2>1 DEF StreamType, StreamHeights, BufferType, Stages
  <2>3. StoreType' /\ StoreHeights'
    BY <1>2, <1>3, <1>4, <1>6 DEF UpsertLightBlocks, StoreType, StoreHeights
  <2> QED
    BY <2>2, <2>3
<1> QED
  BY <1>1, <1>5, <1>6

LEMMA ReachedType ==
  ASSUME view \in Blocks, cur \in Blocks, NEW n \in Reached
  PROVE  /\ n \in 0 .. Number(view) /\ n - 1 \in 0 .. Number(view)
         /\ Number(cur) < n
  BY NumberType DEF Reached

LEMMA AncestorBlockTypes ==
  ASSUME StoreType, StoreHeights, StreamType, StreamHeights, BufferType, AncestorBlock
  PROVE  /\ StoreType' /\ StoreHeights'
         /\ StreamType' /\ StreamHeights' /\ BufferType'
<1>1. /\ view \in Blocks /\ cur \in Blocks /\ Number(view) <= Number(tip)
      /\ tip \in Blocks
  BY DEF AncestorBlock, StreamType, StreamHeights, StoreType
<1>2. CASE /\ stage' = "begin"
           /\ UNCHANGED <<blocks, light, cur, view, yielding, buffer>>
  BY <1>2 DEF AncestorBlock, StoreType, StoreHeights, StreamType, StreamHeights,
     BufferType, Stages
<1>3. ASSUME NEW n \in Reached, yielding' = {FoundInStore(Ancestor(view, n))},
             stage' = "yield", UNCHANGED <<blocks, light, cur, view, buffer>>
      PROVE  /\ StoreType' /\ StoreHeights'
             /\ StreamType' /\ StreamHeights' /\ BufferType'
  <2>1. /\ Ancestor(view, n) \in Blocks
        /\ Number(Ancestor(view, n)) <= Number(tip)
    <3>1. n \in 0 .. Number(view)
      BY <1>1, ReachedType
    <3>2. Ancestor(view, n) \in Blocks /\ Number(Ancestor(view, n)) = n
      BY <1>1, <3>1, AncestorOf
    <3>3. Number(view) \in Nat /\ Number(tip) \in Nat
      BY <1>1, NumberType
    <3> QED
      BY <1>1, <3>1, <3>2, <3>3
  <2>2. FoundInStore(Ancestor(view, n)) \in TrueFinds
        /\ FoundInStore(Ancestor(view, n)).block = Ancestor(view, n)
    BY <2>1, FoundInStoreType
  <2> QED
    BY <1>3, <2>1, <2>2 DEF AncestorBlock, StoreType, StoreHeights, StreamType,
       StreamHeights, BufferType, Stages
<1>4. CASE StepBack
  BY <1>4, StepBackTypes DEF AncestorBlock, AncestorFound
<1> QED
  BY <1>2, <1>3, <1>4 DEF AncestorBlock, AncestorFound

LEMMA YieldBlockTypes ==
  ASSUME StoreType, StoreHeights, StreamType, StreamHeights, BufferType, YieldBlock
  PROVE  /\ StoreType' /\ StoreHeights'
         /\ StreamType' /\ StreamHeights' /\ BufferType'
<1>1. CASE stage' = "begin" /\ UNCHANGED <<cur, yielding, buffer>>
  BY <1>1 DEF YieldBlock, StoreType, StoreHeights, StreamType, StreamHeights,
     BufferType, storeVars, Stages
<1>2. ASSUME NEW f \in yielding, Room, yielding' = yielding \ {f}, cur' = f.block,
             buffer' = Append(buffer, Process(f)), UNCHANGED stage, stage = "yield"
      PROVE  /\ StoreType' /\ StoreHeights'
             /\ StreamType' /\ StreamHeights' /\ BufferType'
  <2>1. f.block \in Blocks /\ Process(f) \in TrueEvents
    BY DEF StreamType, TrueFinds, Finds, Process, Events, TrueEvents
  <2>2. BufferType'
    BY <1>2, <2>1, AppendTypes
  <2> QED
    BY <1>2, <2>1, <2>2 DEF YieldBlock, StoreType, StoreHeights, StreamType,
       StreamHeights, storeVars
<1> QED
  BY <1>1, <1>2 DEF YieldBlock

LEMMA StreamTypes ==
  ASSUME StoreType, StoreHeights, StreamType, StreamHeights, BufferType, StreamStep
  PROVE  /\ StoreType' /\ StoreHeights'
         /\ StreamType' /\ StreamHeights' /\ BufferType'
  BY ReadHeadTypes, HeadUpdateTypes, IsOnMainChainTypes, ResolveToTypes,
     ScanTriggersTypes, AncestorBlockTypes, YieldBlockTypes DEF StreamStep

(* The runner.                                                             *)
LEMMA NewStreamTypes ==
  ASSUME NEW p \in Blocks, NewStream(p)
  PROVE  StreamType' /\ StreamHeights' /\ BufferType'
<1>1. BufferType'
  BY EmptySeq DEF NewStream, BufferType
<1> QED
  BY <1>1 DEF NewStream, StreamType, StreamHeights, Stages

LEMMA NextEventTypes ==
  ASSUME StreamType, StreamHeights, BufferType, NextEvent, buffer # <<>>,
         UNCHANGED tip
  PROVE  StreamType' /\ StreamHeights' /\ BufferType'
<1>1. BufferType'
  BY HeadTailProperties DEF NextEvent, BufferType
<1> QED
  BY <1>1 DEF NextEvent, StreamType, StreamHeights

LEMMA EventType ==
  ASSUME BufferType, buffer # <<>>
  PROVE  Event \in TrueEvents /\ Event.block \in Blocks
<1>1. Event \in TrueEvents
  BY HeadTailProperties DEF BufferType, Event
<1> QED
  BY <1>1 DEF TrueEvents, Events

LEMMA RunnerTypes ==
  ASSUME TypeInv, RunnerStep
  PROVE  TypeInv'
<1>1. /\ StoreType' /\ StoreHeights' /\ IngestorType' /\ FaultsType' /\ UNCHANGED tip
  BY DEF RunnerStep, SkipPtrUpdate, ProcessBlock, PossibleReorg, HandleRevert,
     TypeInv, StoreType, StoreHeights, IngestorType, FaultsType, storeVars, runnerVars
<1>2. /\ Event \in TrueEvents /\ Event.block \in Blocks
      /\ buffer # <<>> /\ ptr \in Blocks
  BY EventType DEF RunnerStep, SkipPtrUpdate, ProcessBlock, PossibleReorg,
     HandleRevert, Handles, TypeInv, RunnerType
<1>3. NextEvent \/ NewStream(Event.block) \/ NewStream(ptr)
  BY DEF RunnerStep, SkipPtrUpdate, ProcessBlock, PossibleReorg, HandleRevert
<1>4. StreamType' /\ StreamHeights' /\ BufferType'
  BY <1>1, <1>2, <1>3, NextEventTypes, NewStreamTypes DEF TypeInv
<1>5. RunnerType'
  <2>1. CASE SkipPtrUpdate \/ PossibleReorg
    BY <2>1 DEF SkipPtrUpdate, PossibleReorg, runnerVars, TypeInv, RunnerType
  <2>2. CASE ProcessBlock
    <3>1. Effects(Event) \subseteq Triggers
      BY <1>2 DEF Effects, TrueEvents
    <3> QED
      BY <1>2, <2>2, <3>1 DEF ProcessBlock, UnfailNonDeterministic, TypeInv, RunnerType
  <2>3. CASE HandleRevert
    BY <1>2, <2>3 DEF HandleRevert, RevertTo, TypeInv, RunnerType
  <2> QED
    BY <2>1, <2>2, <2>3 DEF RunnerStep
<1> QED
  BY <1>1, <1>4, <1>5 DEF TypeInv

LEMMA FaultTypes ==
  ASSUME TypeInv,
         \/ RevertFails \/ DeterministicError \/ Commit \/ Restart
         \/ \E lost \in BOOLEAN : NonDeterministicError(lost)
  PROVE  TypeInv'
<1>1. /\ StoreType' /\ StoreHeights' /\ IngestorType' /\ UNCHANGED tip
  BY DEF RevertFails, DeterministicError, Commit, Restart, NonDeterministicError,
     TypeInv, StoreType, StoreHeights, IngestorType, storeVars
<1>2. FaultsType'
  <2>1. CASE MayFail /\ faults' = faults + 1 /\ errors' = errors
    BY <2>1 DEF MayFail, TypeInv, FaultsType
  <2>2. CASE MayFail /\ errors' = errors + 1 /\ faults' = faults
    BY <2>2 DEF MayFail, TypeInv, FaultsType
  <2>3. CASE UNCHANGED <<faults, errors>>
    BY <2>3 DEF TypeInv, FaultsType
  <2> QED
    BY <2>1, <2>2, <2>3
       DEF RevertFails, DeterministicError, Commit, Restart, NonDeterministicError
<1>3. RunnerType'
  <2>1. CASE RevertFails
    BY <2>1 DEF RevertFails, TypeInv, RunnerType
  <2>2. CASE DeterministicError
    BY <2>2, EventType DEF DeterministicError, Handles, Error, TypeInv, RunnerType
  <2>3. CASE Commit
    BY <2>3 DEF Commit, TypeInv, RunnerType
  <2>4. CASE Restart
    BY <2>4, ParentType DEF Restart, RevertTo, TypeInv, RunnerType
  <2>5. ASSUME NEW lost \in BOOLEAN, NonDeterministicError(lost)
        PROVE  RunnerType'
    BY <2>5, EventType DEF NonDeterministicError, Handles, Error, TypeInv, RunnerType
  <2> QED
    BY <2>1, <2>2, <2>3, <2>4, <2>5
<1>4. StreamType' /\ StreamHeights' /\ BufferType'
  <2>1. CASE Commit
    BY <2>1 DEF Commit, streamVars, TypeInv, StreamType, StreamHeights, BufferType
  <2>2. CASE \E p \in Blocks : NewStream(p)
    BY <2>2, NewStreamTypes
  <2>3. ptr \in Blocks /\ ptr' \in Blocks /\ db.ptr \in Blocks
    BY <1>3 DEF RunnerType, TypeInv
  <2>4. CASE RevertFails
    BY <2>2, <2>3, <2>4 DEF RevertFails
  <2>5. CASE DeterministicError
    BY <2>2, <2>3, <2>5 DEF DeterministicError
  <2>6. CASE Restart \/ \E lost \in BOOLEAN : NonDeterministicError(lost)
    BY <2>2, <2>3, <2>6 DEF Restart, NonDeterministicError
  <2> QED
    BY <2>1, <2>4, <2>5, <2>6
<1> QED
  BY <1>1, <1>2, <1>3, <1>4 DEF TypeInv

LEMMA NodeTypes ==
  ASSUME TypeInv, NodeAdvance, UNCHANGED <<streamVars, runnerVars>>
  PROVE  TypeInv'
<1>1. PICK b \in Blocks : Number(b) >= Number(tip) /\ tip' = b
  BY DEF NodeAdvance
<1>2. UNCHANGED <<storeVars, faults>>
  BY DEF NodeAdvance
<1>3. Number(tip) \in Nat /\ Number(b) \in Nat
  BY NumberType DEF TypeInv, StoreType
<1>4. StoreType' /\ IngestorType' /\ FaultsType' /\ RunnerType' /\ BufferType'
      /\ StreamType'
  BY <1>1, <1>2 DEF TypeInv, StoreType, IngestorType, FaultsType, RunnerType,
     BufferType, StreamType, storeVars, streamVars, runnerVars
<1>5. StoreHeights' /\ StreamHeights'
  <2>1. \A c \in Blocks : Number(c) <= Number(tip) => Number(c) <= Number(b)
    BY <1>1, <1>3, NumberType
  <2>2. /\ \A f \in yielding : f.block \in Blocks
        /\ blocks \subseteq Blocks /\ head \in Blocks \cup {None}
        /\ view \in Blocks \cup {None} /\ ingestor.want \in Blocks \cup {None}
    BY DEF TypeInv, StoreType, IngestorType, StreamType, TrueFinds, Finds
  <2> QED
    BY <1>1, <1>2, <2>1, <2>2 DEF TypeInv, StoreHeights, StreamHeights,
       storeVars, streamVars
<1> QED
  BY <1>4, <1>5 DEF TypeInv

LEMMA NextTypes ==
  ASSUME TypeInv, [Next]_vars
  PROVE  TypeInv'
<1>1. CASE IngestorStep(SlowestActive) /\ UNCHANGED <<streamVars, runnerVars>>
  <2>1. StoreType' /\ StoreHeights' /\ IngestorType'
    BY <1>1, IngestorTypes DEF TypeInv
  <2>2. UNCHANGED <<tip, faults>>
    BY <1>1 DEF IngestorStep, Poll, IngestBlock, BlockUnavailable,
       AttemptChainHeadUpdate, CleanupCachedBlocks
  <2> QED
    BY <1>1, <2>1, <2>2 DEF TypeInv, FaultsType, StreamType, StreamHeights,
       BufferType, RunnerType, streamVars, runnerVars
<1>2. CASE MayFail /\ PollFails /\ UNCHANGED <<streamVars, runnerVars>>
  BY <1>2 DEF MayFail, PollFails, EndOfPoll, TypeInv, StoreType, StoreHeights,
     IngestorType, FaultsType, StreamType, StreamHeights, BufferType, RunnerType,
     streamVars, runnerVars
<1>3. CASE running /\ StreamStep
  <2>1. /\ StoreType' /\ StoreHeights'
        /\ StreamType' /\ StreamHeights' /\ BufferType'
    BY <1>3, StreamTypes DEF TypeInv
  <2>2. UNCHANGED <<ingestor, faults, runnerVars>>
    BY <1>3 DEF StreamStep, ReadHead, HeadUpdate, IsOnMainChain, ResolveTo,
       ScanTriggers, AncestorBlock, AncestorFound, YieldBlock, storeVars
  <2> QED
    BY <2>1, <2>2 DEF TypeInv, IngestorType, FaultsType, RunnerType, runnerVars
<1>4. CASE UNCHANGED vars
  BY <1>4 DEF vars, storeVars, streamVars, runnerVars, TypeInv, StoreType,
     StoreHeights, IngestorType, FaultsType, StreamType, StreamHeights,
     BufferType, RunnerType
<1> QED
  BY <1>1, <1>2, <1>3, <1>4, NodeTypes, RunnerTypes, FaultTypes DEF Next

(* Types, for any tree of blocks.                                          *)
THEOREM StreamTypesCorrect == Spec => []TypeOK
  BY InitTypes, NextTypes, TypeParts, PTL DEF Spec
-----------------------------------------------------------------------------
(* The chain head.                                                         *)

(* All that others do to the store is add blocks.                          *)
LEMMA OthersAddBlocks ==
  ASSUME \/ NodeAdvance /\ UNCHANGED <<streamVars, runnerVars>>
         \/ MayFail /\ PollFails /\ UNCHANGED <<streamVars, runnerVars>>
         \/ running /\ StreamStep
         \/ RunnerStep \/ RevertFails \/ DeterministicError \/ Commit \/ Restart
         \/ \E lost \in BOOLEAN : NonDeterministicError(lost)
         \/ UNCHANGED vars
  PROVE  head' = head /\ blocks \subseteq blocks'
<1>1. CASE running /\ StreamStep
  BY <1>1 DEF StreamStep, ReadHead, HeadUpdate, IsOnMainChain, ResolveTo,
     ScanTriggers, AncestorBlock, AncestorFound, YieldBlock, StepBack, UpsertLightBlocks, storeVars
<1>2. CASE ~(running /\ StreamStep)
  BY <1>2 DEF NodeAdvance, PollFails, RunnerStep, SkipPtrUpdate, ProcessBlock,
     PossibleReorg, HandleRevert, RevertFails, DeterministicError, Commit, Restart,
     NonDeterministicError, vars, storeVars
<1> QED
  BY <1>1, <1>2

LEMMA PresentWhenAdded ==
  ASSUME HeadAncestorsPresent, head' = head, blocks \subseteq blocks'
  PROVE  HeadAncestorsPresent'
  BY DEF HeadAncestorsPresent

LEMMA UpdatePresent ==
  ASSUME TypeInv, HeadAncestorsPresent, AttemptChainHeadUpdate
  PROVE  /\ HeadAncestorsPresent'
         /\ head' # head => head' # None /\ Number(head') > HeadNumber
<1>1. CASE UNCHANGED <<head, blocks>>
  BY <1>1, PresentWhenAdded
<1>2. ASSUME NEW best \in Candidates, MissingParents(best) = {}, head' = best,
             UNCHANGED blocks
      PROVE  /\ HeadAncestorsPresent'
             /\ head' # None /\ Number(head') > HeadNumber
  <2>1. best \in blocks /\ best \in Blocks /\ Number(best) > HeadNumber
    BY DEF Candidates, TypeInv, StoreType
  <2>2. \A n \in Wanted(best) : Ancestor(best, n) \in blocks
    BY <1>2 DEF MissingParents
  <2>3. Ancestor(best, Number(best)) \in blocks
    BY <2>1, AncestorSelf
  <2> QED
    BY <1>2, <2>1, <2>2, <2>3 DEF HeadAncestorsPresent
<1>3. CASE Candidates # {} /\ head' # head
  <2> DEFINE best == CHOOSE b \in Candidates : TRUE
  <2>1. best \in Candidates
    BY <1>3
  <2>2. MissingParents(best) = {} /\ head' = best /\ UNCHANGED blocks
    BY <1>3 DEF AttemptChainHeadUpdate
  <2> QED
    BY <1>2, <2>1, <2>2
<1>4. UNCHANGED blocks /\ (Candidates = {} => UNCHANGED head)
  BY DEF AttemptChainHeadUpdate
<1> QED
  BY <1>1, <1>3, <1>4

(* Cleaning spares the head's ancestors, wherever the deployment is.       *)
LEMMA CleanupPresent ==
  ASSUME TypeInv, HeadAncestorsPresent, CleanupCachedBlocks(SlowestActive)
  PROVE  HeadAncestorsPresent'
<1>1. head' = head
  BY DEF CleanupCachedBlocks
<1> SUFFICES ASSUME head # None, NEW n \in Wanted(head) \cup {Number(head)}
             PROVE  Ancestor(head, n) \in blocks'
  BY <1>1 DEF HeadAncestorsPresent
<1>2. head \in Blocks /\ Number(head) \in Nat
  BY NumberType DEF TypeInv, StoreType
<1>3. n \in 0 .. Number(head) /\ n >= Number(head) - AncestorCount
  BY <1>2 DEF Wanted, AtLeast
<1>4. SlowestActive # None => Number(SlowestActive) \in Nat
  BY NumberType DEF SlowestActive, TypeInv, RunnerType
<1>5. RetainFrom(SlowestActive) <= Number(head) - AncestorCount
  BY <1>2, <1>4 DEF RetainFrom, AtMost
<1>6. RetainFrom(SlowestActive) \in Int
  BY <1>2, <1>4 DEF RetainFrom, AtMost
<1>7. Number(Ancestor(head, n)) = n /\ Ancestor(head, n) \in blocks
  BY <1>2, <1>3, AncestorOf DEF HeadAncestorsPresent
<1> QED
  BY <1>2, <1>3, <1>5, <1>6, <1>7 DEF CleanupCachedBlocks

LEMMA HeadStep ==
  ASSUME TypeInv, HeadAncestorsPresent, [Next]_vars
  PROVE  /\ HeadAncestorsPresent'
         /\ head' # head => head' # None /\ Number(head') > HeadNumber
<1>1. CASE IngestorStep(SlowestActive)
  <2>1. CASE AttemptChainHeadUpdate
    BY <2>1, UpdatePresent
  <2>2. CASE CleanupCachedBlocks(SlowestActive)
    BY <2>2, CleanupPresent DEF CleanupCachedBlocks
  <2>3. CASE head' = head /\ blocks \subseteq blocks'
    BY <2>3, PresentWhenAdded
  <2> QED
    BY <1>1, <2>1, <2>2, <2>3
       DEF IngestorStep, Poll, IngestBlock, BlockUnavailable
<1>2. CASE ~IngestorStep(SlowestActive)
  BY <1>2, OthersAddBlocks, PresentWhenAdded DEF Next
<1> QED
  BY <1>1, <1>2

(* The head's recent ancestors are in the store, for any number of them    *)
(* and for any interleaving of the ingestor's passes with the streams that *)
(* add blocks and with the clean-up: what AncestorBlock relies on when it  *)
(* walks down from a head within the reorg threshold.                      *)
THEOREM HeadKeepsAncestors == Spec => []HeadAncestorsPresent
<1>1. Init => TypeInv /\ HeadAncestorsPresent
  BY InitTypes DEF Init, ChainInit, HeadAncestorsPresent
<1>2. TypeInv /\ HeadAncestorsPresent /\ [Next]_vars
        => (TypeInv /\ HeadAncestorsPresent)'
  BY NextTypes, HeadStep
<1> QED
  BY <1>1, <1>2, PTL DEF Spec

(* The head only ever moves to a higher block.                             *)
THEOREM HeadGoesForward == Spec => HeadAdvances
<1>1. Init => TypeInv /\ HeadAncestorsPresent
  BY InitTypes DEF Init, ChainInit, HeadAncestorsPresent
<1>2. TypeInv /\ HeadAncestorsPresent /\ [Next]_vars
        => (TypeInv /\ HeadAncestorsPresent)'
  BY NextTypes, HeadStep
<1>3. TypeInv /\ HeadAncestorsPresent /\ [Next]_vars
        => [head' # head => head' # None /\ Number(head') > HeadNumber]_vars
  BY HeadStep
<1> QED
  BY <1>1, <1>2, <1>3, PTL DEF Spec, HeadAdvances
-----------------------------------------------------------------------------
(* The chain of the events.  What happens beyond the reorg threshold rests *)
(* on blocks there being final; the events then follow one another.        *)
FarInv ==
  /\ stage \in {"far", "scan", "logs"} => Number(cur) < Final(view)
  /\ stage \in {"scan", "logs"} => Canonical(cur)
  /\ stage = "logs" => \A f \in yielding :
       /\ Canonical(f.block)
       /\ Number(cur) < Number(f.block) /\ Number(f.block) <= Final(view)

YieldInv ==
  stage = "yield" => \A f \in yielding :
    /\ OnChain(cur, f.block) /\ cur # f.block
    /\ \A g \in yielding :
         /\ Number(f.block) <= Number(g.block) => OnChain(f.block, g.block)
         /\ f.block = g.block => f = g

(* An event that follows block b, and one that may reach a runner at p:    *)
(* the runner may be behind the stream, having skipped pointer updates.    *)
Follows(b, e) ==
  IF e.kind = "process" THEN OnChain(b, e.block) /\ b # e.block
  ELSE e.block = Parent(b)
Reaches(p, e) ==
  IF e.kind = "process" THEN OnChain(p, e.block) /\ p # e.block
  ELSE OnChain(p, e.block) \/ (Number(p) # 0 /\ e.block = Parent(p))

EventsInv ==
  /\ buffer = <<>> => OnChain(ptr, cur)
  /\ buffer # <<>> => cur = buffer[Len(buffer)].block /\ Reaches(ptr, buffer[1])
  /\ \A n \in 2 .. Len(buffer) : Follows(buffer[n - 1].block, buffer[n])

LEMMA ParentOfGenesis ==
  ASSUME NEW b \in Blocks, Number(b) = 0
  PROVE  Parent(b) = b
<1>1. Parent(b) = << >>
  BY SubSeqEmpty DEF Parent, Ancestor
<1>2. << >> \in Blocks /\ Number(<< >>) = 0
  BY EmptySeq DEF Number
<1> QED
  BY <1>1, <1>2, SameBlock

LEMMA FollowsReaches ==
  ASSUME NEW p \in Blocks, NEW b \in Blocks, NEW e \in TrueEvents,
         OnChain(p, b), Follows(b, e)
  PROVE  Reaches(p, e)
<1>1. e.block \in Blocks /\ e.kind \in {"process", "revert"}
  BY DEF TrueEvents, Events
<1>2. CASE e.kind = "process"
  <2>1. OnChain(b, e.block) /\ b # e.block
    BY <1>2 DEF Follows
  <2>2. OnChain(p, e.block)
    BY <1>1, <2>1, OnChainTransitive
  <2>3. p # e.block
    <3> SUFFICES ASSUME p = e.block PROVE FALSE
      OBVIOUS
    <3>1. Number(e.block) <= Number(b)
      BY DEF OnChain
    <3> QED
      BY <1>1, <2>1, <3>1, OnChainSameNumber
  <2> QED
    BY <1>2, <2>2, <2>3 DEF Reaches
<1>3. CASE e.kind # "process"
  <2>1. e.block = Parent(b)
    BY <1>3 DEF Follows
  <2>2. CASE p # b
    BY <1>3, <2>1, <2>2, ParentOnChain DEF Reaches
  <2>3. CASE p = b /\ Number(b) # 0
    BY <1>3, <2>1, <2>3 DEF Reaches
  <2>4. CASE p = b /\ Number(b) = 0
    BY <1>3, <2>1, <2>4, ParentOfGenesis, OnChainSelf DEF Reaches
  <2> QED
    BY <2>2, <2>3, <2>4
<1> QED
  BY <1>2, <1>3

(* A stream sends an event.                                                *)
LEMMA SendKeepsEvents ==
  ASSUME BufferType, cur \in Blocks, ptr \in Blocks, EventsInv,
         NEW e \in TrueEvents, Follows(cur, e), buffer' = Append(buffer, e),
         cur' = e.block, ptr' = ptr
  PROVE  EventsInv'
<1>0. buffer \in Seq(TrueEvents) /\ Len(buffer) \in Nat
  BY LenProperties DEF BufferType
<1>1. /\ buffer' \in Seq(TrueEvents) /\ Len(buffer') = Len(buffer) + 1
      /\ buffer' # <<>> /\ buffer'[Len(buffer) + 1] = e
      /\ \A n \in 1 .. Len(buffer) : buffer'[n] = buffer[n]
  <2>1. /\ Append(buffer, e) \in Seq(TrueEvents)
        /\ Len(Append(buffer, e)) = Len(buffer) + 1
    BY <1>0
  <2>2. Append(buffer, e)[Len(buffer) + 1] = e
    BY <1>0
  <2>3. \A n \in 1 .. Len(buffer) : Append(buffer, e)[n] = buffer[n]
    BY <1>0
  <2>4. Append(buffer, e) # <<>>
    <3>1. Len(Append(buffer, e)) # 0
      BY <1>0, <2>1
    <3>2. Len(<< >>) = 0
      BY EmptySeq
    <3> QED
      BY <3>1, <3>2, Zenon
  <2> QED
    BY <2>1, <2>2, <2>3, <2>4
<1>2. Reaches(ptr, buffer'[1])
  <2>1. CASE buffer = <<>>
    BY <1>0, <1>1, <2>1, FollowsReaches DEF EventsInv
  <2>2. CASE buffer # <<>>
    <3>1. 1 \in 1 .. Len(buffer)
      BY <1>0, <1>1, <2>2, EmptySeq
    <3> QED
      BY <1>0, <1>1, <2>2, <3>1 DEF EventsInv
  <2> QED
    BY <2>1, <2>2
<1>3. ASSUME NEW n \in 2 .. Len(buffer')
      PROVE  Follows(buffer'[n - 1].block, buffer'[n])
  <2>1. CASE n <= Len(buffer)
    BY <1>0, <1>1, <2>1 DEF EventsInv
  <2>2. CASE n = Len(buffer) + 1
    <3>1. buffer # <<>> /\ n - 1 = Len(buffer) /\ Len(buffer) \in 1 .. Len(buffer)
      BY <1>0, <1>1, <1>3, <2>2, EmptySeq
    <3>2. buffer'[n - 1].block = cur
      BY <1>0, <1>1, <3>1 DEF EventsInv
    <3> QED
      BY <1>0, <1>1, <2>2, <3>2
  <2> QED
    BY <1>0, <1>1, <2>1, <2>2
<1> QED
  BY <1>0, <1>1, <1>2, <1>3 DEF EventsInv, Follows, Reaches

(* The runner goes on with the next event, from a block that the stream    *)
(* has passed.                                                             *)
LEMMA NextKeepsEvents ==
  ASSUME BufferType, buffer # <<>>, EventsInv, NextEvent, ptr' \in Blocks,
         OnChain(ptr', Event.block)
  PROVE  EventsInv'
<1>1. /\ buffer \in Seq(TrueEvents) /\ Len(buffer) \in Nat \ {0}
      /\ buffer' \in Seq(TrueEvents) /\ Len(buffer') = Len(buffer) - 1
      /\ Event = buffer[1]
      /\ \A n \in 1 .. Len(buffer') : buffer'[n] = buffer[n + 1]
  BY EmptySeq, HeadTailProperties DEF BufferType, NextEvent, Event
<1>2. Event.block \in Blocks
  BY EventType
<1>3. CASE buffer' = <<>>
  <2>1. Len(buffer) = 1
    BY <1>1, <1>3, EmptySeq
  <2>2. cur' = Event.block
    BY <1>1, <2>1 DEF EventsInv, NextEvent
  <2> QED
    BY <1>1, <1>3, <2>1, <2>2 DEF EventsInv
<1>4. CASE buffer' # <<>>
  <2>1. Len(buffer') \in 1 .. Len(buffer') /\ 2 \in 2 .. Len(buffer)
        /\ 1 \in 1 .. Len(buffer')
    BY <1>1, <1>4, EmptySeq
  <2>2. buffer'[1] = buffer[2] /\ buffer'[1] \in TrueEvents
    BY <1>1, <2>1, ElementOfSeq
  <2>3. Follows(Event.block, buffer'[1])
    BY <1>1, <2>1, <2>2 DEF EventsInv
  <2>4. Reaches(ptr', buffer'[1])
    BY <1>2, <2>2, <2>3, FollowsReaches
  <2>5. cur' = buffer'[Len(buffer')].block
    BY <1>1, <2>1 DEF EventsInv, NextEvent
  <2>6. ASSUME NEW n \in 2 .. Len(buffer')
        PROVE  Follows(buffer'[n - 1].block, buffer'[n])
    <3>1. /\ n \in 1 .. Len(buffer') /\ n - 1 \in 1 .. Len(buffer')
          /\ n + 1 \in 2 .. Len(buffer)
      BY <1>1
    <3>2. buffer'[n] = buffer[n + 1] /\ buffer'[n - 1] = buffer[n]
      BY <1>1, <3>1
    <3>3. Follows(buffer[(n + 1) - 1].block, buffer[n + 1])
      BY <3>1 DEF EventsInv
    <3> QED
      BY <3>2, <3>3
  <2> QED
    BY <1>4, <2>4, <2>5, <2>6 DEF EventsInv, Follows, Reaches
<1> QED
  BY <1>3, <1>4

(* The node never takes back a block that the threshold makes final.       *)
LEMMA FinalStays ==
  ASSUME TypeInv, NodeAdvance, view \in Blocks, NEW b \in Blocks,
         Canonical(b), Number(b) <= Final(view), Number(cur) < Final(view)
  PROVE  OnChain(b, tip')
<1>1. PICK new \in Blocks :
        /\ OnChain(Ancestor(tip, AtLeast(0, Number(tip) - ReorgDepth)), new)
        /\ tip' = new
  BY DEF NodeAdvance
<1> DEFINE n == AtLeast(0, Number(tip) - ReorgDepth)
<1>2. /\ tip \in Blocks /\ Number(tip) \in Nat /\ Number(view) <= Number(tip)
      /\ Number(view) \in Nat /\ Number(cur) \in Nat
  BY NumberType DEF TypeInv, StoreType, StreamType, StreamHeights
<1>3. Final(view) = Number(view) - ReorgThreshold
  BY <1>2, FinalBounds
<1>4. n \in 0 .. Number(tip) /\ Number(b) <= n
  <2>1. Number(b) \in Nat /\ Number(b) <= Number(view) - ReorgThreshold
    BY <1>3, NumberType
  <2>2. ReorgDepth <= ReorgThreshold /\ ReorgDepth \in Nat /\ ReorgThreshold \in Nat
    BY FinalityAssumption
  <2> HIDE DEF n
  <2>3. n = AtLeast(0, Number(tip) - ReorgDepth)
    BY DEF n
  <2>4. /\ Number(tip) - ReorgDepth <= n /\ n \in Nat
        /\ n <= Number(tip)
    BY <1>2, <2>2, <2>3 DEF AtLeast
  <2> QED
    BY <1>2, <2>1, <2>2, <2>4
<1>5. /\ Ancestor(tip, n) \in Blocks /\ Number(Ancestor(tip, n)) = n
      /\ OnChain(Ancestor(tip, n), tip)
  BY <1>2, <1>4, AncestorOf, AncestorOnChain
<1>6. OnChain(b, Ancestor(tip, n))
  BY <1>2, <1>4, <1>5, OnChainTotal DEF Canonical
<1>7. OnChain(b, new)
  BY <1>1, <1>5, <1>6, OnChainTransitive
<1> QED
  BY <1>1, <1>7 DEF Canonical

LEMMA NodeKeepsFar ==
  ASSUME TypeInv, NodeAdvance, UNCHANGED streamVars, FarInv
  PROVE  FarInv'
<1>1. cur \in Blocks /\ (stage \in {"far", "scan", "logs"} => view \in Blocks)
      /\ \A f \in yielding : f.block \in Blocks
  BY DEF TypeInv, StreamType, TrueFinds, Finds
<1>2. stage \in {"far", "scan", "logs"} => (Number(cur) < Final(view))'
  BY DEF FarInv, Final, Threshold, AtMost, Number, streamVars
<1>3. CASE stage \in {"scan", "logs"}
  <2>1. Number(cur) <= Final(view) /\ Number(cur) < Final(view) /\ view \in Blocks
    BY <1>1, <1>3, NumberType, FinalType DEF FarInv
  <2>2. OnChain(cur, tip')
    BY <1>1, <1>3, <2>1, FinalStays DEF FarInv
  <2>3. ASSUME stage = "logs", NEW f \in yielding
        PROVE  OnChain(f.block, tip')
    BY <1>1, <2>1, <2>3, FinalStays DEF FarInv
  <2> QED
    BY <1>2, <2>2, <2>3 DEF FarInv, streamVars, Canonical, Final, Threshold, AtMost, Number
<1>4. CASE stage \notin {"scan", "logs"}
  BY <1>2, <1>4 DEF FarInv, streamVars
<1> QED
  BY <1>3, <1>4

(* Where the stream looks next.                                            *)
OrderInv == FarInv /\ YieldInv /\ EventsInv

LEMMA NewStreamOrder ==
  ASSUME NEW p \in Blocks, NewStream(p), ptr' = p
  PROVE  OrderInv'
<1>1. Len(<< >>) = 0
  BY EmptySeq
<1>2. OnChain(p, p)
  BY OnChainSelf
<1> QED
  BY <1>1, <1>2 DEF NewStream, OrderInv, FarInv, YieldInv, EventsInv

LEMMA StepBackOrder ==
  ASSUME TypeInv, OrderInv, StepBack, stage # "yield", ptr' = ptr
  PROVE  OrderInv'
<1>1. cur \in Blocks /\ ptr \in Blocks /\ Parent(cur) \in Blocks /\ BufferType
  BY ParentType DEF TypeInv, StreamType, RunnerType
<1>2. CASE /\ stage' = "begin" /\ cur' = Parent(cur)
           /\ buffer' = Append(buffer, Revert(Parent(cur)))
  <2>1. /\ Revert(Parent(cur)) \in TrueEvents
        /\ Revert(Parent(cur)).block = Parent(cur)
        /\ Follows(cur, Revert(Parent(cur)))
    BY <1>1 DEF Revert, TrueEvents, Events, Follows
  <2>2. EventsInv'
    BY <1>1, <1>2, <2>1, SendKeepsEvents DEF OrderInv
  <2> QED
    BY <1>2, <2>2 DEF OrderInv, FarInv, YieldInv
<1>3. CASE stage' = "begin" /\ UNCHANGED <<cur, view, yielding, buffer>>
  BY <1>3 DEF OrderInv, FarInv, YieldInv, EventsInv
<1> QED
  BY <1>2, <1>3 DEF StepBack

LEMMA AncestorBlockOrder ==
  ASSUME TypeInv, OrderInv, AncestorBlock
  PROVE  OrderInv'
<1>1. view \in Blocks /\ cur \in Blocks /\ UNCHANGED ptr
  BY DEF AncestorBlock, TypeInv, StreamType, runnerVars
<1>2. CASE stage' = "begin" /\ UNCHANGED <<cur, buffer>>
  BY <1>1, <1>2 DEF OrderInv, FarInv, YieldInv, EventsInv
<1>3. ASSUME NEW n \in Reached, yielding' = {FoundInStore(Ancestor(view, n))},
             Ancestor(view, n - 1) = cur, stage' = "yield",
             UNCHANGED <<cur, view, buffer>>
      PROVE  OrderInv'
  <2> DEFINE b == Ancestor(view, n)
  <2>1. /\ n \in 0 .. Number(view) /\ n - 1 \in 0 .. n /\ n - 1 \in 0 .. Number(view)
    BY <1>1, ReachedType, NumberType
  <2>2. /\ b \in Blocks /\ Number(b) = n /\ Number(cur) = n - 1
        /\ Ancestor(b, n - 1) = cur
    BY <1>1, <1>3, <2>1, AncestorOf, AncestorAncestor
  <2>3. OnChain(cur, b) /\ cur # b /\ OnChain(b, b)
    BY <2>1, <2>2, OnChainSelf DEF OnChain
  <2>4. FoundInStore(b).block = b
    BY <2>2, FoundInStoreType
  <2>5. YieldInv'
    BY <1>3, <2>3, <2>4 DEF YieldInv
  <2> QED
    BY <1>1, <1>3, <2>5 DEF OrderInv, FarInv, EventsInv
<1>4. CASE StepBack
  BY <1>1, <1>4, StepBackOrder DEF AncestorBlock, AncestorFound
<1> QED
  BY <1>2, <1>3, <1>4 DEF AncestorBlock, AncestorFound

LEMMA YieldBlockOrder ==
  ASSUME TypeInv, OrderInv, YieldBlock
  PROVE  OrderInv'
<1>1. CASE stage' = "begin" /\ UNCHANGED <<cur, buffer>>
  BY <1>1 DEF YieldBlock, runnerVars, OrderInv, FarInv, YieldInv, EventsInv
<1>2. ASSUME NEW f \in yielding, yielding' = yielding \ {f}, cur' = f.block,
             \A g \in yielding : Number(f.block) <= Number(g.block),
             buffer' = Append(buffer, Process(f)), UNCHANGED stage, stage = "yield"
      PROVE  OrderInv'
  <2>1. /\ f.block \in Blocks /\ Process(f) \in TrueEvents
        /\ Process(f).block = f.block /\ Process(f).kind = "process"
    BY DEF TypeInv, StreamType, TrueFinds, Finds, Process, Events, TrueEvents
  <2>2. Follows(cur, Process(f))
    BY <1>2, <2>1 DEF Follows, OrderInv, YieldInv
  <2>3. EventsInv'
    BY <1>2, <2>1, <2>2, SendKeepsEvents
       DEF OrderInv, TypeInv, StreamType, RunnerType, YieldBlock, runnerVars
  <2>4. YieldInv'
    BY <1>2 DEF OrderInv, YieldInv
  <2> QED
    BY <1>2, <2>3, <2>4 DEF OrderInv, FarInv
<1> QED
  BY <1>1, <1>2 DEF YieldBlock

LEMMA ResolveToOrder ==
  ASSUME TypeInv, OrderInv, ResolveTo
  PROVE  OrderInv'
<1>1. PICK to \in Number(cur) + 1 .. Final(view) :
        yielding' = {Found(Ancestor(tip, to))}
  BY DEF ResolveTo
<1>2. /\ view \in Blocks /\ cur \in Blocks /\ tip \in Blocks
      /\ Number(view) <= Number(tip) /\ stage = "scan" /\ stage' = "logs"
      /\ UNCHANGED <<tip, cur, view, buffer, ptr>>
  BY DEF ResolveTo, TypeInv, StreamType, StreamHeights, StoreType, runnerVars
<1>3. to \in 0 .. Number(tip) /\ Number(cur) < to /\ to <= Final(view)
  <2>1. /\ Number(view) \in Nat /\ Number(cur) \in Nat /\ Number(tip) \in Nat
        /\ Final(view) \in 0 .. Number(view)
    BY <1>2, NumberType, FinalType
  <2> QED
    BY <1>2, <2>1
<1>4. /\ Ancestor(tip, to) \in Blocks /\ Number(Ancestor(tip, to)) = to
      /\ Canonical(Ancestor(tip, to))
  BY <1>2, <1>3, AncestorOf, AncestorOnChain DEF Canonical
<1>5. \A f \in yielding' : f.block = Ancestor(tip, to)
  BY <1>1, <1>4, FoundType
<1>6. FarInv'
  BY <1>2, <1>3, <1>4, <1>5 DEF OrderInv, FarInv, Canonical
<1> QED
  BY <1>2, <1>6 DEF OrderInv, YieldInv, EventsInv

(* Blocks of the node's chain that a scan has found are all of one chain.  *)
LEMMA ScanTriggersOrder ==
  ASSUME TypeInv, OrderInv, ScanTriggers
  PROVE  OrderInv'
<1>1. /\ cur \in Blocks /\ tip \in Blocks /\ stage = "logs" /\ stage' = "yield"
      /\ UNCHANGED <<tip, cur, view, buffer, ptr>>
  BY DEF ScanTriggers, TypeInv, StreamType, StoreType, runnerVars
<1>2. PICK f \in yielding :
        \/ yielding' = {}
        \/ yielding' = {Found(b) : b \in Hits(f.block)}
                         \cup {[f EXCEPT !.hit = f.block \in Hits(f.block)]}
  BY DEF ScanTriggers
<1>3. /\ f \in Finds /\ f.block \in Blocks /\ Canonical(cur) /\ Canonical(f.block)
      /\ Number(cur) < Number(f.block)
  BY <1>1 DEF OrderInv, FarInv, TypeInv, StreamType, TrueFinds, Finds
<1>4. [f EXCEPT !.hit = f.block \in Hits(f.block)] = Found(f.block)
  <2>1. f.block \in Hits(f.block) <=> f.block \in Triggers
    BY <1>1, <1>3, NumberType DEF Hits
  <2>2. PICK b \in Blocks, hit \in BOOLEAN : f = [block |-> b, hit |-> hit]
    BY <1>3 DEF Finds
  <2>3. [f EXCEPT !.hit = f.block \in Hits(f.block)]
          = [block |-> f.block, hit |-> f.block \in Hits(f.block)]
    BY <2>2
  <2>4. CASE f.block \in Triggers
    <3>1. (f.block \in Hits(f.block)) = TRUE /\ (f.block \in Triggers) = TRUE
      BY <2>1, <2>4
    <3> QED
      BY <2>3, <3>1, Zenon DEF Found
  <2>5. CASE f.block \notin Triggers
    <3>1. (f.block \in Hits(f.block)) = FALSE /\ (f.block \in Triggers) = FALSE
      BY <2>1, <2>5
    <3> QED
      BY <2>3, <3>1, Zenon DEF Found
  <2> QED
    BY <2>4, <2>5
<1>5. \A g \in yielding' :
        /\ g.block \in Blocks /\ g = Found(g.block) /\ Canonical(g.block)
        /\ Number(cur) < Number(g.block)
  <2>1. Hits(f.block) \subseteq Blocks
    BY DEF Hits
  <2>2. \A b \in Hits(f.block) : Canonical(b) /\ Number(cur) < Number(b)
    BY <1>1, NumberType, <2>1 DEF Hits
  <2>3. ASSUME NEW b \in Blocks, Canonical(b), Number(cur) < Number(b)
        PROVE  /\ Found(b).block \in Blocks /\ Found(b) = Found(Found(b).block)
               /\ Canonical(Found(b).block) /\ Number(cur) < Number(Found(b).block)
    <3>1. Found(b).block = b
      BY FoundType
    <3> QED
      BY <2>3, <3>1, Zenon
  <2>4. \A g \in yielding' : \E b \in Hits(f.block) \cup {f.block} : g = Found(b)
    BY <1>2, <1>4
  <2>5. \A b \in Hits(f.block) \cup {f.block} :
          b \in Blocks /\ Canonical(b) /\ Number(cur) < Number(b)
    BY <1>3, <2>1, <2>2
  <2> SUFFICES ASSUME NEW g \in yielding'
               PROVE  /\ g.block \in Blocks /\ g = Found(g.block)
                      /\ Canonical(g.block) /\ Number(cur) < Number(g.block)
    OBVIOUS
  <2>6. PICK b \in Hits(f.block) \cup {f.block} : g = Found(b)
    BY <2>4
  <2>7. b \in Blocks /\ Canonical(b) /\ Number(cur) < Number(b)
    BY <2>5
  <2> QED
    BY <2>3, <2>6, <2>7, Zenon
<1>6. YieldInv'
  <2> SUFFICES ASSUME NEW g \in yielding'
               PROVE  /\ OnChain(cur, g.block) /\ cur # g.block
                      /\ \A h \in yielding' :
                           /\ Number(g.block) <= Number(h.block)
                                => OnChain(g.block, h.block)
                           /\ g.block = h.block => g = h
    BY <1>1 DEF YieldInv
  <2>1. OnChain(cur, g.block) /\ cur # g.block
    BY <1>1, <1>3, <1>5, NumberType, OnChainTotal DEF Canonical
  <2>2. ASSUME NEW h \in yielding', Number(g.block) <= Number(h.block)
        PROVE  OnChain(g.block, h.block)
    BY <1>1, <1>5, <2>2, OnChainTotal DEF Canonical
  <2>3. ASSUME NEW h \in yielding', g.block = h.block
        PROVE  g = h
    BY <1>5, <2>3, Zenon
  <2> QED
    BY <2>1, <2>2, <2>3
<1> QED
  BY <1>1, <1>6 DEF OrderInv, FarInv, EventsInv

LEMMA StreamOrder ==
  ASSUME TypeInv, OrderInv, StreamStep
  PROVE  OrderInv'
<1>1. CASE ReadHead
  BY <1>1, NumberType, FinalType
     DEF ReadHead, storeVars, runnerVars, TypeInv, StoreType, StreamType, OrderInv,
     FarInv, YieldInv, EventsInv
<1>2. CASE HeadUpdate
  BY <1>2 DEF HeadUpdate, runnerVars, OrderInv, FarInv, YieldInv, EventsInv
<1>3. CASE IsOnMainChain
  <2>1. CASE /\ Canonical(cur) /\ stage' = "scan"
             /\ UNCHANGED <<blocks, light, cur, view, yielding, buffer>>
    BY <1>3, <2>1 DEF IsOnMainChain, runnerVars, OrderInv, FarInv, YieldInv,
       EventsInv, Canonical
  <2>2. CASE StepBack
    BY <1>3, <2>2, StepBackOrder DEF IsOnMainChain, runnerVars
  <2> QED
    BY <1>3, <2>1, <2>2 DEF IsOnMainChain
<1> QED
  BY <1>1, <1>2, <1>3, ResolveToOrder, ScanTriggersOrder, AncestorBlockOrder,
     YieldBlockOrder DEF StreamStep

LEMMA RunnerOrder ==
  ASSUME TypeInv, OrderInv,
         \/ RunnerStep \/ RevertFails \/ DeterministicError \/ Commit \/ Restart
         \/ \E lost \in BOOLEAN : NonDeterministicError(lost)
  PROVE  OrderInv'
<1>1. TypeInv'
  BY RunnerTypes, FaultTypes
<1>2. ptr \in Blocks /\ ptr' \in Blocks /\ UNCHANGED tip
  BY <1>1 DEF TypeInv, RunnerType, RunnerStep, SkipPtrUpdate, ProcessBlock,
     PossibleReorg, HandleRevert, RevertFails, DeterministicError, Commit, Restart,
     NonDeterministicError
<1>3. CASE NewStream(ptr')
  BY <1>2, <1>3, NewStreamOrder
<1>4. CASE Commit
  BY <1>4 DEF Commit, streamVars, OrderInv, FarInv, YieldInv, EventsInv, Canonical
<1>5. CASE NextEvent /\ buffer # <<>> /\ OnChain(ptr', Event.block)
  <2>1. EventsInv'
    BY <1>2, <1>5, NextKeepsEvents DEF OrderInv, TypeInv
  <2> QED
    BY <1>2, <1>5, <2>1 DEF NextEvent, OrderInv, FarInv, YieldInv, Canonical
<1>6. ASSUME buffer # <<>>
      PROVE  /\ Event.block \in Blocks /\ Reaches(ptr, Event)
             /\ OnChain(Event.block, Event.block)
  <2>1. Event = buffer[1]
    BY <1>6, HeadTailProperties DEF TypeInv, BufferType, Event
  <2> QED
    BY <1>6, <2>1, EventType, OnChainSelf DEF TypeInv, OrderInv, EventsInv
<1>7. CASE SkipPtrUpdate
  <2>1. ptr' = ptr /\ NextEvent /\ buffer # <<>> /\ Event.kind = "process"
    BY <1>7 DEF SkipPtrUpdate, Handles, runnerVars
  <2> QED
    BY <1>5, <1>6, <2>1 DEF Reaches
<1>8. CASE ProcessBlock
  <2>1. /\ ptr' = Event.block /\ buffer # <<>>
        /\ NextEvent \/ NewStream(Event.block)
    BY <1>8 DEF ProcessBlock, Handles
  <2> QED
    BY <1>3, <1>5, <1>6, <2>1
<1>9. CASE PossibleReorg
  BY <1>3, <1>9 DEF PossibleReorg, runnerVars
<1>10. CASE HandleRevert
  <2>1. buffer # <<>> /\ Event.kind = "revert"
    BY <1>10 DEF HandleRevert, Handles
  <2>2. CASE Number(Event.block) >= Number(ptr) /\ NextEvent /\ ptr' = ptr
    <3>1. OnChain(ptr, Event.block)
      <4>1. Number(ptr) # 0 => Number(Parent(ptr)) < Number(ptr)
        BY <1>2, ParentOf, NumberType
      <4> QED
        BY <1>2, <1>6, <2>1, <2>2, <4>1, NumberType DEF Reaches
    <3> QED
      BY <1>5, <2>1, <2>2, <3>1
  <2>3. CASE ptr' = Event.block /\ (NextEvent \/ NewStream(Event.block))
    BY <1>3, <1>5, <1>6, <2>1, <2>3
  <2> QED
    BY <1>10, <2>2, <2>3 DEF HandleRevert
<1>11. CASE \/ RevertFails \/ DeterministicError \/ Restart
            \/ \E lost \in BOOLEAN : NonDeterministicError(lost)
  BY <1>3, <1>11 DEF RevertFails, DeterministicError, Restart, NonDeterministicError
<1> QED
  BY <1>4, <1>7, <1>8, <1>9, <1>10, <1>11 DEF RunnerStep

LEMMA OrderStep ==
  ASSUME TypeInv, OrderInv, [Next]_vars
  PROVE  OrderInv'
<1>1. CASE NodeAdvance /\ UNCHANGED <<streamVars, runnerVars>>
  BY <1>1, NodeKeepsFar DEF streamVars, runnerVars, OrderInv, YieldInv, EventsInv
<1>2. CASE UNCHANGED <<tip, streamVars, runnerVars>>
  BY <1>2 DEF streamVars, runnerVars, OrderInv, FarInv, YieldInv, EventsInv, Canonical
<1>3. CASE IngestorStep(SlowestActive) /\ UNCHANGED <<streamVars, runnerVars>>
  <2>1. UNCHANGED tip
    BY <1>3 DEF IngestorStep, Poll, IngestBlock, BlockUnavailable,
       AttemptChainHeadUpdate, CleanupCachedBlocks
  <2> QED
    BY <1>2, <1>3, <2>1
<1>4. CASE PollFails /\ UNCHANGED <<streamVars, runnerVars>>
  BY <1>2, <1>4 DEF PollFails
<1>5. CASE UNCHANGED vars
  BY <1>2, <1>5 DEF vars
<1> QED
  BY <1>1, <1>3, <1>4, <1>5, StreamOrder, RunnerOrder DEF Next

(* For any chain, any reorganisations no deeper than the threshold and any *)
(* failures: the events a runner receives take it from its block along     *)
(* one chain, block by block back and range by range forward, although the *)
(* stream decides on heads, cached blocks and answers of the node that     *)
(* were read at different times.                                           *)
THEOREM EventsConnect == Spec => []StreamConnected
<1>1. Init => TypeInv /\ OrderInv
  <2> SUFFICES ASSUME Init PROVE TypeInv /\ OrderInv
    OBVIOUS
  <2>1. Len(<< >>) = 0 /\ OnChain(StartPtr, StartPtr)
    BY EmptySeq, OnChainSelf
  <2> QED
    BY <2>1, InitTypes DEF Init, OrderInv, FarInv, YieldInv, EventsInv
<1>2. TypeInv /\ OrderInv /\ [Next]_vars => (TypeInv /\ OrderInv)'
  BY NextTypes, OrderStep
<1>3. TypeInv /\ OrderInv => StreamConnected
  <2> SUFFICES ASSUME TypeInv, OrderInv, NEW n \in 1 .. Len(buffer)
               PROVE  LET before == Behind(ptr, n - 1)
                      IN  IF buffer[n].kind = "process"
                          THEN OnChain(before, buffer[n].block) /\ buffer[n].block # before
                          ELSE n > 1 => buffer[n].block = Parent(before)
    BY DEF StreamConnected
  <2>1. Len(buffer) \in Nat /\ buffer # <<>>
    BY LenProperties, EmptySeq DEF TypeInv, BufferType
  <2>2. CASE n = 1
    BY <2>1, <2>2 DEF OrderInv, EventsInv, Reaches, Behind
  <2>3. CASE n # 1
    <3>1. n \in 2 .. Len(buffer) /\ n - 1 # 0
      BY <2>1, <2>3
    <3> QED
      BY <3>1 DEF OrderInv, EventsInv, Follows, Behind
  <2> QED
    BY <2>2, <2>3
<1> QED
  BY <1>1, <1>2, <1>3, PTL DEF Spec
=============================================================================
