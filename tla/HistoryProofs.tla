----------------------------- MODULE HistoryProofs -----------------------------
(***************************************************************************)
(* What a deployment holds is the history of its block, and a stream near  *)
(* the head steps back only from abandoned blocks: for any tree of blocks  *)
(* and any bounds.                                                         *)
(*                                                                         *)
(* The argument follows the effects of the blocks from the node to the     *)
(* database: what is yielded accounts for every trigger between the        *)
(* stream's block and the one yielded, each event in the buffer accounts   *)
(* for those between its block and the one before, and so for those        *)
(* between the runner's pointer and its block.  A trigger would be missed  *)
(* if the stream, near the head, met a block that was stored without       *)
(* receipts; those are all as old as the reorg threshold, because blocks   *)
(* younger than that, once stored, stay in the store.                      *)
(***************************************************************************)
EXTENDS BlockStreamProofs

USE BlocksAssumption, CountAssumption, StreamAssumption

-----------------------------------------------------------------------------
(* The store: no block younger than Bound is without receipts, and none    *)
(* that the deployment has come across is missing.                         *)
Bound == AtLeast(Number(StartPtr), IF head = None THEN 0 ELSE Final(head))
PresentIn(b, bound, store) ==
  \A m \in bound + 1 .. Number(b) : Ancestor(b, m) \in store
Present(b) == PresentIn(b, Bound, blocks)

LightInv ==
  /\ view # None => head # None /\ Number(view) <= Number(head)
  /\ \A b \in light : Number(b) <= Bound
  /\ stage = "near" =>
       /\ Final(view) <= Number(cur)
       /\ \A b \in light : Number(b) <= AtLeast(Number(StartPtr), Final(view))

PresentInv ==
  /\ Present(cur) /\ Present(ptr) /\ Present(db.ptr)
  /\ stage = "yield" => \A f \in yielding : Present(f.block)
  /\ \A n \in 1 .. Len(buffer) : Present(buffer[n].block)

(* The effects.  An event brings those of its block, and nothing else has  *)
(* happened since the block before it.                                     *)
Brings(b, e) ==
  IF e.kind = "process" THEN History(e.block) = History(b) \cup Effects(e)
  ELSE OnChain(b, e.block) => History(e.block) = History(b)

YieldHistory ==
  stage = "yield" => \A f \in yielding :
    History(f.block) \subseteq
      History(cur) \cup {g.block : g \in {h \in yielding : h.hit}}

EventsHistory ==
  /\ buffer = <<>> => History(cur) = History(ptr)
  /\ buffer # <<>> => Brings(ptr, buffer[1])
  /\ \A n \in 2 .. Len(buffer) : Brings(buffer[n - 1].block, buffer[n])

Holds(s, p) == s = History(p) \/ (Failed(p) /\ s = History(p) \ {p})
AppliedInv ==
  /\ running => applied = History(ptr) /\ db.applied = History(db.ptr)
  /\ Holds(applied, ptr) /\ Holds(db.applied, db.ptr)

HistoryInv ==
  LightInv /\ PresentInv /\ YieldHistory /\ EventsHistory /\ AppliedInv
-----------------------------------------------------------------------------
(* Histories.                                                              *)
LEMMA HistoryGrows ==
  ASSUME NEW a \in Blocks, NEW b \in Blocks, OnChain(a, b)
  PROVE  History(a) \subseteq History(b)
<1> SUFFICES ASSUME NEW c \in History(a) PROVE c \in History(b)
  OBVIOUS
<1>1. /\ c \in Blocks /\ c \in Triggers /\ OnChain(c, a)
      /\ Number(c) > Number(StartPtr)
  BY DEF History
<1>2. OnChain(c, b)
  BY <1>1, OnChainTransitive
<1> QED
  BY <1>1, <1>2 DEF History

LEMMA HistoryOfTrigger ==
  ASSUME NEW b \in Triggers
  PROVE  b \in History(b)
  BY OnChainSelf, StartAssumption DEF History

LEMMA HistoryBelow ==
  ASSUME NEW a \in Blocks, NEW b \in Blocks, OnChain(a, b),
         NEW c \in History(b), Number(c) <= Number(a)
  PROVE  c \in History(a)
<1>1. /\ c \in Blocks /\ c \in Triggers /\ OnChain(c, b)
      /\ Number(c) > Number(StartPtr)
  BY DEF History
<1>2. OnChain(c, a)
  BY <1>1, OnChainTotal
<1> QED
  BY <1>1, <1>2 DEF History

LEMMA HistoryOfBlocks ==
  ASSUME NEW b \in Blocks, NEW c \in History(b)
  PROVE  c \in Blocks /\ c \in Triggers /\ Number(c) <= Number(b)
  BY DEF History, OnChain

(* What a revert leaves.                                                   *)
LEMMA HistoryReverted ==
  ASSUME NEW a \in Blocks, NEW b \in Blocks, OnChain(a, b)
  PROVE  /\ RevertTo(a, History(b)) = History(a)
         /\ a # b => RevertTo(a, History(b) \ {b}) = History(a)
<1>1. \A c \in History(a) : Number(c) <= Number(a) /\ c \in History(b)
  BY HistoryGrows, HistoryOfBlocks
<1>2. \A c \in History(b) : Number(c) <= Number(a) => c \in History(a)
  BY HistoryBelow
<1>3. a # b => b \notin History(a)
  <2> SUFFICES ASSUME a # b, b \in History(a) PROVE FALSE
    OBVIOUS
  <2>1. Number(b) <= Number(a)
    BY HistoryOfBlocks
  <2> QED
    BY <2>1, OnChainSameNumber
<1> QED
  BY <1>1, <1>2, <1>3 DEF RevertTo
-----------------------------------------------------------------------------
(* The store.                                                              *)
LEMMA BoundType ==
  ASSUME TypeInv
  PROVE  Bound \in Nat /\ Number(StartPtr) \in Nat /\ Number(StartPtr) <= Bound
<1>1. head # None => Final(head) \in Nat
  BY FinalType, NumberType DEF TypeInv, StoreType
<1> QED
  BY <1>1, NumberType DEF Bound, AtLeast

LEMMA FinalGrows ==
  ASSUME NEW a \in Blocks, NEW b \in Blocks, Number(a) <= Number(b)
  PROVE  Final(a) <= Final(b)
  BY NumberType DEF Final, Threshold, AtMost

LEMMA BoundGrows ==
  ASSUME TypeInv, HeadAncestorsPresent, [Next]_vars
  PROVE  /\ Bound' \in Nat /\ Bound <= Bound'
         /\ head # None => head' # None /\ Number(head) <= Number(head')
<1>1. TypeInv'
  BY NextTypes
<1>2. head' = head \/ (head' # None /\ Number(head') > HeadNumber)
  BY HeadStep
<1>3. head \in Blocks \cup {None} /\ head' \in Blocks \cup {None}
  BY <1>1 DEF TypeInv, StoreType
<1>4. head # None => head' # None /\ Number(head) <= Number(head')
  BY <1>2, <1>3, NumberType DEF HeadNumber
<1>5. head # None => Final(head) <= Final(head')
  BY <1>3, <1>4, FinalGrows
<1>6. /\ head # None => Final(head) \in Nat
      /\ head' # None => Final(head') \in Nat
  BY <1>3, FinalType, NumberType
<1> DEFINE old == IF head = None THEN 0 ELSE Final(head)
           new == IF head' = None THEN 0 ELSE Final(head')
<1>7. old \in Nat /\ new \in Nat /\ old <= new
  BY <1>4, <1>5, <1>6
<1>8. Bound = AtLeast(Number(StartPtr), old) /\ Bound' = AtLeast(Number(StartPtr), new)
  BY DEF Bound
<1>9. Number(StartPtr) \in Nat
  BY NumberType
<1> HIDE DEF old, new
<1> QED
  BY <1>4, <1>7, <1>8, <1>9 DEF AtLeast

(* Cleaning spares what is younger than the threshold.                     *)
LEMMA KeepsYoung ==
  ASSUME TypeInv, HeadAncestorsPresent, [Next]_vars,
         NEW b \in blocks, Number(b) > Bound
  PROVE  b \in blocks'
<1>1. CASE CleanupCachedBlocks(SlowestActive)
  <2>1. b \in Blocks /\ Number(b) \in Nat /\ Bound \in Nat
    BY BoundType, NumberType DEF TypeInv, StoreType
  <2>2. CASE head = None
    BY <1>1, <2>2 DEF CleanupCachedBlocks
  <2>3. CASE head # None
    <3>1. head \in Blocks /\ Number(head) \in Nat
      BY <2>3, NumberType DEF TypeInv, StoreType
    <3>2. SlowestActive # None => Number(SlowestActive) \in Nat
      BY NumberType DEF SlowestActive, TypeInv, RunnerType
    <3>3. RetainFrom(SlowestActive) <= Number(head) - AncestorCount
          /\ RetainFrom(SlowestActive) \in Int
      BY <3>1, <3>2 DEF RetainFrom, AtMost
    <3>4. Number(head) - AncestorCount <= Final(head) /\ Final(head) \in Nat
      BY <3>1, RetentionAssumption DEF Final, Threshold, AtMost
    <3>5. Final(head) <= Bound
      BY <2>3, <3>4, NumberType DEF Bound, AtLeast
    <3> QED
      BY <1>1, <2>1, <2>3, <3>1, <3>3, <3>4, <3>5 DEF CleanupCachedBlocks
  <2> QED
    BY <2>2, <2>3
<1>2. CASE IngestorStep(SlowestActive) /\ ~CleanupCachedBlocks(SlowestActive)
  BY <1>2 DEF IngestorStep, Poll, IngestBlock, BlockUnavailable, AttemptChainHeadUpdate
<1>3. CASE ~IngestorStep(SlowestActive)
  BY <1>3, OthersAddBlocks DEF Next
<1> QED
  BY <1>1, <1>2, <1>3

LEMMA PresentStays ==
  ASSUME TypeInv, HeadAncestorsPresent, [Next]_vars, NEW b \in Blocks, Present(b)
  PROVE  PresentIn(b, Bound', blocks')
<1> DEFINE later == Bound'
<1>1. Bound \in Nat /\ later \in Nat /\ Bound <= later /\ Number(b) \in Nat
  BY BoundType, BoundGrows, NumberType
<1> SUFFICES ASSUME NEW m \in later + 1 .. Number(b)
             PROVE  Ancestor(b, m) \in blocks'
  BY DEF PresentIn
<1> HIDE DEF later
<1>2. m \in Bound + 1 .. Number(b) /\ m \in 0 .. Number(b) /\ m > Bound
  BY <1>1
<1>3. Ancestor(b, m) \in blocks /\ Number(Ancestor(b, m)) = m
  BY <1>2, AncestorOf DEF Present, PresentIn
<1> QED
  BY <1>2, <1>3, KeepsYoung

LEMMA PresentBelow ==
  ASSUME TypeInv, NEW a \in Blocks, NEW b \in Blocks, OnChain(a, b), Present(b)
  PROVE  Present(a)
<1>1. Bound \in Nat /\ Number(a) \in 0 .. Number(b) /\ Number(b) \in Nat
  BY BoundType, NumberType DEF OnChain
<1> SUFFICES ASSUME NEW m \in Bound + 1 .. Number(a)
             PROVE  Ancestor(a, m) \in blocks
  BY DEF Present, PresentIn
<1>2. m \in 0 .. Number(a) /\ m \in Bound + 1 .. Number(b)
  BY <1>1
<1>3. Ancestor(a, m) = Ancestor(b, m)
  BY <1>1, <1>2, AncestorAncestor DEF OnChain
<1> QED
  BY <1>2, <1>3 DEF Present, PresentIn
-----------------------------------------------------------------------------
(* The events.                                                             *)
LEMMA BetweenHistories ==
  ASSUME NEW a \in Blocks, NEW b \in Blocks, NEW c \in Blocks,
         OnChain(a, b), OnChain(b, c), History(a) = History(c)
  PROVE  History(b) = History(a)
<1>1. History(a) \subseteq History(b) /\ History(b) \subseteq History(c)
  BY HistoryGrows
<1> QED
  BY <1>1

LEMMA ParentIsOnChain ==
  ASSUME NEW b \in Blocks
  PROVE  Parent(b) \in Blocks /\ OnChain(Parent(b), b)
  BY ParentType, ParentOf, ParentOfGenesis, OnChainSelf

LEMMA BringsThrough ==
  ASSUME NEW p \in Blocks, NEW b \in Blocks, NEW e \in TrueEvents,
         OnChain(p, b), History(b) = History(p), Follows(b, e), Brings(b, e)
  PROVE  Brings(p, e)
<1>1. CASE e.kind = "process"
  BY <1>1 DEF Brings
<1>2. CASE e.kind # "process"
  <2>1. e.block = Parent(b) /\ e.block \in Blocks /\ OnChain(e.block, b)
    BY <1>2, ParentIsOnChain DEF Follows
  <2>2. OnChain(p, e.block) => History(e.block) = History(p)
    BY <2>1, BetweenHistories
  <2> QED
    BY <1>2, <2>2 DEF Brings
<1> QED
  BY <1>1, <1>2

LEMMA RevertBrings ==
  ASSUME NEW b \in Blocks
  PROVE  Brings(b, Revert(Parent(b)))
<1>1. Revert(Parent(b)).kind = "revert" /\ Revert(Parent(b)).block = Parent(b)
  BY DEF Revert
<1>2. OnChain(b, Parent(b)) => History(Parent(b)) = History(b)
  BY ParentIsOnChain, OnChainSelf, BetweenHistories
<1> QED
  BY <1>1, <1>2 DEF Brings

(* The last index of a longer range, or one of the range before it.        *)
LEMMA LastOrBefore ==
  ASSUME NEW k \in Nat, NEW n \in 1 .. k + 1
  PROVE  n = k + 1 \/ n \in 1 .. k
  OBVIOUS

LEMMA SendBrings ==
  ASSUME BufferType, cur \in Blocks, ptr \in Blocks, EventsInv, EventsHistory,
         NEW e \in TrueEvents, Follows(cur, e), Brings(cur, e),
         buffer' = Append(buffer, e), cur' = e.block, ptr' = ptr
  PROVE  /\ EventsHistory'
         /\ \A n \in 1 .. Len(buffer') :
              buffer'[n] = e \/ (n \in 1 .. Len(buffer) /\ buffer'[n] = buffer[n])
<1>0. buffer \in Seq(TrueEvents) /\ Len(buffer) \in Nat
  BY LenProperties DEF BufferType
<1>1. /\ buffer' # <<>> /\ Len(buffer') = Len(buffer) + 1
      /\ \A n \in 1 .. Len(buffer) : buffer'[n] = buffer[n]
      /\ buffer'[Len(buffer) + 1] = e
  <2>1. /\ Append(buffer, e) # <<>> /\ Len(Append(buffer, e)) = Len(buffer) + 1
        /\ \A n \in 1 .. Len(buffer) : Append(buffer, e)[n] = buffer[n]
    <3>1. /\ Append(buffer, e) \in Seq(TrueEvents)
          /\ Len(Append(buffer, e)) = Len(buffer) + 1
          /\ \A n \in 1 .. Len(buffer) : Append(buffer, e)[n] = buffer[n]
      BY <1>0, AppendProperties
    <3>2. Len(Append(buffer, e)) # 0
      BY <1>0, <3>1
    <3> QED
      BY <3>1, <3>2, EmptySeq
  <2>2. Append(buffer, e)[Len(buffer) + 1] = e
    BY <1>0
  <2> QED
    BY <2>1, <2>2
<1>2. buffer # <<>> => Len(buffer) \in 1 .. Len(buffer) /\ 1 \in 1 .. Len(buffer)
  BY <1>0, <1>1, EmptySeq
<1>3. Brings(ptr, buffer'[1])
  <2>1. CASE buffer = <<>>
    <3>1. buffer'[1] = e
      BY <1>0, <1>1, <2>1, EmptySeq
    <3>2. OnChain(ptr, cur) /\ History(cur) = History(ptr)
      BY <2>1 DEF EventsInv, EventsHistory
    <3> QED
      BY <3>1, <3>2, BringsThrough, Zenon
  <2>2. CASE buffer # <<>>
    BY <1>0, <1>1, <1>2, <2>2 DEF EventsHistory
  <2> QED
    BY <2>1, <2>2
<1>4. ASSUME NEW n \in 2 .. Len(buffer')
      PROVE  Brings(buffer'[n - 1].block, buffer'[n])
  <2>1. CASE n <= Len(buffer)
    <3>1. n \in 2 .. Len(buffer) /\ n \in 1 .. Len(buffer) /\ n - 1 \in 1 .. Len(buffer)
      BY <1>0, <1>1, <2>1
    <3> QED
      BY <1>0, <1>1, <3>1 DEF EventsHistory
  <2>2. CASE n = Len(buffer) + 1
    <3>1. buffer # <<>> /\ n - 1 = Len(buffer)
      BY <1>0, <1>1, <1>4, <2>2, EmptySeq
    <3>2. buffer'[n - 1].block = cur
      BY <1>0, <1>1, <1>2, <3>1 DEF EventsInv
    <3> QED
      BY <1>0, <1>1, <2>2, <3>2
  <2> QED
    BY <1>0, <1>1, <2>1, <2>2
<1>5. EventsHistory'
  BY <1>1, <1>3, <1>4, Zenon DEF EventsHistory
<1>6. ASSUME NEW n \in 1 .. Len(buffer')
      PROVE  buffer'[n] = e \/ (n \in 1 .. Len(buffer) /\ buffer'[n] = buffer[n])
  <2>1. n \in 1 .. Len(buffer) + 1
    BY <1>1, Zenon
  <2>2. n = Len(buffer) + 1 \/ n \in 1 .. Len(buffer)
    BY <1>0, <2>1, LastOrBefore, Zenon
  <2> QED
    BY <1>1, <2>2, Zenon
<1> QED
  BY <1>5, <1>6

LEMMA NextBrings ==
  ASSUME BufferType, buffer # <<>>, EventsInv, EventsHistory, NextEvent,
         ptr' \in Blocks, OnChain(ptr', Event.block),
         History(Event.block) = History(ptr')
  PROVE  /\ EventsHistory'
         /\ \A n \in 1 .. Len(buffer') :
              n + 1 \in 1 .. Len(buffer) /\ buffer'[n] = buffer[n + 1]
<1>1. /\ buffer \in Seq(TrueEvents) /\ Len(buffer) \in Nat \ {0}
      /\ buffer' \in Seq(TrueEvents) /\ Len(buffer') = Len(buffer) - 1
      /\ Event = buffer[1]
      /\ \A n \in 1 .. Len(buffer') : buffer'[n] = buffer[n + 1]
  BY EmptySeq, HeadTailProperties DEF BufferType, NextEvent, Event
<1>2. Event.block \in Blocks /\ cur' = cur
  BY EventType DEF NextEvent
<1>3. CASE buffer' = <<>>
  <2>1. Len(buffer) = 1
    BY <1>1, <1>3, EmptySeq
  <2>2. cur' = Event.block
    BY <1>1, <1>2, <2>1 DEF EventsInv
  <2>3. Len(buffer') = 0
    BY <1>1, <2>1
  <2>4. EventsHistory'
    BY <1>3, <2>2, <2>3 DEF EventsHistory
  <2> QED
    BY <2>3, <2>4
<1>4. CASE buffer' # <<>>
  <2>1. 2 \in 2 .. Len(buffer) /\ 1 \in 1 .. Len(buffer')
    BY <1>1, <1>4, EmptySeq
  <2>2. buffer'[1] = buffer[2] /\ buffer'[1] \in TrueEvents
    BY <1>1, <2>1, ElementOfSeq
  <2>3. Follows(Event.block, buffer'[1]) /\ Brings(Event.block, buffer'[1])
    BY <1>1, <2>1, <2>2 DEF EventsInv, EventsHistory
  <2>4. Brings(ptr', buffer'[1])
    BY <1>2, <2>2, <2>3, BringsThrough
  <2>5. ASSUME NEW n \in 2 .. Len(buffer')
        PROVE  Brings(buffer'[n - 1].block, buffer'[n])
    <3>1. /\ n \in 1 .. Len(buffer') /\ n - 1 \in 1 .. Len(buffer')
          /\ n + 1 \in 2 .. Len(buffer)
      BY <1>1
    <3>2. buffer'[n] = buffer[n + 1] /\ buffer'[n - 1] = buffer[n]
      BY <1>1, <3>1
    <3>3. Brings(buffer[(n + 1) - 1].block, buffer[n + 1])
      BY <3>1 DEF EventsHistory
    <3> QED
      BY <3>2, <3>3
  <2>6. \A n \in 1 .. Len(buffer') : n + 1 \in 1 .. Len(buffer)
    BY <1>1
  <2> QED
    BY <1>1, <1>4, <2>4, <2>5, <2>6 DEF EventsHistory
<1> QED
  BY <1>3, <1>4
-----------------------------------------------------------------------------
(* The steps.  What the deployment has come across stays in the store.     *)
LEMMA BufferBlocks ==
  ASSUME BufferType, NEW n \in 1 .. Len(buffer)
  PROVE  buffer[n] \in TrueEvents /\ buffer[n].block \in Blocks
<1>1. buffer[n] \in TrueEvents
  BY ElementOfSeq DEF BufferType
<1> QED
  BY <1>1 DEF TrueEvents, Events

LEMMA PresentLater ==
  ASSUME TypeInv, HeadAncestorsPresent, PresentInv, [Next]_vars
  PROVE  /\ PresentIn(cur, Bound', blocks') /\ PresentIn(ptr, Bound', blocks')
         /\ PresentIn(db.ptr, Bound', blocks')
         /\ stage = "yield" =>
              \A f \in yielding : PresentIn(f.block, Bound', blocks')
         /\ \A n \in 1 .. Len(buffer) :
              PresentIn(buffer[n].block, Bound', blocks')
<1>1. /\ cur \in Blocks /\ ptr \in Blocks /\ db.ptr \in Blocks
      /\ \A f \in yielding : f.block \in Blocks
      /\ \A n \in 1 .. Len(buffer) : buffer[n].block \in Blocks
  BY BufferBlocks DEF TypeInv, StreamType, RunnerType, TrueFinds, Finds
<1> QED
  BY <1>1, PresentStays DEF PresentInv

LEMMA StoreHistory ==
  ASSUME TypeInv, HeadAncestorsPresent, HistoryInv, [Next]_vars,
         UNCHANGED <<streamVars, runnerVars>>, light' \subseteq light
  PROVE  HistoryInv'
<1>1. /\ UNCHANGED <<cur, stage, view, yielding, buffer>>
      /\ UNCHANGED <<ptr, applied, db, running, fatal>>
  BY DEF streamVars, runnerVars
<1>2. LightInv'
  <2>1. /\ Bound \in Nat /\ Bound' \in Nat /\ Bound <= Bound'
        /\ head # None => head' # None /\ Number(head) <= Number(head')
    BY BoundType, BoundGrows
  <2>2. \A b \in light : Number(b) \in Nat
    BY NumberType DEF TypeInv, StoreType
  <2>3. TypeInv'
    BY NextTypes
  <2>4. /\ head # None => Number(head) \in Nat
        /\ head' # None => Number(head') \in Nat
        /\ view # None => Number(view) \in Nat
    BY <2>3, NumberType DEF TypeInv, StoreType, StreamType
  <2>5. view' # None => head' # None /\ Number(view') <= Number(head')
    BY <1>1, <2>1, <2>4 DEF HistoryInv, LightInv
  <2>6. \A b \in light' : Number(b) <= Bound'
    <3> DEFINE later == Bound'
    <3>1. Bound \in Nat /\ later \in Nat /\ Bound <= later
      BY <2>1
    <3> HIDE DEF later
    <3>2. \A b \in light' : Number(b) <= later
      BY <2>2, <3>1 DEF HistoryInv, LightInv
    <3> QED
      BY <3>2 DEF later
  <2> QED
    BY <1>1, <2>5, <2>6 DEF HistoryInv, LightInv
<1>3. PresentInv'
  BY <1>1, PresentLater DEF HistoryInv, PresentInv, Present
<1>4. YieldHistory' /\ EventsHistory'
  BY <1>1 DEF HistoryInv, YieldHistory, EventsHistory
<1>5. AppliedInv'
  BY <1>1 DEF HistoryInv, AppliedInv, Holds, Failed
<1> QED
  BY <1>2, <1>3, <1>4, <1>5 DEF HistoryInv

(* A stream that steps back.                                               *)
LEMMA StepBackHistory ==
  ASSUME TypeInv, HeadAncestorsPresent, OrderInv, HistoryInv, [Next]_vars,
         StepBack, stage # "yield", UNCHANGED <<head, runnerVars>>
  PROVE  HistoryInv'
<1>1. UNCHANGED <<head, ptr, applied, db, running, fatal>> /\ Bound' = Bound
  BY DEF runnerVars, Bound
<1>2. /\ cur \in Blocks /\ ptr \in Blocks /\ BufferType
      /\ Parent(cur) \in Blocks /\ OnChain(Parent(cur), cur)
  BY ParentIsOnChain DEF TypeInv, StreamType, RunnerType
<1>3. AppliedInv'
  BY <1>1 DEF HistoryInv, AppliedInv, Holds, Failed
<1>4. stage' = "begin" /\ view' = view
  BY DEF StepBack
<1>5. CASE /\ UpsertLightBlocks({cur}) /\ cur' = Parent(cur)
           /\ buffer' = Append(buffer, Revert(Parent(cur)))
  <2>1. Revert(Parent(cur)) \in TrueEvents
        /\ Revert(Parent(cur)).block = Parent(cur)
        /\ Follows(cur, Revert(Parent(cur)))
    BY <1>2 DEF Revert, TrueEvents, Events, Follows
  <2>2. /\ EventsHistory'
        /\ \A n \in 1 .. Len(buffer') :
             \/ buffer'[n] = Revert(Parent(cur))
             \/ n \in 1 .. Len(buffer) /\ buffer'[n] = buffer[n]
    BY <1>1, <1>2, <1>5, <2>1, RevertBrings, SendBrings DEF OrderInv, HistoryInv
  <2>3. cur \notin blocks => Number(cur) <= Bound
    <3> SUFFICES ASSUME cur \notin blocks, Number(cur) > Bound PROVE FALSE
      BY <1>2, BoundType, NumberType
    <3>1. Number(cur) \in Bound + 1 .. Number(cur)
      BY <1>2, BoundType, NumberType
    <3>2. Ancestor(cur, Number(cur)) \in blocks
      BY <3>1 DEF HistoryInv, PresentInv, Present, PresentIn
    <3> QED
      BY <1>2, <3>2, AncestorSelf
  <2>4. LightInv'
    BY <1>1, <1>4, <1>5, <2>3 DEF UpsertLightBlocks, HistoryInv, LightInv
  <2>5. PresentIn(Parent(cur), Bound', blocks')
    <3>1. Present(Parent(cur))
      BY <1>2, PresentBelow DEF HistoryInv, PresentInv
    <3> QED
      BY <1>2, <3>1, PresentStays
  <2>6. PresentInv'
    BY <1>1, <1>4, <1>5, <2>1, <2>2, <2>5, PresentLater
       DEF HistoryInv, PresentInv, Present
  <2> QED
    BY <1>3, <1>4, <2>2, <2>4, <2>6 DEF HistoryInv, YieldHistory
<1>6. CASE UNCHANGED <<blocks, light, cur, view, yielding, buffer>>
  <2>1. LightInv'
    BY <1>1, <1>4, <1>6 DEF HistoryInv, LightInv
  <2>2. PresentInv'
    BY <1>1, <1>4, <1>6, PresentLater DEF HistoryInv, PresentInv, Present
  <2> QED
    BY <1>1, <1>3, <1>4, <1>6, <2>1, <2>2
       DEF HistoryInv, YieldHistory, EventsHistory
<1> QED
  BY <1>5, <1>6 DEF StepBack

LEMMA ReadHeadHistory ==
  ASSUME TypeInv, HeadAncestorsPresent, HistoryInv, [Next]_vars, ReadHead
  PROVE  HistoryInv'
<1>1. /\ UNCHANGED <<head, blocks, light, cur, yielding, buffer>>
      /\ UNCHANGED <<ptr, applied, db, running, fatal>> /\ Bound' = Bound
      /\ stage = "begin" /\ stage' # "yield"
  BY DEF ReadHead, storeVars, runnerVars, Bound
<1>2. LightInv'
  <2>1. CASE head # None /\ view' = head
             /\ stage' = IF Number(cur) < Final(head) THEN "far" ELSE "near"
    <3>1. head \in Blocks /\ Number(head) \in Nat /\ Final(head) \in Nat
          /\ Number(cur) \in Nat
      BY <2>1, FinalType, NumberType DEF TypeInv, StoreType, StreamType
    <3>2. Bound = AtLeast(Number(StartPtr), Final(head))
      BY <2>1 DEF Bound
    <3> QED
      BY <1>1, <2>1, <3>1, <3>2 DEF HistoryInv, LightInv
  <2>2. CASE stage' = "idle" /\ UNCHANGED view
    BY <1>1, <2>2 DEF HistoryInv, LightInv
  <2> QED
    BY <2>1, <2>2 DEF ReadHead
<1>3. PresentInv'
  BY <1>1, PresentLater DEF HistoryInv, PresentInv, Present
<1> QED
  BY <1>1, <1>2, <1>3 DEF HistoryInv, YieldHistory, EventsHistory, AppliedInv,
     Holds, Failed

(* A step of the stream that finds nothing to yield yet.                   *)
LEMMA LookHistory ==
  ASSUME TypeInv, HeadAncestorsPresent, HistoryInv, [Next]_vars,
         UNCHANGED <<head, blocks, light, cur, view, buffer, runnerVars>>,
         stage' \notin {"near", "yield"}
  PROVE  HistoryInv'
<1>1. UNCHANGED <<ptr, applied, db, running, fatal>> /\ Bound' = Bound
  BY DEF runnerVars, Bound
<1>2. LightInv'
  BY <1>1 DEF HistoryInv, LightInv
<1>3. PresentInv'
  BY <1>1, PresentLater DEF HistoryInv, PresentInv, Present
<1> QED
  BY <1>1, <1>2, <1>3 DEF HistoryInv, YieldHistory, EventsHistory, AppliedInv,
     Holds, Failed

(* A scan finds every trigger in its range, and stores what it loads       *)
(* beyond the threshold only.                                              *)
LEMMA ScanTriggersHistory ==
  ASSUME TypeInv, HeadAncestorsPresent, OrderInv, HistoryInv, [Next]_vars,
         ScanTriggers
  PROVE  HistoryInv'
<1>1. /\ cur \in Blocks /\ tip \in Blocks /\ view \in Blocks
      /\ stage = "logs" /\ stage' = "yield"
      /\ UNCHANGED <<head, tip, cur, view, buffer>>
      /\ UNCHANGED <<ptr, applied, db, running, fatal>> /\ Bound' = Bound
      /\ Canonical(cur)
  BY DEF ScanTriggers, TypeInv, StreamType, StoreType, runnerVars, Bound,
     OrderInv, FarInv
<1>2. PICK f \in yielding :
        \/ yielding' = {} /\ UNCHANGED <<blocks, light>>
        \/ /\ UpsertLightBlocks(Hits(f.block) \cup {f.block})
           /\ yielding' = {Found(b) : b \in Hits(f.block)}
                            \cup {[f EXCEPT !.hit = f.block \in Hits(f.block)]}
  BY DEF ScanTriggers
<1>3. /\ f \in Finds /\ f.block \in Blocks /\ Canonical(f.block)
      /\ Number(f.block) <= Final(view)
  BY <1>1 DEF OrderInv, FarInv, TypeInv, StreamType, TrueFinds, Finds
<1>4. Final(view) <= Bound /\ Final(view) \in Nat /\ Bound \in Nat
  <2>1. head # None /\ Number(view) <= Number(head) /\ head \in Blocks
    BY <1>1 DEF HistoryInv, LightInv, TypeInv, StoreType
  <2>2. Final(view) <= Final(head) /\ Final(view) \in Nat /\ Final(head) \in Nat
    BY <1>1, <2>1, FinalGrows, FinalType, NumberType
  <2> QED
    BY <2>1, <2>2, BoundType, NumberType DEF Bound, AtLeast
<1>5. CASE yielding' = {} /\ UNCHANGED <<blocks, light>>
  <2>1. LightInv'
    BY <1>1, <1>5 DEF HistoryInv, LightInv
  <2>2. PresentInv'
    BY <1>1, <1>5, PresentLater DEF HistoryInv, PresentInv, Present
  <2> QED
    BY <1>1, <1>5, <2>1, <2>2 DEF HistoryInv, YieldHistory, EventsHistory,
       AppliedInv, Holds, Failed
<1>6. CASE /\ UpsertLightBlocks(Hits(f.block) \cup {f.block})
           /\ yielding' = {Found(b) : b \in Hits(f.block)}
                            \cup {[f EXCEPT !.hit = f.block \in Hits(f.block)]}
  <2> DEFINE found == Hits(f.block) \cup {f.block}
  <2>1. \A b \in found : /\ b \in Blocks /\ Canonical(b)
                         /\ Number(b) <= Number(f.block) /\ Number(b) \in Nat
    BY <1>1, <1>3, NumberType DEF Hits
  <2>2. \A g \in yielding' : g.block \in found
    <3>1. [f EXCEPT !.hit = f.block \in Hits(f.block)].block = f.block
      BY <1>3, RangeEndType DEF Hits
    <3>2. \A b \in Hits(f.block) : Found(b).block = b
      BY <2>1, FoundType
    <3> QED
      BY <1>6, <3>1, <3>2
  <2>3. \A b \in found : Number(b) <= Bound
    BY <1>3, <1>4, <2>1, NumberType
  <2>4. LightInv'
    BY <1>1, <1>6, <2>3 DEF UpsertLightBlocks, HistoryInv, LightInv
  <2>5. PresentInv'
    <3>1. \A b \in found : PresentIn(b, Bound', blocks')
      BY <1>1, <1>4, <2>1, <2>3 DEF PresentIn
    <3> QED
      BY <1>1, <2>2, <3>1, PresentLater DEF HistoryInv, PresentInv, Present
  <2>6. YieldHistory'
    <3> SUFFICES ASSUME NEW g \in yielding', NEW c \in History(g.block),
                        c \notin History(cur)
                 PROVE  \E h \in yielding' : h.hit /\ h.block = c
      BY <1>1 DEF YieldHistory
    <3>1. /\ g.block \in Blocks /\ Canonical(g.block)
          /\ Number(g.block) <= Number(f.block) /\ Number(g.block) \in Nat
      BY <2>1, <2>2
    <3>2. /\ c \in Blocks /\ c \in Triggers /\ Number(c) <= Number(g.block)
          /\ OnChain(c, g.block) /\ Number(c) \in Nat
      BY <3>1, HistoryOfBlocks, NumberType DEF History
    <3>3. Canonical(c)
      BY <1>1, <3>1, <3>2, OnChainTransitive DEF Canonical
    <3>4. Number(cur) < Number(c)
      <4> SUFFICES ASSUME Number(c) <= Number(cur) PROVE FALSE
        BY <1>1, <3>2, NumberType
      <4>1. OnChain(c, cur)
        BY <1>1, <3>2, <3>3, OnChainTotal DEF Canonical
      <4> QED
        BY <3>2, <4>1 DEF History
    <3>5. c \in Hits(f.block)
      <4>1. Number(cur) \in Nat /\ Number(f.block) \in Nat
        BY <1>1, <1>3, NumberType
      <4>2. Number(c) <= Number(f.block)
        BY <3>1, <3>2, <4>1
      <4> QED
        BY <1>1, <3>2, <3>3, <3>4, <4>1, <4>2 DEF Hits
    <3>6. Found(c).block = c /\ Found(c).hit
      BY <3>2 DEF Found
    <3> QED
      BY <1>6, <3>5, <3>6
  <2> QED
    BY <1>1, <2>4, <2>5, <2>6 DEF HistoryInv, EventsHistory, AppliedInv, Holds, Failed
<1> QED
  BY <1>2, <1>5, <1>6

(* A step near the head: the block found was stored with its receipts.     *)
LEMMA AncestorBlockHistory ==
  ASSUME TypeInv, HeadAncestorsPresent, OrderInv, HistoryInv, [Next]_vars,
         AncestorBlock
  PROVE  HistoryInv'
<1>1. /\ view \in Blocks /\ cur \in Blocks /\ stage = "near"
      /\ UNCHANGED <<head, runnerVars>>
      /\ UNCHANGED <<ptr, applied, db, running, fatal>> /\ Bound' = Bound
  BY DEF AncestorBlock, TypeInv, StreamType, runnerVars, Bound
<1>2. CASE stage' = "begin" /\ UNCHANGED <<blocks, light, cur, view, buffer>>
  BY <1>1, <1>2, LookHistory
<1>3. CASE StepBack
  BY <1>1, <1>3, StepBackHistory
<1>4. ASSUME NEW n \in Reached, yielding' = {FoundInStore(Ancestor(view, n))},
             Ancestor(view, n - 1) = cur, stage' = "yield",
             UNCHANGED <<blocks, light, cur, view, buffer>>
      PROVE  HistoryInv'
  <2> DEFINE b == Ancestor(view, n)
  <2>1. /\ n \in 0 .. Number(view) /\ n - 1 \in 0 .. n /\ n - 1 \in 0 .. Number(view)
    BY <1>1, ReachedType, NumberType
  <2>2. /\ b \in Blocks /\ Number(b) = n /\ Number(cur) = n - 1
        /\ Ancestor(b, n - 1) = cur /\ n \in Nat
    BY <1>1, <1>4, <2>1, AncestorOf, AncestorAncestor
  <2>3. OnChain(cur, b)
    BY <2>1, <2>2 DEF OnChain
  <2>4. FoundInStore(b).block = b
    BY <2>2, FoundInStoreType, Zenon
  <2>5. b \in blocks
    BY <1>1, <2>1, <2>2 DEF Reached
  <2>6. b \in Triggers => FoundInStore(b).hit
    <3> SUFFICES ASSUME b \in Triggers, b \in light PROVE FALSE
      BY DEF FoundInStore
    <3>1. Number(b) > Number(StartPtr) /\ Number(b) > Final(view)
      BY <1>1, <2>2, StartAssumption, FinalType DEF HistoryInv, LightInv
    <3>2. Number(b) <= AtLeast(Number(StartPtr), Final(view))
      BY <1>1 DEF HistoryInv, LightInv
    <3>3. /\ Number(b) \in Nat /\ Number(StartPtr) \in Nat /\ Number(view) \in Nat
          /\ Final(view) \in 0 .. Number(view)
      BY <1>1, <2>2, NumberType, FinalType, StreamAssumption
    <3> QED
      BY <3>1, <3>2, <3>3 DEF AtLeast
  <2>7. LightInv'
    BY <1>1, <1>4 DEF HistoryInv, LightInv
  <2>8. PresentInv'
    <3>1. PresentIn(b, Bound', blocks')
      <4> SUFFICES ASSUME NEW m \in Bound + 1 .. n
                   PROVE  Ancestor(b, m) \in blocks
        BY <1>1, <1>4, <2>2 DEF PresentIn
      <4>1. CASE m = n
        BY <2>2, <2>5, <4>1, AncestorSelf
      <4>2. CASE m # n
        <5>1. m \in Bound + 1 .. Number(cur) /\ m \in 0 .. n - 1
          BY <2>2, <4>2, BoundType
        <5>2. Ancestor(cur, m) = Ancestor(b, m)
          <6> HIDE DEF b
          <6>1. n - 1 \in 0 .. Number(b)
            BY <2>1, <2>2
          <6>2. Ancestor(Ancestor(b, n - 1), m) = Ancestor(b, m)
            BY <2>2, <5>1, <6>1, AncestorAncestor, Zenon
          <6> QED
            BY <2>2, <6>2, Zenon
        <5>3. PresentIn(cur, Bound, blocks)
          BY DEF HistoryInv, PresentInv, Present
        <5>4. Ancestor(cur, m) \in blocks
          BY <5>1, <5>3, Zenon DEF PresentIn
        <5> HIDE DEF b
        <5> QED
          BY <5>2, <5>4, Zenon
      <4> QED
        BY <4>1, <4>2
    <3> QED
      BY <1>1, <1>4, <2>4, <3>1, PresentLater DEF HistoryInv, PresentInv, Present
  <2>9. YieldHistory'
    <3> SUFFICES ASSUME NEW c \in History(b), c \notin History(cur)
                 PROVE  FoundInStore(b).hit /\ c = b
      BY <1>4, <2>4 DEF YieldHistory
    <3>1. c \in Blocks /\ c \in Triggers /\ Number(c) <= n /\ OnChain(c, b)
      BY <2>2, HistoryOfBlocks DEF History
    <3>2. Number(c) > n - 1
      BY <1>1, <2>2, <2>3, <3>1, HistoryBelow, NumberType
    <3>3. c = b
      BY <2>2, <3>1, <3>2, OnChainSameNumber, NumberType
    <3> QED
      BY <2>6, <3>1, <3>3
  <2> QED
    BY <1>1, <1>4, <2>7, <2>8, <2>9
       DEF HistoryInv, EventsHistory, AppliedInv, Holds, Failed
<1> QED
  BY <1>1, <1>2, <1>3, <1>4 DEF AncestorBlock, AncestorFound

(* The lowest block found brings what lies between it and the stream's.    *)
LEMMA YieldBlockHistory ==
  ASSUME TypeInv, HeadAncestorsPresent, OrderInv, HistoryInv, [Next]_vars,
         YieldBlock
  PROVE  HistoryInv'
<1>1. /\ cur \in Blocks /\ ptr \in Blocks /\ stage = "yield" /\ BufferType
      /\ UNCHANGED <<head, blocks, light, view, runnerVars>>
      /\ UNCHANGED <<ptr, applied, db, running, fatal>> /\ Bound' = Bound
  BY DEF YieldBlock, TypeInv, StreamType, RunnerType, storeVars, runnerVars, Bound
<1>2. CASE stage' = "begin" /\ UNCHANGED <<cur, yielding, buffer>>
  BY <1>1, <1>2, LookHistory
<1>3. ASSUME NEW f \in yielding, yielding' = yielding \ {f}, cur' = f.block,
             \A g \in yielding : Number(f.block) <= Number(g.block),
             buffer' = Append(buffer, Process(f)), UNCHANGED stage
      PROVE  HistoryInv'
  <2>1. \A g \in yielding : /\ g.block \in Blocks
                            /\ g.hit => g.block \in Triggers
    BY DEF TypeInv, StreamType, TrueFinds, Finds
  <2>2. /\ f.block \in Blocks /\ Process(f) \in TrueEvents
        /\ Process(f).block = f.block /\ Process(f).kind = "process"
        /\ Process(f).hit = f.hit
    BY DEF TypeInv, StreamType, TrueFinds, Finds, Process, Events, TrueEvents
  <2>3. OnChain(cur, f.block) /\ cur # f.block /\ Follows(cur, Process(f))
    BY <1>1, <2>2 DEF Follows, OrderInv, YieldInv
  <2>4. \A g \in yielding : g.block = f.block => g = f
    BY <1>1 DEF OrderInv, YieldInv
  <2>5. History(f.block) = History(cur) \cup Effects(f)
    <3>1. ASSUME NEW c \in History(f.block), c \notin History(cur)
          PROVE  c \in Effects(f)
      <4>1. PICK g \in yielding : g.hit /\ g.block = c
        BY <1>1, <3>1 DEF HistoryInv, YieldHistory
      <4>2. c \in Blocks /\ OnChain(c, f.block) /\ Number(f.block) <= Number(c)
        BY <1>3, <2>1, <4>1 DEF History
      <4>3. c = f.block
        BY <2>2, <4>2, OnChainSameNumber
      <4> QED
        BY <2>4, <4>1, <4>3 DEF Effects
    <3>2. History(cur) \subseteq History(f.block)
      BY <1>1, <2>2, <2>3, HistoryGrows
    <3>3. Effects(f) \subseteq History(f.block)
      BY <2>1, HistoryOfTrigger DEF Effects
    <3> QED
      BY <3>1, <3>2, <3>3
  <2>6. Brings(cur, Process(f))
    BY <2>2, <2>5 DEF Brings, Effects
  <2>7. /\ EventsHistory'
        /\ \A n \in 1 .. Len(buffer') :
             \/ buffer'[n] = Process(f)
             \/ n \in 1 .. Len(buffer) /\ buffer'[n] = buffer[n]
    BY <1>1, <1>3, <2>2, <2>3, <2>6, SendBrings DEF OrderInv, HistoryInv
  <2>8. LightInv'
    BY <1>1, <1>3 DEF HistoryInv, LightInv
  <2>9. PresentInv'
    BY <1>1, <1>3, <2>2, <2>7, PresentLater DEF HistoryInv, PresentInv, Present
  <2>10. YieldHistory'
    <3> SUFFICES ASSUME NEW g \in yielding', NEW c \in History(g.block),
                        c \notin History(f.block)
                 PROVE  \E h \in yielding' : h.hit /\ h.block = c
      BY <1>3 DEF YieldHistory
    <3>1. c \notin History(cur)
      BY <2>5
    <3>2. PICK h \in yielding : h.hit /\ h.block = c
      BY <1>1, <1>3, <3>1 DEF HistoryInv, YieldHistory
    <3>3. h # f
      BY <2>1, <3>2, HistoryOfTrigger
    <3> QED
      BY <1>3, <3>2, <3>3
  <2> QED
    BY <1>1, <2>7, <2>8, <2>9, <2>10 DEF HistoryInv, AppliedInv, Holds, Failed
<1> QED
  BY <1>1, <1>2, <1>3 DEF YieldBlock

LEMMA StreamHistory ==
  ASSUME TypeInv, HeadAncestorsPresent, OrderInv, HistoryInv, [Next]_vars,
         StreamStep
  PROVE  HistoryInv'
<1>1. CASE HeadUpdate
  BY <1>1, LookHistory DEF HeadUpdate, storeVars
<1>2. CASE IsOnMainChain
  <2>1. CASE /\ Canonical(cur) /\ stage' = "scan"
             /\ UNCHANGED <<blocks, light, cur, view, yielding, buffer>>
    BY <1>2, <2>1, LookHistory DEF IsOnMainChain
  <2>2. CASE StepBack
    BY <1>2, <2>2, StepBackHistory DEF IsOnMainChain
  <2> QED
    BY <1>2, <2>1, <2>2 DEF IsOnMainChain
<1>3. CASE ResolveTo
  BY <1>3, LookHistory DEF ResolveTo, storeVars
<1> QED
  BY <1>1, <1>2, <1>3, ReadHeadHistory, ScanTriggersHistory,
     AncestorBlockHistory, YieldBlockHistory DEF StreamStep

(* The runner takes an event, or starts again from where it is.            *)
LEMMA NewStreamHistory ==
  ASSUME TypeInv, HeadAncestorsPresent, HistoryInv, [Next]_vars,
         NEW p \in Blocks, NewStream(p), ptr' = p,
         PresentIn(p, Bound', blocks'), PresentIn(db'.ptr, Bound', blocks'),
         UNCHANGED <<head, blocks, light>>
  PROVE  LightInv' /\ PresentInv' /\ YieldHistory' /\ EventsHistory'
<1>1. Len(<< >>) = 0 /\ Bound' = Bound
  BY EmptySeq DEF Bound
<1>2. /\ cur' = p /\ stage' = "begin" /\ view' = None /\ buffer' = << >>
  BY DEF NewStream
<1>3. LightInv'
  BY <1>1, <1>2 DEF HistoryInv, LightInv
<1>4. PresentInv'
  BY <1>1, <1>2 DEF PresentInv, Present
<1>5. YieldHistory' /\ EventsHistory'
  BY <1>1, <1>2 DEF YieldHistory, EventsHistory
<1> QED
  BY <1>3, <1>4, <1>5

LEMMA NextEventHistory ==
  ASSUME TypeInv, HeadAncestorsPresent, OrderInv, HistoryInv, [Next]_vars,
         buffer # <<>>, NextEvent, ptr' \in Blocks, OnChain(ptr', Event.block),
         History(Event.block) = History(ptr'),
         PresentIn(ptr', Bound', blocks'), UNCHANGED <<head, blocks, light, db>>
  PROVE  LightInv' /\ PresentInv' /\ YieldHistory' /\ EventsHistory'
<1>1. UNCHANGED <<cur, stage, view, yielding>> /\ Bound' = Bound
  BY DEF NextEvent, Bound
<1>2. /\ EventsHistory'
      /\ \A n \in 1 .. Len(buffer') :
           n + 1 \in 1 .. Len(buffer) /\ buffer'[n] = buffer[n + 1]
  BY NextBrings DEF TypeInv, OrderInv, HistoryInv
<1>3. LightInv'
  BY <1>1 DEF HistoryInv, LightInv
<1>4. PresentInv'
  BY <1>1, <1>2, PresentLater DEF HistoryInv, PresentInv, Present
<1>5. YieldHistory'
  BY <1>1 DEF HistoryInv, YieldHistory
<1> QED
  BY <1>2, <1>3, <1>4, <1>5

LEMMA FirstEvent ==
  ASSUME TypeInv, HeadAncestorsPresent, OrderInv, HistoryInv, [Next]_vars,
         buffer # <<>>
  PROVE  /\ Event \in TrueEvents /\ Event.block \in Blocks
         /\ Reaches(ptr, Event) /\ Brings(ptr, Event)
         /\ PresentIn(Event.block, Bound', blocks')
<1>1. Event = buffer[1] /\ 1 \in 1 .. Len(buffer)
  BY EmptySeq, LenProperties, HeadTailProperties DEF TypeInv, BufferType, Event
<1> QED
  BY <1>1, EventType, PresentLater
     DEF TypeInv, OrderInv, EventsInv, HistoryInv, EventsHistory

(* A block that is processed has its effects, a revert takes them back.    *)
LEMMA RunnerHistory ==
  ASSUME TypeInv, HeadAncestorsPresent, OrderInv, HistoryInv, [Next]_vars,
         RunnerStep
  PROVE  HistoryInv'
<1>1. /\ buffer # <<>> /\ running /\ UNCHANGED <<head, blocks, light, db>>
      /\ running' = running
  BY DEF RunnerStep, SkipPtrUpdate, ProcessBlock, PossibleReorg, HandleRevert,
     Handles, storeVars, runnerVars
<1>2. /\ Event \in TrueEvents /\ Event.block \in Blocks
      /\ Reaches(ptr, Event) /\ Brings(ptr, Event)
      /\ PresentIn(Event.block, Bound', blocks')
      /\ PresentIn(ptr, Bound', blocks') /\ PresentIn(db'.ptr, Bound', blocks')
      /\ ptr \in Blocks /\ OnChain(Event.block, Event.block)
  BY <1>1, FirstEvent, PresentLater, OnChainSelf DEF TypeInv, RunnerType, HistoryInv
<1>3. applied = History(ptr) /\ db.applied = History(db.ptr)
  BY <1>1 DEF HistoryInv, AppliedInv
<1> SUFFICES /\ ptr' \in {ptr, Event.block} /\ applied' = History(ptr')
             /\ \/ NewStream(ptr')
                \/ /\ NextEvent /\ OnChain(ptr', Event.block)
                   /\ History(Event.block) = History(ptr')
  <2>1. LightInv' /\ PresentInv' /\ YieldHistory' /\ EventsHistory'
    BY <1>1, <1>2, NewStreamHistory, NextEventHistory
  <2>2. AppliedInv'
    BY <1>1, <1>3 DEF AppliedInv, Holds
  <2> QED
    BY <2>1, <2>2 DEF HistoryInv
<1>4. CASE SkipPtrUpdate
  <2>1. /\ Event.kind = "process" /\ ~Event.hit /\ NextEvent
        /\ UNCHANGED <<ptr, applied>>
    BY <1>4 DEF SkipPtrUpdate, Handles, runnerVars
  <2>2. History(Event.block) = History(ptr) /\ OnChain(ptr, Event.block)
    BY <1>2, <2>1 DEF Brings, Effects, Reaches
  <2> QED
    BY <1>3, <2>1, <2>2
<1>5. CASE ProcessBlock
  <2>1. /\ Event.kind = "process"
        /\ NextEvent \/ NewStream(Event.block)
        /\ ptr' = Event.block /\ applied' = applied \cup Effects(Event)
    BY <1>5 DEF ProcessBlock, Handles
  <2>2. History(Event.block) = History(ptr) \cup Effects(Event)
    BY <1>2, <2>1 DEF Brings
  <2> QED
    BY <1>2, <1>3, <2>1, <2>2
<1>6. CASE PossibleReorg
  BY <1>3, <1>6 DEF PossibleReorg, runnerVars
<1>7. CASE HandleRevert
  <2>1. Event.kind = "revert"
    BY <1>7 DEF HandleRevert, Handles
  <2>2. OnChain(ptr, Event.block)
          \/ (Number(ptr) # 0 /\ Event.block = Parent(ptr))
    BY <1>2, <2>1 DEF Reaches
  <2>3. CASE /\ Number(Event.block) >= Number(ptr)
             /\ NextEvent /\ UNCHANGED <<ptr, applied>>
    <3>1. OnChain(ptr, Event.block)
      BY <1>2, <2>2, <2>3, ParentOf, NumberType
    <3>2. History(Event.block) = History(ptr)
      BY <2>1, <1>2, <3>1 DEF Brings
    <3> QED
      BY <1>3, <2>3, <3>1, <3>2
  <2>4. CASE /\ Number(Event.block) < Number(ptr)
             /\ ptr' = Event.block /\ applied' = RevertTo(Event.block, applied)
             /\ NextEvent \/ NewStream(Event.block)
    <3>1. OnChain(Event.block, ptr)
      <4>1. ~OnChain(ptr, Event.block)
        BY <1>2, <2>4, NumberType DEF OnChain
      <4> QED
        BY <1>2, <2>2, <4>1, ParentIsOnChain
    <3>2. applied' = History(ptr')
      BY <1>2, <1>3, <2>4, <3>1, HistoryReverted
    <3> QED
      BY <1>2, <2>4, <3>2
  <2> QED
    BY <1>7, <2>3, <2>4 DEF HandleRevert
<1> QED
  BY <1>4, <1>5, <1>6, <1>7 DEF RunnerStep

(* Failures and restarts: the runner goes back to what the database has.   *)
LEMMA CommitHistory ==
  ASSUME TypeInv, HeadAncestorsPresent, HistoryInv, [Next]_vars, Commit
  PROVE  HistoryInv'
<1>1. /\ UNCHANGED <<head, blocks, light, cur, stage, view, yielding, buffer>>
      /\ UNCHANGED <<ptr, applied, running, fatal>> /\ Bound' = Bound
      /\ db'.ptr = ptr /\ db'.applied = applied
  BY DEF Commit, storeVars, streamVars, Bound
<1>2. LightInv'
  BY <1>1 DEF HistoryInv, LightInv
<1>3. PresentInv'
  BY <1>1, PresentLater DEF HistoryInv, PresentInv, Present
<1>4. AppliedInv'
  BY <1>1 DEF HistoryInv, AppliedInv, Holds, Failed
<1> QED
  BY <1>1, <1>2, <1>3, <1>4 DEF HistoryInv, YieldHistory, EventsHistory

LEMMA RestartHistory ==
  ASSUME TypeInv, HeadAncestorsPresent, HistoryInv, [Next]_vars, Restart
  PROVE  HistoryInv'
<1>1. /\ db.ptr \in Blocks /\ Parent(db.ptr) \in Blocks
      /\ OnChain(Parent(db.ptr), db.ptr)
      /\ UNCHANGED <<head, blocks, light>> /\ running' = TRUE
      /\ db'.ptr = ptr' /\ db'.applied = applied' /\ NewStream(ptr')
  BY ParentIsOnChain DEF Restart, TypeInv, RunnerType, storeVars
<1>2. PresentIn(db.ptr, Bound', blocks')
  BY PresentLater DEF HistoryInv
<1>3. Holds(db.applied, db.ptr)
  BY DEF HistoryInv, AppliedInv
<1>4. /\ ptr' \in Blocks /\ applied' = History(ptr')
      /\ PresentIn(ptr', Bound', blocks')
  <2>1. CASE Unfails
    <3>1. ptr' = Parent(db.ptr) /\ applied' = RevertTo(Parent(db.ptr), db.applied)
      BY <2>1 DEF Restart
    <3>2. PresentIn(Parent(db.ptr), Bound', blocks')
      <4>1. Present(Parent(db.ptr))
        BY <1>1, PresentBelow DEF HistoryInv, PresentInv
      <4> QED
        BY <1>1, <4>1, PresentStays
    <3>3. RevertTo(Parent(db.ptr), db.applied) = History(Parent(db.ptr))
      <4>1. CASE db.applied = History(db.ptr)
        BY <1>1, <4>1, HistoryReverted
      <4>2. CASE db.applied = History(db.ptr) \ {db.ptr} /\ Number(db.ptr) # 0
        <5>1. Parent(db.ptr) # db.ptr
          BY <1>1, <4>2, ParentOf, NumberType
        <5> QED
          BY <1>1, <4>2, <5>1, HistoryReverted
      <4>3. CASE db.applied = History(db.ptr) \ {db.ptr} /\ Number(db.ptr) = 0
        <5>1. db.ptr \notin History(db.ptr)
          BY <1>1, <4>3, NumberType DEF History
        <5> QED
          BY <4>1, <4>3, <5>1
      <4> QED
        BY <1>3, <4>1, <4>2, <4>3 DEF Holds
    <3> QED
      BY <1>1, <3>1, <3>2, <3>3
  <2>2. CASE ~Unfails
    <3>1. ptr' = db.ptr /\ applied' = db.applied
      BY <2>2 DEF Restart
    <3>2. ~Failed(db.ptr)
      <4> SUFFICES ASSUME Failed(db.ptr) PROVE FALSE
        OBVIOUS
      <4>1. fatal = [block |-> db.ptr, deterministic |-> TRUE]
        BY DEF Failed, Error
      <4>2. fatal \in [block : Blocks, deterministic : BOOLEAN]
        BY <1>1, <4>1
      <4>3. fatal # None
        BY <4>2, NoneAssumption, Zenon
      <4>4. fatal.block = db.ptr /\ fatal.deterministic
        BY <4>1
      <4> QED
        BY <2>2, <4>3, <4>4, Zenon DEF Unfails
    <3> QED
      BY <1>1, <1>2, <1>3, <3>1, <3>2 DEF Holds
  <2> QED
    BY <2>1, <2>2
<1>5. LightInv' /\ PresentInv' /\ YieldHistory' /\ EventsHistory'
  BY <1>1, <1>4, NewStreamHistory
<1>6. AppliedInv'
  BY <1>1, <1>4 DEF AppliedInv, Holds
<1> QED
  BY <1>5, <1>6 DEF HistoryInv

LEMMA FaultHistory ==
  ASSUME TypeInv, HeadAncestorsPresent, OrderInv, HistoryInv, [Next]_vars,
         \/ RevertFails \/ DeterministicError
         \/ \E lost \in BOOLEAN : NonDeterministicError(lost)
  PROVE  HistoryInv'
<1>1. /\ buffer # <<>> /\ running /\ UNCHANGED <<head, blocks, light, db>>
      /\ NewStream(ptr') /\ ptr' \in {ptr, db.ptr, Event.block}
  BY DEF RevertFails, DeterministicError, NonDeterministicError, Handles, storeVars
<1>2. /\ Event.block \in Blocks /\ Reaches(ptr, Event) /\ Brings(ptr, Event)
      /\ PresentIn(Event.block, Bound', blocks')
      /\ PresentIn(ptr, Bound', blocks') /\ PresentIn(db.ptr, Bound', blocks')
      /\ ptr \in Blocks /\ db.ptr \in Blocks
  BY <1>1, FirstEvent, PresentLater DEF TypeInv, RunnerType, HistoryInv
<1>3. LightInv' /\ PresentInv' /\ YieldHistory' /\ EventsHistory'
  BY <1>1, <1>2, NewStreamHistory
<1>4. applied = History(ptr) /\ db.applied = History(db.ptr)
  BY <1>1 DEF HistoryInv, AppliedInv
<1>5. CASE DeterministicError
  <2>1. /\ Event.kind = "process" /\ Event.hit
        /\ Number(Event.block) > Number(ptr)
        /\ ptr' = Event.block /\ fatal' = Error(Event.block, TRUE)
        /\ running' = FALSE /\ applied' = applied
    BY <1>5 DEF DeterministicError, Handles
  <2>2. History(Event.block) = History(ptr) \cup {Event.block}
    BY <1>2, <2>1 DEF Brings, Effects
  <2>3. Event.block \notin History(ptr)
    BY <1>2, <2>1, HistoryOfBlocks, NumberType
  <2>4. applied' = History(ptr') \ {ptr'} /\ fatal' = Error(ptr', TRUE)
    BY <1>4, <2>1, <2>2, <2>3
  <2>5. AppliedInv'
    BY <1>1, <1>4, <2>1, <2>4 DEF AppliedInv, Holds, Failed
  <2> QED
    BY <1>3, <2>5 DEF HistoryInv
<1>6. CASE RevertFails \/ \E lost \in BOOLEAN : NonDeterministicError(lost)
  <2>1. applied' = History(ptr')
    BY <1>4, <1>6 DEF RevertFails, NonDeterministicError
  <2>2. AppliedInv'
    BY <1>1, <1>4, <2>1 DEF AppliedInv, Holds
  <2> QED
    BY <1>3, <2>2 DEF HistoryInv
<1> QED
  BY <1>5, <1>6

LEMMA HistoryStep ==
  ASSUME TypeInv, HeadAncestorsPresent, OrderInv, HistoryInv, [Next]_vars
  PROVE  HistoryInv'
<1>1. CASE UNCHANGED vars
  BY <1>1, StoreHistory DEF vars, storeVars
<1>2. CASE /\ NodeAdvance \/ PollFails \/ IngestorStep(SlowestActive)
           /\ UNCHANGED <<streamVars, runnerVars>>
  <2>1. light' \subseteq light
    BY <1>2 DEF NodeAdvance, PollFails, IngestorStep, Poll, IngestBlock,
       BlockUnavailable, AttemptChainHeadUpdate, CleanupCachedBlocks, storeVars
  <2> QED
    BY <1>2, <2>1, StoreHistory
<1> QED
  BY <1>1, <1>2, StreamHistory, RunnerHistory, FaultHistory, CommitHistory,
     RestartHistory DEF Next

(* For any chain and any sequence of reorganisations no deeper than the    *)
(* threshold, failures and restarts: a deployment, in memory and in the    *)
(* database, has the effects of the triggers up to its block and of no     *)
(* others, the block of a deterministic error excepted.                    *)
THEOREM HistoryApplied == Spec => []AppliedIsHistory
<1>1. Init => TypeInv /\ HeadAncestorsPresent /\ OrderInv /\ HistoryInv
  <2> SUFFICES ASSUME Init
               PROVE  TypeInv /\ HeadAncestorsPresent /\ OrderInv /\ HistoryInv
    OBVIOUS
  <2>1. Len(<< >>) = 0 /\ OnChain(StartPtr, StartPtr) /\ StartPtr \in Blocks
    BY EmptySeq, OnChainSelf
  <2>2. TypeInv /\ HeadAncestorsPresent /\ OrderInv
    BY <2>1, InitTypes DEF Init, ChainInit, HeadAncestorsPresent, OrderInv,
       FarInv, YieldInv, EventsInv
  <2>3. History(StartPtr) = {}
    BY <2>1, HistoryOfBlocks, NumberType DEF History
  <2>4. Present(StartPtr)
    BY <2>1, <2>2, BoundType, NumberType DEF Present, PresentIn
  <2> QED
    BY <2>1, <2>2, <2>3, <2>4 DEF Init, ChainInit, HistoryInv, LightInv,
       PresentInv, YieldHistory, EventsHistory, AppliedInv, Holds
<1>2. TypeInv /\ HeadAncestorsPresent /\ OrderInv /\ HistoryInv /\ [Next]_vars
        => (TypeInv /\ HeadAncestorsPresent /\ OrderInv /\ HistoryInv)'
  BY NextTypes, HeadStep, OrderStep, HistoryStep
<1>3. HistoryInv => AppliedIsHistory
  BY DEF HistoryInv, AppliedInv, Holds, AppliedIsHistory
<1> QED
  BY <1>1, <1>2, <1>3, PTL DEF Spec
-----------------------------------------------------------------------------
(***************************************************************************)
(* A stream near the head steps back only from abandoned blocks.           *)
(*                                                                         *)
(* When the stream reads the head, the blocks between its own and the head *)
(* are in the store.  They are cleaned away only once the head has moved   *)
(* on, and not below the block of an active deployment; as long as they    *)
(* are there, ancestor_block reaches the child of the stream's block.      *)
(***************************************************************************)
(* The walk is whole but for blocks the head has left far behind.          *)
WalkInv ==
  stage = "near" =>
    /\ head # None
    /\ \A n \in Number(cur) + 1 .. Number(view) :
         n < Number(head) - AncestorCount \/ Ancestor(view, n) \in blocks

LEMMA CleanupSpares ==
  ASSUME TypeInv, HeadAncestorsPresent, [Next]_vars,
         head # None, NEW b \in blocks,
         \/ Number(b) >= Number(head) - AncestorCount
         \/ fatal = None /\ Number(b) >= Number(db.ptr)
  PROVE  b \in blocks'
<1>1. CASE CleanupCachedBlocks(SlowestActive)
  <2>1. /\ b \in Blocks /\ Number(b) \in Nat
        /\ head \in Blocks /\ Number(head) \in Nat
        /\ db.ptr \in Blocks /\ Number(db.ptr) \in Nat
    BY NumberType DEF TypeInv, StoreType, RunnerType
  <2>2. SlowestActive = IF fatal = None THEN db.ptr ELSE None
    BY DEF SlowestActive
  <2>3. db.ptr # None
    BY <2>1
  <2>4. Number(b) >= RetainFrom(SlowestActive)
    <3>1. CASE fatal = None
      BY <2>1, <2>2, <2>3, <3>1 DEF RetainFrom, AtMost
    <3>2. CASE fatal # None
      BY <2>1, <2>2, <3>2 DEF RetainFrom
    <3> QED
      BY <3>1, <3>2
  <2> QED
    BY <1>1, <2>4 DEF CleanupCachedBlocks
<1>2. CASE IngestorStep(SlowestActive) /\ ~CleanupCachedBlocks(SlowestActive)
  BY <1>2 DEF IngestorStep, Poll, IngestBlock, BlockUnavailable, AttemptChainHeadUpdate
<1>3. CASE ~IngestorStep(SlowestActive)
  BY <1>3, OthersAddBlocks DEF Next
<1> QED
  BY <1>1, <1>2, <1>3

(* A walk begins with ReadHead, and its ends stay where they are.          *)
LEMMA NearStays ==
  ASSUME [Next]_vars, ~ReadHead, stage' = "near"
  PROVE  UNCHANGED <<cur, stage, view>>
<1>1. CASE running /\ StreamStep
  BY <1>1 DEF StreamStep, HeadUpdate, IsOnMainChain, ResolveTo, ScanTriggers,
     AncestorBlock, AncestorFound, YieldBlock, StepBack
<1>2. CASE \/ RunnerStep \/ RevertFails \/ DeterministicError \/ Commit \/ Restart
           \/ \E lost \in BOOLEAN : NonDeterministicError(lost)
  BY <1>2 DEF RunnerStep, SkipPtrUpdate, ProcessBlock, PossibleReorg, HandleRevert,
     RevertFails, DeterministicError, Commit, Restart, NonDeterministicError,
     NewStream, NextEvent, streamVars
<1> QED
  BY <1>1, <1>2 DEF Next, streamVars, vars

LEMMA ReadWhole ==
  ASSUME TypeInv, HeadAncestorsPresent, ReadHead, stage' = "near"
  PROVE  head' # None /\ WalkWhole'
<1>1. /\ head # None /\ view' = head /\ Number(cur) >= Final(head)
      /\ UNCHANGED <<cur, head, blocks>>
  BY NumberType, FinalType DEF ReadHead, storeVars, TypeInv, StreamType, StoreType
<1>2. head \in Blocks /\ Number(head) \in Nat /\ cur \in Blocks /\ Number(cur) \in Nat
  BY <1>1, NumberType DEF TypeInv, StreamType, StoreType
<1>3. Number(head) - AncestorCount <= Final(head)
  BY <1>2, RetentionAssumption DEF Final, Threshold, AtMost
<1>4. Final(head) \in Nat
  BY <1>2, FinalType
<1>5. ASSUME NEW n \in Number(cur) + 1 .. Number(head)
      PROVE  Ancestor(head, n) \in blocks
  <2>1. n \in Wanted(head) \cup {Number(head)}
    BY <1>1, <1>2, <1>3, <1>4 DEF Wanted, AtLeast
  <2> QED
    BY <1>1, <2>1 DEF HeadAncestorsPresent
<1> QED
  BY <1>1, <1>5 DEF WalkWhole

LEMMA WalkStep ==
  ASSUME TypeInv, HeadAncestorsPresent, WalkInv, [Next]_vars
  PROVE  WalkInv'
<1> SUFFICES ASSUME stage' = "near"
             PROVE  /\ head' # None
                    /\ \A n \in Number(cur') + 1 .. Number(view') :
                         \/ n < Number(head') - AncestorCount
                         \/ Ancestor(view', n) \in blocks'
  BY DEF WalkInv
<1>1. CASE ReadHead
  BY <1>1, ReadWhole DEF WalkWhole
<1>2. CASE ~ReadHead
  <2>1. UNCHANGED <<cur, stage, view>>
    BY <1>2, NearStays
  <2>2. /\ head \in Blocks /\ Number(head) \in Nat
        /\ cur \in Blocks /\ Number(cur) \in Nat
        /\ view \in Blocks /\ Number(view) \in Nat
    BY <2>1, NumberType DEF WalkInv, TypeInv, StoreType, StreamType
  <2>3. head # None /\ (head' # head => head' # None /\ Number(head') > Number(head))
    BY <2>2, HeadStep DEF HeadNumber
  <2>4. TypeInv'
    BY NextTypes
  <2>5. head' \in Blocks /\ Number(head') \in Nat /\ Number(head') >= Number(head)
    <3>1. head' \in Blocks
      BY <2>2, <2>3, <2>4 DEF TypeInv, StoreType
    <3>2. Number(head') \in Nat
      BY <3>1, NumberType
    <3> QED
      BY <2>2, <2>3, <3>1, <3>2
  <2>6. ASSUME NEW n \in Number(cur) + 1 .. Number(view),
               n >= Number(head') - AncestorCount
        PROVE  Ancestor(view, n) \in blocks'
    <3>1. n \in 0 .. Number(view) /\ n >= Number(head) - AncestorCount
      <4>1. AncestorCount \in Nat /\ n \in Int /\ Number(cur) + 1 <= n /\ n <= Number(view)
        BY <2>2, <2>6
      <4> QED
        BY <2>2, <2>5, <2>6, <4>1
    <3>2. Ancestor(view, n) \in blocks /\ Number(Ancestor(view, n)) = n
      BY <2>1, <2>2, <3>1, AncestorOf DEF WalkInv
    <3> QED
      BY <2>3, <3>1, <3>2, CleanupSpares
  <2> QED
    BY <2>1, <2>3, <2>5, <2>6
<1> QED
  BY <1>1, <1>2

LEMMA WalkAlways ==
  Spec => [](TypeInv /\ HeadAncestorsPresent /\ WalkInv)
<1>1. Init => TypeInv /\ HeadAncestorsPresent /\ WalkInv
  BY InitTypes DEF Init, ChainInit, HeadAncestorsPresent, WalkInv
<1>2. TypeInv /\ HeadAncestorsPresent /\ WalkInv /\ [Next]_vars
        => (TypeInv /\ HeadAncestorsPresent /\ WalkInv)'
  BY NextTypes, HeadStep, WalkStep
<1> QED
  BY <1>1, <1>2, PTL DEF Spec
-----------------------------------------------------------------------------
(* Only a stream that walks, or one that asks the node, steps back.        *)
LEMMA AppendNew ==
  ASSUME BufferType, NEW b
  PROVE  /\ Append(buffer, Revert(b)) # buffer
         /\ Append(buffer, Revert(b)) # <<>>
         /\ buffer # <<>> => Append(buffer, Revert(b)) # Tail(buffer)
         /\ \A f : Append(buffer, Revert(b)) # Append(buffer, Process(f))
<1>1. Len(buffer) \in Nat
  BY LenProperties DEF BufferType
<1>2. Len(Append(buffer, Revert(b))) = Len(buffer) + 1
  BY DEF BufferType
<1>3. buffer # <<>> => Len(Tail(buffer)) = Len(buffer) - 1
  BY HeadTailProperties DEF BufferType
<1>4. Append(buffer, Revert(b))[Len(buffer) + 1] = Revert(b)
  BY DEF BufferType
<1>5. \A f : Append(buffer, Process(f))[Len(buffer) + 1] = Process(f)
  BY DEF BufferType
<1>6. \A f : Process(f) # Revert(b)
  BY DEF Process, Revert
<1>7. Append(buffer, Revert(b)) # buffer /\ Append(buffer, Revert(b)) # <<>>
  <2>1. Len(<< >>) = 0
    BY EmptySeq
  <2>2. Len(buffer) + 1 # Len(buffer) /\ Len(buffer) + 1 # 0
    BY <1>1
  <2> QED
    BY <1>2, <2>1, <2>2, Zenon
<1>8. buffer # <<>> => Append(buffer, Revert(b)) # Tail(buffer)
  BY <1>1, <1>2, <1>3
<1>9. \A f : Append(buffer, Revert(b)) # Append(buffer, Process(f))
  BY <1>4, <1>5, <1>6, Zenon
<1> QED
  BY <1>7, <1>8, <1>9

LEMMA WhoStepsBack ==
  ASSUME BufferType, [Next]_vars, StepsBack
  PROVE  \/ stage = "far" /\ ~Canonical(cur)
         \/ /\ stage = "near"
            /\ \E n \in Reached : /\ \A m \in Reached : n <= m
                                  /\ Ancestor(view, n - 1) # cur
<1>1. /\ buffer' # buffer /\ buffer' # <<>>
      /\ buffer # <<>> => buffer' # Tail(buffer)
      /\ \A f : buffer' # Append(buffer, Process(f))
  BY AppendNew DEF StepsBack
<1>2. CASE IsOnMainChain
  BY <1>1, <1>2 DEF IsOnMainChain
<1>3. CASE AncestorBlock
  BY <1>1, <1>3 DEF AncestorBlock, AncestorFound
<1>4. CASE YieldBlock
  BY <1>1, <1>4 DEF YieldBlock
<1>5. CASE ReadHead \/ HeadUpdate \/ ResolveTo \/ ScanTriggers
  BY <1>1, <1>5 DEF ReadHead, HeadUpdate, ResolveTo, ScanTriggers
<1>6. CASE RunnerStep \/ RevertFails \/ DeterministicError
            \/ \E lost \in BOOLEAN : NonDeterministicError(lost)
  BY <1>1, <1>6 DEF RunnerStep, SkipPtrUpdate, ProcessBlock, PossibleReorg,
     HandleRevert, RevertFails, DeterministicError, NonDeterministicError,
     Handles, NewStream, NextEvent
<1>7. CASE Commit \/ Restart
  BY <1>1, <1>7 DEF Commit, Restart, NewStream, streamVars
<1> QED
  BY <1>1, <1>2, <1>3, <1>4, <1>5, <1>6, <1>7 DEF Next, StreamStep, streamVars, vars

(* For any chain: a stream whose block is on the chain it follows does not *)
(* step back from it, unless the head has moved on so far during the walk  *)
(* that blocks of the walk have been cleaned away.                         *)
THEOREM StepsBackFromAbandoned == Spec => StepsBackOffChainOnly
<1>1. TypeInv /\ WalkInv /\ [Next]_vars
        => [StepsBack /\ OnChain(cur, IF stage = "near" THEN view ELSE tip)
              => Number(head) - AncestorCount > Number(cur) + 1]_vars
  <2> SUFFICES ASSUME TypeInv, WalkInv, [Next]_vars, StepsBack,
                      OnChain(cur, IF stage = "near" THEN view ELSE tip)
               PROVE  Number(head) - AncestorCount > Number(cur) + 1
    OBVIOUS
  <2>1. PICK n \in Reached : /\ \A m \in Reached : n <= m
                             /\ Ancestor(view, n - 1) # cur
    BY WhoStepsBack DEF Canonical, TypeInv
  <2>2. stage = "near" /\ OnChain(cur, view)
    BY WhoStepsBack DEF Canonical, TypeInv
  <2>3. /\ head \in Blocks /\ Number(head) \in Nat
        /\ cur \in Blocks /\ Number(cur) \in Nat
        /\ view \in Blocks /\ Number(view) \in Nat
    BY <2>2, NumberType DEF WalkInv, TypeInv, StoreType, StreamType
  <2>4. n \in Number(cur) + 1 .. Number(view) /\ n # Number(cur) + 1
    <3>1. n \in Number(cur) + 1 .. Number(view) /\ Ancestor(view, Number(cur)) = cur
      BY <2>1, <2>2 DEF Reached, OnChain
    <3>2. n = Number(cur) + 1 => n - 1 = Number(cur)
      BY <2>3
    <3> QED
      BY <2>1, <3>1, <3>2
  <2>5. n - 1 \notin Reached /\ n - 1 \in Number(cur) + 1 .. Number(view)
    BY <2>1, <2>3, <2>4
  <2>6. Ancestor(view, n - 1) \notin blocks
    <3>1. \A m \in n .. Number(view) : Ancestor(view, m) \in blocks
      BY <2>1 DEF Reached
    <3>2. PICK m \in n - 1 .. Number(view) : Ancestor(view, m) \notin blocks
      BY <2>5 DEF Reached
    <3>3. m = n - 1
      <4>1. n \in Int /\ m \in Int /\ n - 1 <= m /\ m <= Number(view) /\ m \notin n .. Number(view)
        BY <2>3, <2>4, <3>1, <3>2
      <4> QED
        BY <2>3, <4>1
    <3> QED
      BY <3>2, <3>3
  <2>7. n - 1 < Number(head) - AncestorCount
    BY <2>2, <2>5, <2>6 DEF WalkInv
  <2> QED
    BY <2>3, <2>4, <2>7
<1> QED
  BY <1>1, WalkAlways, PTL DEF Spec, StepsBackOffChainOnly
-----------------------------------------------------------------------------
(* A deployment that has met no error is not failed.                       *)
SoundInv == errors = 0 => fatal = None

LEMMA SoundStep ==
  ASSUME TypeInv, SoundInv, [Next]_vars
  PROVE  SoundInv'
<1>1. CASE DeterministicError \/ \E lost \in BOOLEAN : NonDeterministicError(lost)
  <2>1. errors \in Nat /\ errors' = errors + 1
    BY <1>1 DEF DeterministicError, NonDeterministicError, TypeInv, FaultsType
  <2> QED
    BY <2>1 DEF SoundInv
<1>2. CASE ProcessBlock \/ Restart
  BY <1>2 DEF ProcessBlock, UnfailNonDeterministic, Restart, SoundInv
<1>3. CASE UNCHANGED <<errors, fatal>>
  BY <1>3 DEF SoundInv
<1>4. CASE running /\ StreamStep
  BY <1>3, <1>4 DEF StreamStep, ReadHead, HeadUpdate, IsOnMainChain, ResolveTo,
     ScanTriggers, AncestorBlock, AncestorFound, YieldBlock, runnerVars
<1>5. CASE SkipPtrUpdate \/ PossibleReorg \/ HandleRevert \/ RevertFails \/ Commit
  BY <1>3, <1>5 DEF SkipPtrUpdate, PossibleReorg, HandleRevert, RevertFails, Commit,
     runnerVars
<1> QED
  BY <1>1, <1>2, <1>3, <1>4, <1>5 DEF Next, RunnerStep, runnerVars, vars

(* For any chain: cleaning never breaks the walk of a deployment that has  *)
(* met no error and is not ahead of its stream, however far the head moves.*)
THEOREM WalkIsKept == Spec => WalkKept
<1>1. Init => TypeInv /\ SoundInv /\ HeadAncestorsPresent /\ WalkInv
  BY InitTypes DEF Init, ChainInit, SoundInv, HeadAncestorsPresent, WalkInv
<1>2. TypeInv /\ SoundInv /\ HeadAncestorsPresent /\ WalkInv /\ [Next]_vars
        => (TypeInv /\ SoundInv /\ HeadAncestorsPresent /\ WalkInv)'
  BY NextTypes, SoundStep, HeadStep, WalkStep
<1>3. TypeInv /\ SoundInv /\ HeadAncestorsPresent /\ WalkInv /\ [Next]_vars
        => [errors = 0 /\ Number(db.ptr) <= Number(cur)
              /\ (Walking \/ stage = "begin") /\ stage' = "near"
              => Walking']_vars
  <2> SUFFICES ASSUME TypeInv, SoundInv, HeadAncestorsPresent, WalkInv, [Next]_vars,
                      errors = 0, Number(db.ptr) <= Number(cur),
                      Walking \/ stage = "begin", stage' = "near"
               PROVE  Walking'
    OBVIOUS
  <2>1. CASE ReadHead
    BY <2>1, ReadWhole DEF Walking
  <2>2. CASE ~ReadHead
    <3>1. UNCHANGED <<cur, stage, view>> /\ stage = "near" /\ WalkWhole
      BY <2>2, NearStays DEF Walking
    <3>2. /\ head # None /\ cur \in Blocks /\ Number(cur) \in Nat
          /\ view \in Blocks /\ Number(view) \in Nat
          /\ db.ptr \in Blocks /\ Number(db.ptr) \in Nat
      BY <3>1, NumberType DEF WalkInv, TypeInv, StreamType, RunnerType
    <3>3. fatal = None
      BY DEF SoundInv
    <3>4. ASSUME NEW n \in Number(cur) + 1 .. Number(view)
          PROVE  Ancestor(view, n) \in blocks'
      <4>1. n \in 0 .. Number(view) /\ n >= Number(db.ptr)
        BY <3>2
      <4>2. Ancestor(view, n) \in blocks /\ Number(Ancestor(view, n)) = n
        BY <3>1, <3>2, <4>1, AncestorOf DEF WalkWhole
      <4> QED
        BY <3>2, <3>3, <4>1, <4>2, CleanupSpares
    <3> QED
      BY <3>1, <3>4 DEF Walking, WalkWhole
  <2> QED
    BY <2>1, <2>2
<1> QED
  BY <1>1, <1>2, <1>3, PTL DEF Spec, WalkKept
===============================================================================
