--------------------------- MODULE AgentPollerProofs ---------------------------
(***************************************************************************)
(* Proofs about AgentPoller and about Chat, which runs beside it, for any  *)
(* number of processes, calls, topics, messages and sessions.              *)
(***************************************************************************)
EXTENDS Chat, Extremes, FiniteSetTheorems, SequenceTheorems

-----------------------------------------------------------------------------
(* The inductive invariant, part by part.  Types.                          *)
Said    == [kind : {"prompt", "close", "other"}, by : {"user"}, re : {0}]
Greeted == [kind : {"own"}, by : Procs, re : {0}]
Answered == [kind : {"reply"}, by : Procs \X Nat, re : Nat]
Messages == Said \cup Greeted \cup Answered

ChainType ==
  /\ inbound \in Seq({"request", "own"})
  /\ log \in [Topics -> Seq(Messages)]
  /\ origin \in Seq([request : Nat \ {0}, by : Procs])
  /\ Len(origin) <= MaxTopics
  /\ announced \subseteq 1 .. Len(origin)
  /\ up \subseteq spawned /\ spawned \subseteq Procs

MemoryType ==
  /\ pc \in [Procs -> {"load", "refresh", "inbound", "create", "remember",
                       "welcome", "topics", "answer"}]
  /\ mgr \in [Procs -> SUBSET announced] /\ known \in [Procs -> SUBSET announced]
  /\ watch \in [Procs -> SUBSET Topics]
  /\ seen \in [Procs -> [Topics -> SUBSET Nat]]
  /\ inSeen \in [Procs -> SUBSET Nat]
  /\ job \in [Procs -> [todo : SUBSET Nat, cur : Nat, topic : Nat,
                        topics : SUBSET Topics]]
  /\ session \in [Procs -> [Topics -> 0 .. MaxSessions]]

(* What the loop of process p has at hand.                                 *)
Handling == {"create", "remember", "welcome"}
LoopInv(p) ==
  /\ p \notin up => pc[p] = "load"
  /\ inSeen[p] \subseteq 1 .. Len(inbound)
  /\ \A t \in Topics : /\ seen[p][t] \subseteq 1 .. Len(log[t])
                       /\ t \notin watch[p] => seen[p][t] = {}
  /\ job[p].topics \subseteq watch[p]
  /\ pc[p] \in Handling =>
       /\ job[p].cur \in inSeen[p]
       /\ job[p].todo \subseteq (1 .. Len(inbound)) \ inSeen[p]
  /\ pc[p] \in {"remember", "welcome"} =>
       job[p].topic \in announced /\ origin[job[p].topic].by = p
  /\ pc[p] = "answer" =>
       /\ job[p].topic \in job[p].topics
       /\ job[p].cur \in seen[p][job[p].topic]
       /\ log[job[p].topic][job[p].cur].kind = "prompt"
       /\ job[p].todo \subseteq (1 .. Len(log[job[p].topic])) \ seen[p][job[p].topic]

(* Requests: a process remembers what it took up, and while it handles a   *)
(* request it knows no topic for it, unless another process runs as well.  *)
RequestInv(p) ==
  /\ \A t \in 1 .. Len(origin) : origin[t].by = p =>
       p \in spawned /\ (p \in up => origin[t].request \in inSeen[p])
  /\ pc[p] = "create" =>
       /\ \A t \in mgr[p] : origin[t].request # job[p].cur
       /\ \A t \in 1 .. Len(origin) : origin[t].by = p => origin[t].request # job[p].cur
  /\ p \in up /\ pc[p] # "load" =>
       \A t \in announced : \/ t \in mgr[p] \/ t \in Closed
                            \/ origin[t].by = p \/ <<p, origin[t].by>> \in met
MetInv ==
  /\ \A p, q \in up : p # q => <<p, q>> \in met
  /\ \A p, q \in Procs : <<p, q>> \in met => <<q, p>> \in met

(* Answers: a process has what it answered in this session on its list of  *)
(* messages seen, save the one that it is about to answer.                 *)
WatchInv(p) ==
  /\ pc[p] \in {"remember", "welcome"} => session[p][job[p].topic] = 0
  /\ \A t \in Topics :
       /\ session[p][t] > 0 => t \in announced
       /\ t \in known[p] => session[p][t] > 0
       /\ t \in watch[p] => session[p][t] > 0 \/ pc[p] \in Handling
AnsweredBy(p) ==
  \A t \in Topics : \A n \in 1 .. Len(log[t]) : \A k \in Nat :
    /\ log[t][n].kind = "reply" /\ log[t][n].by = <<p, k>>
    => /\ k \in 1 .. session[p][t]
       /\ t \in watch[p] /\ k = session[p][t] =>
            /\ log[t][n].re \in seen[p][t]
            /\ ~(pc[p] = "answer" /\ job[p].topic = t /\ job[p].cur = log[t][n].re)
LogInv ==
  \A t \in Topics : \A n \in 1 .. Len(log[t]) :
    /\ log[t][n].kind = "prompt" => n <= MaxMessages
    /\ log[t][n].kind = "reply" =>
         /\ log[t][n].re \in 1 .. (n - 1) /\ log[t][log[t][n].re].kind = "prompt"
         /\ \A m \in 1 .. Len(log[t]) : log[t][m] = log[t][n] => m = n

(* The greeting of a topic comes from the process that made the topic.     *)
GreetInv ==
  /\ \A t \in Topics : \A n \in 1 .. Len(log[t]) :
       log[t][n].kind = "own" =>
         /\ t <= Len(origin) /\ origin[t].by = log[t][n].by
         /\ ~(pc[log[t][n].by] \in {"remember", "welcome"}
              /\ job[log[t][n].by].topic = t)
         /\ \A m \in 1 .. Len(log[t]) : log[t][m].kind = "own" => m = n

ProcInv(p) == LoopInv(p) /\ RequestInv(p) /\ WatchInv(p) /\ AnsweredBy(p)
PollerInv ==
  /\ ChainType /\ MemoryType /\ MetInv /\ LogInv /\ GreetInv /\ OneTopicPerRequest
  /\ \A p \in Procs : ProcInv(p)

(* The calls: what was settled when a call sent its prompt stays so.       *)
CallRecord == [pc : {"new", "send", "wait", "close", "closed"},
               topic : Nat, sent : Nat, settled : BOOLEAN]
SettledBefore(l, sent) ==
  /\ \E n \in 1 .. sent - 1 : l[n].kind = "own"
  /\ \A m \in 1 .. sent - 1 : l[m].kind = "prompt" =>
       \E n \in 1 .. sent - 1 : l[n].kind = "reply" /\ l[n].re = m
CallInv(c) ==
  /\ calls[c] \in CallRecord
  /\ calls[c].pc # "new" => calls[c].topic \in announced
  /\ calls[c].pc = "wait" => calls[c].sent <= Len(log[calls[c].topic])
  /\ calls[c].pc = "wait" /\ calls[c].settled =>
       SettledBefore(log[calls[c].topic], calls[c].sent)
SpawnInv ==
  /\ IsFiniteSet(spawned)
  /\ \A p \in Procs, t \in Topics : session[p][t] > 0 => p \in spawned
ChatInv ==
  /\ PollerInv /\ SpawnInv
  /\ connection \in {0} \cup announced
  /\ calls \in [Calls -> CallRecord]
  /\ \A c \in Calls : CallInv(c)
-----------------------------------------------------------------------------
(* What a step adds to the network: topics made by processes of `makers`   *)
(* and answers given by processes of `servers`.                            *)
InboundGrows ==
  /\ Len(inbound) <= Len(inbound')
  /\ \A n \in 1 .. Len(inbound) : inbound'[n] = inbound[n]
OriginGrows(makers) ==
  /\ Len(origin) <= Len(origin')
  /\ \A t \in 1 .. Len(origin) : origin'[t] = origin[t]
  /\ \A t \in Len(origin) + 1 .. Len(origin') : origin'[t].by \in makers
  /\ announced \subseteq announced'
  /\ announced' \ announced \subseteq Len(origin) + 1 .. Len(origin')
LogGrows(servers) ==
  \A t \in Topics :
    /\ Len(log[t]) <= Len(log'[t])
    /\ \A n \in 1 .. Len(log[t]) : log'[t][n] = log[t][n]
    /\ \A n \in Len(log[t]) + 1 .. Len(log'[t]) : log'[t][n].kind = "reply" =>
         log'[t][n].by[1] \in servers
Grows(makers, servers) ==
  InboundGrows /\ OriginGrows(makers) /\ LogGrows(servers)

(* A process whose memory a step leaves alone.                             *)
Same(q) ==
  /\ pc'[q] = pc[q] /\ mgr'[q] = mgr[q] /\ known'[q] = known[q]
  /\ watch'[q] = watch[q] /\ seen'[q] = seen[q] /\ inSeen'[q] = inSeen[q]
  /\ job'[q] = job[q] /\ session'[q] = session[q]

LEMMA InboundAppend ==
  ASSUME ChainType, NEW x \in {"request", "own"}, inbound' = Append(inbound, x)
  PROVE  inbound' \in Seq({"request", "own"}) /\ InboundGrows
<1>1. inbound \in Seq({"request", "own"})
  BY DEF ChainType
<1>2. /\ Append(inbound, x) \in Seq({"request", "own"})
      /\ Len(Append(inbound, x)) = Len(inbound) + 1
      /\ \A n \in 1 .. Len(inbound) : Append(inbound, x)[n] = inbound[n]
  BY <1>1, AppendProperties
<1>3. Len(inbound) \in Nat
  BY <1>1, LenProperties
<1> QED
  BY <1>2, <1>3 DEF InboundGrows

LEMMA InboundSame ==
  ASSUME ChainType, inbound' = inbound
  PROVE  InboundGrows
<1>1. Len(inbound) \in Nat
  BY LenProperties DEF ChainType
<1> QED
  BY <1>1 DEF InboundGrows

LEMMA OriginSame ==
  ASSUME ChainType, origin' = origin, announced' = announced, NEW makers
  PROVE  OriginGrows(makers)
<1>1. Len(origin) \in Nat
  BY LenProperties DEF ChainType
<1> QED
  BY <1>1 DEF OriginGrows

LEMMA LogSame ==
  ASSUME ChainType, log' = log, NEW servers
  PROVE  LogGrows(servers)
<1>1. \A t \in Topics : Len(log[t]) \in Nat
  BY LenProperties DEF ChainType
<1> QED
  BY <1>1 DEF LogGrows

LEMMA LogAppend ==
  ASSUME ChainType, NEW t \in Topics, NEW e \in Messages,
         log' = [log EXCEPT ![t] = Append(@, e)], NEW servers,
         e.kind = "reply" => e.by[1] \in servers
  PROVE  /\ log' \in [Topics -> Seq(Messages)] /\ LogGrows(servers)
         /\ Len(log'[t]) = Len(log[t]) + 1 /\ log'[t][Len(log[t]) + 1] = e
         /\ \A u \in Topics \ {t} : log'[u] = log[u]
<1>1. log \in [Topics -> Seq(Messages)]
  BY DEF ChainType
<1>2. log[t] \in Seq(Messages)
  BY <1>1
<1>3. /\ Append(log[t], e) \in Seq(Messages)
      /\ Len(Append(log[t], e)) = Len(log[t]) + 1
      /\ \A n \in 1 .. Len(log[t]) : Append(log[t], e)[n] = log[t][n]
      /\ Append(log[t], e)[Len(log[t]) + 1] = e
  BY <1>2, AppendProperties
<1>4. log'[t] = Append(log[t], e) /\ \A u \in Topics \ {t} : log'[u] = log[u]
  BY <1>1
<1>5. log' \in [Topics -> Seq(Messages)]
  BY <1>1, <1>3
<1>6. \A u \in Topics : Len(log[u]) \in Nat
  BY <1>1, LenProperties
<1>7. LogGrows(servers)
  <2> SUFFICES ASSUME NEW u \in Topics
               PROVE  /\ Len(log[u]) <= Len(log'[u])
                      /\ \A n \in 1 .. Len(log[u]) : log'[u][n] = log[u][n]
                      /\ \A n \in Len(log[u]) + 1 .. Len(log'[u]) :
                           log'[u][n].kind = "reply" => log'[u][n].by[1] \in servers
    BY DEF LogGrows
  <2>1. CASE u = t
    <3>1. \A n \in Len(log[t]) + 1 .. Len(log'[t]) : n = Len(log[t]) + 1
      BY <1>3, <1>4, <1>6
    <3>2. Len(log[t]) <= Len(log'[t])
      BY <1>3, <1>4, <1>6
    <3> QED
      BY <1>3, <1>4, <2>1, <3>1, <3>2, Zenon
  <2>2. CASE u # t
    <3>1. log'[u] = log[u]
      BY <1>4, <2>2
    <3> QED
      BY <1>6, <3>1
  <2> QED
    BY <2>1, <2>2
<1> QED
  BY <1>3, <1>4, <1>5, <1>7

LEMMA MakeGrows ==
  ASSUME ChainType, NEW p \in Procs, job[p].cur \in Nat \ {0}, MakeTopic(p)
  PROVE  /\ origin' \in Seq([request : Nat \ {0}, by : Procs])
         /\ Len(origin') = Len(origin) + 1 /\ Len(origin') <= MaxTopics
         /\ \A t \in 1 .. Len(origin) : origin'[t] = origin[t]
         /\ origin'[Len(origin) + 1] = [request |-> job[p].cur, by |-> p]
         /\ NewTopic = Len(origin) + 1 /\ NewTopic \in Topics
<1> DEFINE Records == [request : Nat \ {0}, by : Procs]
           made    == [request |-> job[p].cur, by |-> p]
<1>1. origin \in Seq(Records) /\ made \in Records /\ origin' = Append(origin, made)
  BY DEF ChainType, MakeTopic
<1>2. NewTopic = Len(origin) + 1 /\ NewTopic \in Topics
  BY DEF MakeTopic, NewTopic
<1>3. Len(origin) + 1 <= MaxTopics /\ Len(origin) \in Nat
  BY <1>1, <1>2, LenProperties, PollerAssumption DEF Topics
<1> HIDE DEF Records, made
<1>4. /\ Append(origin, made) \in Seq(Records)
      /\ Len(Append(origin, made)) = Len(origin) + 1
      /\ \A n \in 1 .. Len(origin) : Append(origin, made)[n] = origin[n]
      /\ Append(origin, made)[Len(origin) + 1] = made
  BY <1>1, AppendProperties
<1> QED
  BY <1>1, <1>2, <1>3, <1>4 DEF Records, made
-----------------------------------------------------------------------------
(* What the parts of the loop do to the memory of a process.               *)
Jobs == [todo : SUBSET Nat, cur : Nat, topic : Nat, topics : SUBSET Topics]
Pcs  == {"load", "refresh", "inbound", "create", "remember", "welcome", "topics",
         "answer"}
LoopType ==
  /\ pc \in [Procs -> Pcs] /\ watch \in [Procs -> SUBSET Topics]
  /\ seen \in [Procs -> [Topics -> SUBSET Nat]]
  /\ inSeen \in [Procs -> SUBSET Nat] /\ job \in [Procs -> Jobs]
LoopSame(q) ==
  /\ pc'[q] = pc[q] /\ watch'[q] = watch[q] /\ seen'[q] = seen[q]
  /\ inSeen'[q] = inSeen[q] /\ job'[q] = job[q]

LEMMA LoopTypes == MemoryType => LoopType
  BY DEF MemoryType, LoopType, Jobs, Pcs

LEMMA NoJobType == NoJob \in Jobs /\ NoJob.topics = {}
  BY DEF NoJob, Jobs

(* The pass over the topics begins ...                                     *)
PassBegins(p, todo, watching) ==
  /\ inSeen'[p] = inSeen[p] \cup todo
  /\ watch'[p] = watching \cap known[p]
  /\ \A t \in Topics : seen'[p][t] = IF t \in watch'[p] THEN seen[p][t] ELSE {}
  /\ job'[p].topics = watch'[p] /\ pc'[p] \in {"refresh", "topics"}
(* ... or a request is to be handled first.                                *)
RequestBegins(p, todo, watching) ==
  /\ pc'[p] = "create" /\ watch'[p] = watching /\ seen'[p] = seen[p]
  /\ job'[p].topics = {} /\ job'[p].cur \in todo /\ Unanswered(p, job'[p].cur)
  /\ inSeen'[p] = inSeen[p] \cup {n \in todo : n <= job'[p].cur}
  /\ job'[p].todo = {n \in todo : n > job'[p].cur}

LEMMA ResumeInboundDoes ==
  ASSUME LoopType, NEW p \in Procs, NEW todo \in SUBSET Nat,
         NEW watching \in SUBSET Topics, ResumeInbound(p, todo, watching)
  PROVE  /\ LoopType' /\ \A q \in Procs \ {p} : LoopSame(q)
         /\ PassBegins(p, todo, watching) \/ RequestBegins(p, todo, watching)
<1> DEFINE work == {n \in todo : Unanswered(p, n)}
           s    == CHOOSE n \in work : \A m \in work : n <= m
<1>1. CASE work = {}
  <2> DEFINE topics == watching \cap known[p]
  <2>1. /\ inSeen' = [inSeen EXCEPT ![p] = @ \cup todo]
        /\ watch' = [watch EXCEPT ![p] = topics]
        /\ seen' = [seen EXCEPT ![p] = [t \in Topics |->
                                         IF t \in topics THEN seen[p][t] ELSE {}]]
        /\ job' = [job EXCEPT ![p] = [NoJob EXCEPT !.topics = topics]]
        /\ pc' = [pc EXCEPT ![p] = IF topics = {} THEN "refresh" ELSE "topics"]
    BY <1>1 DEF ResumeInbound, BeginTopics, LoopType
  <2>2. topics \in SUBSET Topics /\ [NoJob EXCEPT !.topics = topics] \in Jobs
        /\ [NoJob EXCEPT !.topics = topics].topics = topics
    BY DEF NoJob, Jobs
  <2>3. [t \in Topics |-> IF t \in topics THEN seen[p][t] ELSE {}]
          \in [Topics -> SUBSET Nat]
    BY DEF LoopType
  <2>4. inSeen[p] \cup todo \in SUBSET Nat
        /\ (IF topics = {} THEN "refresh" ELSE "topics") \in Pcs
    BY DEF LoopType, Pcs
  <2> HIDE DEF topics
  <2>5. LoopType'
    BY <2>1, <2>2, <2>3, <2>4 DEF LoopType
  <2>6. \A q \in Procs \ {p} : LoopSame(q)
    BY <2>1 DEF LoopType, LoopSame
  <2>7. PassBegins(p, todo, watching)
    <3>1. watch'[p] = topics /\ job'[p].topics = topics
      BY <2>1, <2>2 DEF LoopType
    <3>2. topics = watching \cap known[p]
      BY DEF topics
    <3>3. pc'[p] \in {"refresh", "topics"} /\ inSeen'[p] = inSeen[p] \cup todo
      BY <2>1 DEF LoopType
    <3>4. seen'[p] = [t \in Topics |-> IF t \in topics THEN seen[p][t] ELSE {}]
      BY <2>1 DEF LoopType
    <3> QED
      BY <3>1, <3>2, <3>3, <3>4 DEF PassBegins
  <2> QED
    BY <2>5, <2>6, <2>7
<1>2. CASE work # {}
  <2>1. /\ inSeen' = [inSeen EXCEPT ![p] = @ \cup {n \in todo : n <= s}]
        /\ job' = [job EXCEPT ![p] =
                     [NoJob EXCEPT !.cur = s, !.todo = {n \in todo : n > s}]]
        /\ pc' = [pc EXCEPT ![p] = "create"]
        /\ watch' = [watch EXCEPT ![p] = watching]
        /\ seen' = seen
    BY <1>2 DEF ResumeInbound
  <2>2. work \in SUBSET Nat
    OBVIOUS
  <2>3. s \in work
    BY <1>2, <2>2, LeastChosen
  <2>4. s \in todo /\ s \in Nat /\ Unanswered(p, s)
    BY <2>3
  <2> HIDE DEF s, work
  <2> DEFINE next == [NoJob EXCEPT !.cur = s, !.todo = {n \in todo : n > s}]
  <2>5. /\ next \in Jobs /\ next.topics = {} /\ next.cur = s
        /\ next.todo = {n \in todo : n > s}
    BY <2>4 DEF NoJob, Jobs
  <2>6. job' = [job EXCEPT ![p] = next]
    BY <2>1
  <2> HIDE DEF next
  <2>7. LoopType'
    BY <2>1, <2>5, <2>6 DEF LoopType, Pcs
  <2>8. \A q \in Procs \ {p} : LoopSame(q)
    BY <2>1, <2>6 DEF LoopType, LoopSame
  <2>9. job'[p] = next
    BY <2>6 DEF LoopType
  <2>10. RequestBegins(p, todo, watching)
    BY <2>1, <2>4, <2>5, <2>9 DEF LoopType, RequestBegins
  <2> QED
    BY <2>7, <2>8, <2>10
<1> QED
  BY <1>1, <1>2

(* The pass is done with topic t, which may be dropped ...                 *)
TopicDone(p, t, more) ==
  /\ job'[p].topics = job[p].topics \ {t} /\ pc'[p] \in {"refresh", "topics"}
  /\ \A u \in Topics \ {t} : seen'[p][u] = seen[p][u]
  /\ \/ /\ watch'[p] = watch[p] /\ known'[p] = known[p]
        /\ seen'[p][t] = seen[p][t] \cup more
     \/ /\ watch'[p] = watch[p] \ {t} /\ known'[p] = known[p] \ {t}
        /\ seen'[p][t] = {}
(* ... or a prompt of it is to be answered first.                          *)
PromptBegins(p, t, todo) ==
  /\ pc'[p] = "answer" /\ watch'[p] = watch[p] /\ known'[p] = known[p]
  /\ job'[p].topics = job[p].topics /\ job'[p].topic = t /\ job'[p].cur \in todo
  /\ log[t][job'[p].cur].kind = "prompt"
  /\ \A u \in Topics \ {t} : seen'[p][u] = seen[p][u]
  /\ seen'[p][t] = seen[p][t] \cup {n \in todo : n <= job'[p].cur}
  /\ job'[p].todo = {n \in todo : n > job'[p].cur}

KnownType == known \in [Procs -> SUBSET announced]

LEMMA NextTopicDoes ==
  ASSUME LoopType, NEW p \in Procs, NEW t \in Topics, NextTopic(p, t)
  PROVE  /\ job' \in [Procs -> Jobs] /\ pc' \in [Procs -> Pcs]
         /\ job'[p].topics = job[p].topics \ {t} /\ pc'[p] \in {"refresh", "topics"}
         /\ \A q \in Procs \ {p} : job'[q] = job[q] /\ pc'[q] = pc[q]
<1> DEFINE rest == job[p].topics \ {t}
           next == [NoJob EXCEPT !.topics = rest]
<1>1. rest \in SUBSET Topics
  BY DEF LoopType, Jobs
<1>2. job' = [job EXCEPT ![p] = next]
      /\ pc' = [pc EXCEPT ![p] = IF rest = {} THEN "refresh" ELSE "topics"]
  BY DEF NextTopic
<1> HIDE DEF rest
<1>3. next \in Jobs /\ next.topics = rest
  BY <1>1 DEF NoJob, Jobs
<1> HIDE DEF next
<1> QED
  BY <1>2, <1>3 DEF LoopType, Pcs, rest

LEMMA SeenUpdate ==
  ASSUME LoopType, NEW p \in Procs, NEW t \in Topics, NEW v \in SUBSET Nat,
         seen' = [seen EXCEPT ![p][t] = v]
  PROVE  /\ seen' \in [Procs -> [Topics -> SUBSET Nat]] /\ seen'[p][t] = v
         /\ \A u \in Topics \ {t} : seen'[p][u] = seen[p][u]
         /\ \A q \in Procs \ {p} : seen'[q] = seen[q]
<1>1. seen[p] \in [Topics -> SUBSET Nat]
  BY DEF LoopType
<1> DEFINE row == [seen[p] EXCEPT ![t] = v]
<1>2. /\ row \in [Topics -> SUBSET Nat] /\ row[t] = v
      /\ \A u \in Topics \ {t} : row[u] = seen[p][u]
  BY <1>1
<1>3. seen' = [seen EXCEPT ![p] = row]
  OBVIOUS
<1> HIDE DEF row
<1> QED
  BY <1>2, <1>3 DEF LoopType

LEMMA DropDoes ==
  ASSUME LoopType, KnownType, NEW p \in Procs, NEW t \in Topics, Drop(p, t)
  PROVE  /\ watch' \in [Procs -> SUBSET Topics] /\ known' \in [Procs -> SUBSET announced]
         /\ seen' \in [Procs -> [Topics -> SUBSET Nat]]
         /\ watch'[p] = watch[p] \ {t} /\ known'[p] = known[p] \ {t}
         /\ seen'[p][t] = {} /\ \A u \in Topics \ {t} : seen'[p][u] = seen[p][u]
         /\ \A q \in Procs \ {p} : /\ watch'[q] = watch[q] /\ known'[q] = known[q]
                                   /\ seen'[q] = seen[q]
<1>1. {} \in SUBSET Nat /\ seen' = [seen EXCEPT ![p][t] = {}]
  BY DEF Drop
<1>2. /\ seen' \in [Procs -> [Topics -> SUBSET Nat]] /\ seen'[p][t] = {}
      /\ \A u \in Topics \ {t} : seen'[p][u] = seen[p][u]
      /\ \A q \in Procs \ {p} : seen'[q] = seen[q]
  BY <1>1, SeenUpdate
<1>3. /\ watch' = [watch EXCEPT ![p] = @ \ {t}]
      /\ known' = [known EXCEPT ![p] = @ \ {t}]
  BY DEF Drop
<1> QED
  BY <1>2, <1>3 DEF LoopType, KnownType

LEMMA ResumeTopicDoes ==
  ASSUME LoopType, KnownType, NEW p \in Procs, NEW t \in Topics,
         NEW todo \in SUBSET Nat, ResumeTopic(p, t, todo), inSeen' = inSeen
  PROVE  /\ LoopType' /\ known' \in [Procs -> SUBSET announced]
         /\ \A q \in Procs \ {p} : LoopSame(q) /\ known'[q] = known[q]
         /\ TopicDone(p, t, todo) \/ PromptBegins(p, t, todo)
<1> DEFINE work == {s \in todo : Acted(t, s)}
           s    == CHOOSE n \in work : \A m \in work : n <= m
<1>1. CASE /\ work = {} /\ seen' = [seen EXCEPT ![p][t] = @ \cup todo]
           /\ NextTopic(p, t) /\ UNCHANGED <<known, watch>>
  <2>1. seen[p][t] \cup todo \in SUBSET Nat
        /\ seen' = [seen EXCEPT ![p][t] = seen[p][t] \cup todo]
    BY <1>1 DEF LoopType
  <2>2. /\ seen' \in [Procs -> [Topics -> SUBSET Nat]]
        /\ seen'[p][t] = seen[p][t] \cup todo
        /\ \A u \in Topics \ {t} : seen'[p][u] = seen[p][u]
        /\ \A q \in Procs \ {p} : seen'[q] = seen[q]
    BY <2>1, SeenUpdate
  <2>3. /\ job' \in [Procs -> Jobs] /\ pc' \in [Procs -> Pcs]
        /\ job'[p].topics = job[p].topics \ {t} /\ pc'[p] \in {"refresh", "topics"}
        /\ \A q \in Procs \ {p} : job'[q] = job[q] /\ pc'[q] = pc[q]
    BY <1>1, NextTopicDoes
  <2> HIDE DEF work
  <2>4. TopicDone(p, t, todo)
    BY <1>1, <2>2, <2>3 DEF TopicDone
  <2> QED
    BY <1>1, <2>2, <2>3, <2>4 DEF LoopType, LoopSame, KnownType
<1>2. CASE Drop(p, t) /\ NextTopic(p, t)
  <2>1. /\ watch' \in [Procs -> SUBSET Topics] /\ known' \in [Procs -> SUBSET announced]
        /\ seen' \in [Procs -> [Topics -> SUBSET Nat]]
        /\ watch'[p] = watch[p] \ {t} /\ known'[p] = known[p] \ {t}
        /\ seen'[p][t] = {} /\ \A u \in Topics \ {t} : seen'[p][u] = seen[p][u]
        /\ \A q \in Procs \ {p} : /\ watch'[q] = watch[q] /\ known'[q] = known[q]
                                  /\ seen'[q] = seen[q]
    BY <1>2, DropDoes
  <2>2. /\ job' \in [Procs -> Jobs] /\ pc' \in [Procs -> Pcs]
        /\ job'[p].topics = job[p].topics \ {t} /\ pc'[p] \in {"refresh", "topics"}
        /\ \A q \in Procs \ {p} : job'[q] = job[q] /\ pc'[q] = pc[q]
    BY <1>2, NextTopicDoes
  <2>3. TopicDone(p, t, todo)
    BY <2>1, <2>2 DEF TopicDone
  <2> QED
    BY <2>1, <2>2, <2>3 DEF LoopType, LoopSame
<1>3. CASE /\ work # {} /\ log[t][s].kind = "prompt"
           /\ seen' = [seen EXCEPT ![p][t] = @ \cup {n \in todo : n <= s}]
           /\ job' = [job EXCEPT ![p].topic = t, ![p].cur = s,
                                 ![p].todo = {n \in todo : n > s}]
           /\ pc' = [pc EXCEPT ![p] = "answer"]
           /\ UNCHANGED <<known, watch>>
  <2>1. work \in SUBSET Nat
    OBVIOUS
  <2>2. s \in work
    BY <1>3, <2>1, LeastChosen
  <2>3. s \in todo /\ s \in Nat
    BY <2>2
  <2> HIDE DEF s, work
  <2>4. seen[p][t] \cup {n \in todo : n <= s} \in SUBSET Nat
        /\ seen' = [seen EXCEPT ![p][t] = seen[p][t] \cup {n \in todo : n <= s}]
    BY <1>3 DEF LoopType
  <2>5. /\ seen' \in [Procs -> [Topics -> SUBSET Nat]]
        /\ seen'[p][t] = seen[p][t] \cup {n \in todo : n <= s}
        /\ \A u \in Topics \ {t} : seen'[p][u] = seen[p][u]
        /\ \A q \in Procs \ {p} : seen'[q] = seen[q]
    BY <2>4, SeenUpdate, SMTT(30)
  <2> DEFINE next == [job[p] EXCEPT !.topic = t, !.cur = s,
                                    !.todo = {n \in todo : n > s}]
  <2>6. job' = [job EXCEPT ![p] = next]
    BY <1>3
  <2>7. job[p] \in Jobs /\ t \in Nat
    BY PollerAssumption DEF LoopType, Topics
  <2>8. /\ next \in Jobs /\ next.topics = job[p].topics /\ next.topic = t
        /\ next.cur = s /\ next.todo = {n \in todo : n > s}
    BY <2>3, <2>7 DEF Jobs
  <2> HIDE DEF next
  <2>9. job' \in [Procs -> Jobs] /\ job'[p] = next
        /\ \A q \in Procs \ {p} : job'[q] = job[q]
    BY <2>6, <2>8 DEF LoopType
  <2>10. pc' \in [Procs -> Pcs] /\ pc'[p] = "answer"
         /\ \A q \in Procs \ {p} : pc'[q] = pc[q]
    BY <1>3 DEF LoopType, Pcs
  <2>11. PromptBegins(p, t, todo)
    BY <1>3, <2>3, <2>5, <2>8, <2>9, <2>10 DEF PromptBegins
  <2> QED
    BY <1>3, <2>5, <2>9, <2>10, <2>11 DEF LoopType, LoopSame, KnownType
<1> QED
  BY <1>1, <1>2, <1>3 DEF ResumeTopic
-----------------------------------------------------------------------------
(* What a step of others leaves true of process q.                         *)
Lens ==
  /\ Len(inbound) \in Nat /\ Len(origin) \in Nat
  /\ \A t \in Topics : Len(log[t]) \in Nat /\ DOMAIN log[t] = 1 .. Len(log[t])

LEMMA ChainLens == ChainType => Lens
<1> SUFFICES ASSUME ChainType
             PROVE  Lens
  OBVIOUS
<1>1. Len(inbound) \in Nat /\ Len(origin) \in Nat
  BY LenProperties DEF ChainType
<1>2. \A t \in Topics : Len(log[t]) \in Nat /\ DOMAIN log[t] = 1 .. Len(log[t])
  BY LenProperties DEF ChainType
<1> QED
  BY <1>1, <1>2 DEF Lens

LEMMA Origins ==
  ASSUME ChainType, NEW t \in 1 .. Len(origin)
  PROVE  origin[t].by \in Procs /\ origin[t].request \in Nat \ {0}
<1> DEFINE Records == [request : Nat \ {0}, by : Procs]
<1>1. origin \in Seq(Records)
  BY DEF ChainType
<1> HIDE DEF Records
<1>2. origin[t] \in Records
  BY <1>1, ElementOfSeq
<1> QED
  BY <1>2 DEF Records

LEMMA AnnouncedTopics == ChainType => announced \subseteq Topics
<1> SUFFICES ASSUME ChainType
             PROVE  1 .. Len(origin) \subseteq Topics
  BY DEF ChainType
<1>1. Len(origin) \in Nat /\ Len(origin) <= MaxTopics
  BY ChainLens DEF Lens, ChainType
<1> QED
  BY <1>1, PollerAssumption DEF Topics

LEMMA NextLens == ChainType' => Lens'
  BY ChainLens, PTL

LEMMA ClosedGrows ==
  ASSUME Lens, Lens', NEW servers, LogGrows(servers)
  PROVE  Closed \subseteq Closed'
<1> SUFFICES ASSUME NEW t \in Topics, NEW n \in DOMAIN log[t],
                    log[t][n].kind = "close"
             PROVE  n \in DOMAIN log'[t] /\ log'[t][n].kind = "close"
  BY DEF Closed
<1>1. n \in 1 .. Len(log[t]) /\ Len(log[t]) \in Nat /\ Len(log'[t]) \in Nat
      /\ DOMAIN log'[t] = 1 .. Len(log'[t])
  BY DEF Lens
<1>2. log'[t][n] = log[t][n] /\ Len(log[t]) <= Len(log'[t])
  BY <1>1 DEF LogGrows
<1> QED
  BY <1>1, <1>2

(* What p has read and remembers stays in range when the network grows.    *)
LEMMA LoopKeeps ==
  ASSUME Lens, Lens', ChainType, LoopType, NEW q \in Procs, Same(q), LoopInv(q),
         NEW makers, NEW servers, Grows(makers, servers), q \in up' <=> q \in up
  PROVE  LoopInv(q)'
<1>1. q \notin up' => pc'[q] = "load"
  BY DEF LoopInv, Same
<1>2. /\ 1 .. Len(inbound) \subseteq 1 .. Len(inbound')
      /\ 1 .. Len(origin) \subseteq 1 .. Len(origin')
      /\ \A t \in Topics : 1 .. Len(log[t]) \subseteq 1 .. Len(log'[t])
  BY DEF Lens, Grows, InboundGrows, OriginGrows, LogGrows
<1>3. inSeen'[q] \subseteq 1 .. Len(inbound') /\ job'[q].topics \subseteq watch'[q]
  BY <1>2 DEF LoopInv, Same
<1>4. \A t \in Topics : /\ seen'[q][t] \subseteq 1 .. Len(log'[t])
                        /\ t \notin watch'[q] => seen'[q][t] = {}
  BY <1>2 DEF LoopInv, Same
<1>5. pc'[q] \in Handling =>
        /\ job'[q].cur \in inSeen'[q]
        /\ job'[q].todo \subseteq (1 .. Len(inbound')) \ inSeen'[q]
  BY <1>2 DEF LoopInv, Same
<1>6. ASSUME pc'[q] \in {"remember", "welcome"}
      PROVE  job'[q].topic \in announced' /\ origin'[job'[q].topic].by = q
  <2>1. job'[q].topic \in announced /\ origin[job'[q].topic].by = q
    BY <1>6 DEF LoopInv, Same
  <2>2. announced \subseteq 1 .. Len(origin) /\ announced \subseteq announced'
    BY DEF ChainType, Grows, OriginGrows
  <2> QED
    BY <2>1, <2>2 DEF Grows, OriginGrows
<1>7. ASSUME pc'[q] = "answer"
      PROVE  /\ job'[q].topic \in job'[q].topics
             /\ job'[q].cur \in seen'[q][job'[q].topic]
             /\ log'[job'[q].topic][job'[q].cur].kind = "prompt"
             /\ job'[q].todo \subseteq (1 .. Len(log'[job'[q].topic]))
                                       \ seen'[q][job'[q].topic]
  <2>1. /\ job[q].topic \in job[q].topics /\ job[q].cur \in seen[q][job[q].topic]
        /\ log[job[q].topic][job[q].cur].kind = "prompt"
        /\ job[q].todo \subseteq (1 .. Len(log[job[q].topic])) \ seen[q][job[q].topic]
    BY <1>7 DEF LoopInv, Same
  <2>2. job[q].topic \in Topics
    BY <2>1 DEF LoopType, Jobs
  <2>3. job[q].cur \in 1 .. Len(log[job[q].topic])
    BY <2>1, <2>2 DEF LoopInv
  <2>4. log'[job[q].topic][job[q].cur] = log[job[q].topic][job[q].cur]
    BY <2>2, <2>3 DEF Grows, LogGrows
  <2> QED
    BY <1>2, <2>1, <2>2, <2>4 DEF Same
<1> QED
  BY <1>1, <1>3, <1>4, <1>5, <1>6, <1>7 DEF LoopInv

LEMMA RequestKeeps ==
  ASSUME Lens, Lens', ChainType, MemoryType, NEW q \in Procs, Same(q), RequestInv(q),
         NEW makers, NEW servers, Grows(makers, servers), q \notin makers,
         spawned \subseteq spawned', met \subseteq met', q \in up' <=> q \in up,
         \A r \in makers : q \in up => <<q, r>> \in met'
  PROVE  RequestInv(q)'
<1>1. /\ \A t \in 1 .. Len(origin) : origin'[t] = origin[t]
      /\ \A t \in Len(origin) + 1 .. Len(origin') : origin'[t].by \in makers
      /\ announced' \ announced \subseteq Len(origin) + 1 .. Len(origin')
  BY DEF Grows, OriginGrows
<1>2. \A t \in 1 .. Len(origin') : \/ t \in 1 .. Len(origin)
                                   \/ t \in Len(origin) + 1 .. Len(origin')
  BY DEF Lens
<1>3. \A t \in 1 .. Len(origin') : origin'[t].by = q =>
        t \in 1 .. Len(origin) /\ origin[t].by = q /\ origin'[t] = origin[t]
  BY <1>1, <1>2
<1>4. ASSUME NEW t \in 1 .. Len(origin'), origin'[t].by = q
      PROVE  q \in spawned' /\ (q \in up' => origin'[t].request \in inSeen'[q])
  BY <1>3, <1>4 DEF RequestInv, Same
<1>5. mgr[q] \subseteq 1 .. Len(origin) /\ announced \subseteq 1 .. Len(origin)
  BY DEF ChainType, MemoryType
<1>6. ASSUME pc'[q] = "create"
      PROVE  /\ \A t \in mgr'[q] : origin'[t].request # job'[q].cur
             /\ \A t \in 1 .. Len(origin') : origin'[t].by = q =>
                  origin'[t].request # job'[q].cur
  BY <1>1, <1>3, <1>5, <1>6 DEF RequestInv, Same
<1>7. ASSUME q \in up', pc'[q] # "load", NEW t \in announced'
      PROVE  \/ t \in mgr'[q] \/ t \in Closed'
             \/ origin'[t].by = q \/ <<q, origin'[t].by>> \in met'
  <2>1. CASE t \in announced
    <3>1. \/ t \in mgr[q] \/ t \in Closed
          \/ origin[t].by = q \/ <<q, origin[t].by>> \in met
      BY <1>7, <2>1 DEF RequestInv, Same
    <3>2. Closed \subseteq Closed'
      BY ClosedGrows DEF Grows
    <3>3. origin'[t] = origin[t]
      BY <1>1, <1>5, <2>1
    <3> QED
      BY <3>1, <3>2, <3>3 DEF Same
  <2>2. CASE t \notin announced
    BY <1>1, <1>7, <2>2
  <2> QED
    BY <2>1, <2>2
<1> QED
  BY <1>4, <1>6, <1>7 DEF RequestInv

LEMMA WatchKeeps ==
  ASSUME LoopType, NEW q \in Procs, Same(q), WatchInv(q), announced \subseteq announced'
  PROVE  WatchInv(q)'
<1>1. pc'[q] \in {"remember", "welcome"} => session'[q][job'[q].topic] = 0
  BY DEF WatchInv, Same
<1>2. \A t \in Topics :
        /\ session'[q][t] > 0 => t \in announced'
        /\ t \in known'[q] => session'[q][t] > 0
        /\ t \in watch'[q] => session'[q][t] > 0 \/ pc'[q] \in Handling
  BY DEF WatchInv, Same
<1> QED
  BY <1>1, <1>2 DEF WatchInv

(* No answer of q's comes from others.                                     *)
LEMMA OldAnswers ==
  ASSUME Lens, Lens', NEW q \in Procs, NEW servers, LogGrows(servers),
         q \notin servers, NEW t \in Topics, NEW n \in 1 .. Len(log'[t]),
         NEW k \in Nat, log'[t][n].kind = "reply", log'[t][n].by = <<q, k>>
  PROVE  n \in 1 .. Len(log[t]) /\ log'[t][n] = log[t][n]
<1>1. n \in 1 .. Len(log[t]) \/ n \in Len(log[t]) + 1 .. Len(log'[t])
  BY DEF Lens
<1>2. CASE n \in Len(log[t]) + 1 .. Len(log'[t])
  <2>1. log'[t][n].by[1] \in servers
    BY <1>2 DEF LogGrows
  <2>2. log'[t][n].by[1] = q
    OBVIOUS
  <2> QED
    BY <2>1, <2>2
<1>3. CASE n \in 1 .. Len(log[t])
  BY <1>3 DEF LogGrows
<1> QED
  BY <1>1, <1>2, <1>3

LEMMA AnswersKeep ==
  ASSUME Lens, Lens', NEW q \in Procs, Same(q), AnsweredBy(q),
         NEW servers, LogGrows(servers), q \notin servers
  PROVE  AnsweredBy(q)'
<1> SUFFICES ASSUME NEW t \in Topics, NEW n \in 1 .. Len(log'[t]), NEW k \in Nat,
                    log'[t][n].kind = "reply", log'[t][n].by = <<q, k>>
             PROVE  /\ k \in 1 .. session'[q][t]
                    /\ t \in watch'[q] /\ k = session'[q][t] =>
                         /\ log'[t][n].re \in seen'[q][t]
                         /\ ~(/\ pc'[q] = "answer" /\ job'[q].topic = t
                              /\ job'[q].cur = log'[t][n].re)
  BY DEF AnsweredBy
<1>1. n \in 1 .. Len(log[t]) /\ log'[t][n] = log[t][n]
  BY OldAnswers
<1>2. log[t][n].kind = "reply" /\ log[t][n].by = <<q, k>>
  BY <1>1
<1>3. /\ k \in 1 .. session[q][t]
      /\ t \in watch[q] /\ k = session[q][t] =>
           /\ log[t][n].re \in seen[q][t]
           /\ ~(pc[q] = "answer" /\ job[q].topic = t /\ job[q].cur = log[t][n].re)
  BY <1>1, <1>2 DEF AnsweredBy
<1> QED
  BY <1>1, <1>3 DEF Same

LEMMA ProcKeeps ==
  ASSUME ChainType, ChainType', MemoryType, NEW q \in Procs, Same(q), ProcInv(q),
         NEW makers, NEW servers, Grows(makers, servers),
         q \notin makers, q \notin servers,
         spawned \subseteq spawned', met \subseteq met', q \in up' <=> q \in up,
         \A r \in makers : q \in up => <<q, r>> \in met'
  PROVE  ProcInv(q)'
<1>1. Lens /\ Lens' /\ LoopType
  BY ChainLens, NextLens, LoopTypes
<1>2. /\ LoopInv(q) /\ RequestInv(q) /\ WatchInv(q) /\ AnsweredBy(q)
      /\ LogGrows(servers) /\ announced \subseteq announced'
  BY DEF ProcInv, Grows, OriginGrows
<1>3. LoopInv(q)'
  BY <1>1, <1>2, LoopKeeps
<1>4. RequestInv(q)'
  BY <1>1, <1>2, RequestKeeps
<1>5. WatchInv(q)'
  BY <1>1, <1>2, WatchKeeps
<1>6. AnsweredBy(q)'
  BY <1>1, <1>2, AnswersKeep
<1> QED
  BY <1>3, <1>4, <1>5, <1>6 DEF ProcInv
-----------------------------------------------------------------------------
(* The process that goes on with the inbound messages todo.                *)
InboundResumes(p, todo, watching) ==
  /\ PassBegins(p, todo, watching) \/ RequestBegins(p, todo, watching)
  /\ todo \subseteq (1 .. Len(inbound)) \ inSeen[p]
  /\ watch[p] \subseteq watching /\ watching \subseteq Topics
  /\ \A t \in watching \ watch[p] : session[p][t] = 0
  /\ mgr' = mgr /\ known' = known /\ session' = session
  /\ p \in up /\ up' = up /\ spawned' = spawned /\ met' = met
  /\ Grows({p}, {})
  /\ \A t \in Len(origin) + 1 .. Len(origin') : origin'[t].request \in inSeen[p]

LEMMA LoopAfterInbound ==
  ASSUME Lens, Lens', LoopType, NEW p \in Procs, LoopInv(p),
         NEW todo \in SUBSET Nat, NEW watching, InboundResumes(p, todo, watching)
  PROVE  LoopInv(p)'
<1>1. /\ \A n \in 1 .. Len(inbound) : n \in 1 .. Len(inbound')
      /\ \A t \in Topics : 1 .. Len(log[t]) \subseteq 1 .. Len(log'[t])
  BY DEF Lens, InboundResumes, Grows, InboundGrows, LogGrows
<1>2. /\ inSeen[p] \subseteq 1 .. Len(inbound)
      /\ todo \subseteq (1 .. Len(inbound)) \ inSeen[p]
      /\ \A t \in Topics : /\ seen[p][t] \subseteq 1 .. Len(log[t])
                           /\ t \notin watch[p] => seen[p][t] = {}
      /\ p \in up' /\ watch[p] \subseteq watching
  BY DEF LoopInv, InboundResumes
<1>3. CASE PassBegins(p, todo, watching)
  <2>1. inSeen'[p] \subseteq 1 .. Len(inbound')
    BY <1>1, <1>2, <1>3 DEF PassBegins
  <2>2. \A t \in Topics : /\ seen'[p][t] \subseteq 1 .. Len(log'[t])
                          /\ t \notin watch'[p] => seen'[p][t] = {}
    BY <1>1, <1>2, <1>3 DEF PassBegins
  <2>3. job'[p].topics \subseteq watch'[p] /\ pc'[p] \in {"refresh", "topics"}
    BY <1>3 DEF PassBegins
  <2> QED
    BY <1>2, <2>1, <2>2, <2>3 DEF LoopInv, Handling
<1>4. CASE RequestBegins(p, todo, watching)
  <2>1. inSeen'[p] \subseteq 1 .. Len(inbound')
    BY <1>1, <1>2, <1>4 DEF RequestBegins
  <2>2. \A t \in Topics : /\ seen'[p][t] \subseteq 1 .. Len(log'[t])
                          /\ t \notin watch'[p] => seen'[p][t] = {}
    BY <1>1, <1>2, <1>4 DEF RequestBegins
  <2>3. job'[p].topics \subseteq watch'[p] /\ pc'[p] = "create"
    BY <1>4 DEF RequestBegins
  <2>4. job'[p].cur \in inSeen'[p]
    <3>1. job'[p].cur \in todo /\ inSeen'[p] = inSeen[p] \cup {n \in todo : n <= job'[p].cur}
      BY <1>4 DEF RequestBegins
    <3>2. job'[p].cur <= job'[p].cur
      BY <3>1
    <3> QED
      BY <3>1, <3>2, Zenon
  <2>5. ASSUME NEW n \in job'[p].todo
        PROVE  n \in 1 .. Len(inbound') /\ n \notin inSeen'[p]
    <3>1. n \in todo /\ n > job'[p].cur /\ job'[p].cur \in Nat
      BY <1>4, <2>5 DEF RequestBegins
    <3>2. n \in 1 .. Len(inbound) /\ n \notin inSeen[p] /\ n \in Nat
      BY <1>2, <3>1
    <3>3. ~(n <= job'[p].cur)
      BY <3>1, <3>2
    <3> QED
      BY <1>1, <1>4, <3>2, <3>3 DEF RequestBegins
  <2> QED
    BY <1>2, <2>1, <2>2, <2>3, <2>4, <2>5 DEF LoopInv
<1> QED
  BY <1>3, <1>4 DEF InboundResumes

LEMMA RequestAfterInbound ==
  ASSUME Lens, Lens', ChainType, MemoryType, NEW p \in Procs, pc[p] # "load",
         LoopInv(p), RequestInv(p),
         NEW todo \in SUBSET Nat, NEW watching, InboundResumes(p, todo, watching)
  PROVE  RequestInv(p)'
<1>1. /\ \A t \in 1 .. Len(origin) : origin'[t] = origin[t]
      /\ \A t \in Len(origin) + 1 .. Len(origin') :
           origin'[t].by = p /\ origin'[t].request \in inSeen[p]
      /\ announced' \ announced \subseteq Len(origin) + 1 .. Len(origin')
      /\ p \in up /\ p \in spawned' /\ mgr' = mgr /\ met' = met
      /\ todo \cap inSeen[p] = {}
  BY DEF InboundResumes, Grows, OriginGrows, ChainType
<1>2. inSeen[p] \subseteq inSeen'[p]
  BY DEF InboundResumes, PassBegins, RequestBegins
<1>3. \A t \in 1 .. Len(origin') : \/ t \in 1 .. Len(origin)
                                   \/ t \in Len(origin) + 1 .. Len(origin')
  BY DEF Lens
<1>4. \A t \in 1 .. Len(origin') : origin'[t].by = p => origin'[t].request \in inSeen[p]
  <2> SUFFICES ASSUME NEW t \in 1 .. Len(origin'), origin'[t].by = p
               PROVE  origin'[t].request \in inSeen[p]
    OBVIOUS
  <2>1. CASE t \in 1 .. Len(origin)
    BY <1>1, <2>1 DEF RequestInv
  <2> QED
    BY <1>1, <1>3, <2>1
<1>5. mgr[p] \subseteq 1 .. Len(origin) /\ announced \subseteq 1 .. Len(origin)
  BY DEF ChainType, MemoryType
<1>6. ASSUME pc'[p] = "create"
      PROVE  /\ \A t \in mgr'[p] : origin'[t].request # job'[p].cur
             /\ \A t \in 1 .. Len(origin') : origin'[t].by = p =>
                  origin'[t].request # job'[p].cur
  <2>1. RequestBegins(p, todo, watching)
    BY <1>6 DEF InboundResumes, PassBegins
  <2>2. job'[p].cur \in todo /\ \A t \in mgr[p] : origin[t].request # job'[p].cur
    BY <2>1 DEF RequestBegins, Unanswered
  <2> QED
    BY <1>1, <1>4, <1>5, <2>2
<1>7. ASSUME NEW t \in announced'
      PROVE  \/ t \in mgr'[p] \/ t \in Closed'
             \/ origin'[t].by = p \/ <<p, origin'[t].by>> \in met'
  <2>1. CASE t \in announced
    <3>1. \/ t \in mgr[p] \/ t \in Closed
          \/ origin[t].by = p \/ <<p, origin[t].by>> \in met
      BY <1>1, <2>1 DEF RequestInv
    <3>2. LogGrows({})
      BY DEF InboundResumes, Grows
    <3>3. Closed \subseteq Closed'
      BY <3>2, ClosedGrows
    <3>4. origin'[t] = origin[t]
      BY <1>1, <1>5, <2>1
    <3> QED
      BY <1>1, <3>1, <3>3, <3>4
  <2>2. CASE t \notin announced
    BY <1>1, <1>7, <2>2
  <2> QED
    BY <2>1, <2>2
<1> QED
  BY <1>1, <1>2, <1>4, <1>6, <1>7 DEF RequestInv

LEMMA WatchAfterInbound ==
  ASSUME LoopType, NEW p \in Procs, WatchInv(p),
         NEW todo \in SUBSET Nat, NEW watching, InboundResumes(p, todo, watching)
  PROVE  WatchInv(p)'
<1>1. /\ pc'[p] \in {"refresh", "topics"} /\ watch'[p] \subseteq known[p]
      \/ pc'[p] = "create"
  BY DEF InboundResumes, PassBegins, RequestBegins
<1>2. session' = session /\ known' = known /\ announced \subseteq announced'
  BY DEF InboundResumes, Grows, OriginGrows
<1>3. \A t \in Topics :
        /\ session[p][t] > 0 => t \in announced
        /\ t \in known[p] => session[p][t] > 0
  BY DEF WatchInv
<1>4. \A t \in Topics : t \in watch'[p] => session'[p][t] > 0 \/ pc'[p] \in Handling
  BY <1>1, <1>2, <1>3 DEF Handling
<1> QED
  BY <1>1, <1>2, <1>3, <1>4 DEF WatchInv

LEMMA AnswersAfterInbound ==
  ASSUME Lens, Lens', MemoryType, NEW p \in Procs, LoopInv(p), AnsweredBy(p),
         NEW todo \in SUBSET Nat, NEW watching, InboundResumes(p, todo, watching)
  PROVE  AnsweredBy(p)'
<1> SUFFICES ASSUME NEW t \in Topics, NEW n \in 1 .. Len(log'[t]), NEW k \in Nat,
                    log'[t][n].kind = "reply", log'[t][n].by = <<p, k>>
             PROVE  /\ k \in 1 .. session'[p][t] /\ pc'[p] # "answer"
                    /\ t \in watch'[p] /\ k = session'[p][t] =>
                         log'[t][n].re \in seen'[p][t]
  BY DEF AnsweredBy
<1>1. LogGrows({}) /\ session' = session /\ pc'[p] # "answer"
  BY DEF InboundResumes, Grows, PassBegins, RequestBegins
<1>2. n \in 1 .. Len(log[t]) /\ log'[t][n] = log[t][n]
  BY <1>1, OldAnswers
<1>3. log[t][n].kind = "reply" /\ log[t][n].by = <<p, k>>
  BY <1>2
<1>4. /\ k \in 1 .. session[p][t]
      /\ t \in watch[p] /\ k = session[p][t] => log[t][n].re \in seen[p][t]
  BY <1>2, <1>3 DEF AnsweredBy
<1>5. t \in watch'[p] => t \in watching /\ seen'[p][t] = seen[p][t]
  BY DEF InboundResumes, PassBegins, RequestBegins
<1>6. session[p][t] \in 0 .. MaxSessions
  BY DEF MemoryType
<1>7. session[p][t] # 0
  BY <1>4, <1>6
<1>8. t \in watching => t \in watch[p]
  BY <1>7 DEF InboundResumes
<1> QED
  BY <1>1, <1>2, <1>4, <1>5, <1>8

LEMMA ProcAfterInbound ==
  ASSUME ChainType, ChainType', MemoryType, NEW p \in Procs, pc[p] # "load",
         ProcInv(p), NEW todo \in SUBSET Nat, NEW watching,
         InboundResumes(p, todo, watching)
  PROVE  ProcInv(p)'
<1>1. Lens /\ Lens' /\ LoopType
  BY ChainLens, NextLens, LoopTypes
<1>2. LoopInv(p) /\ RequestInv(p) /\ WatchInv(p) /\ AnsweredBy(p)
  BY DEF ProcInv
<1>3. LoopInv(p)'
  BY <1>1, <1>2, LoopAfterInbound
<1>4. RequestInv(p)'
  BY <1>1, <1>2, RequestAfterInbound
<1>5. WatchInv(p)'
  BY <1>1, <1>2, WatchAfterInbound
<1>6. AnsweredBy(p)'
  BY <1>1, <1>2, AnswersAfterInbound
<1> QED
  BY <1>3, <1>4, <1>5, <1>6 DEF ProcInv
-----------------------------------------------------------------------------
(* The process that goes on with the messages todo of topic t.             *)
TopicResumes(p, t, todo) ==
  /\ TopicDone(p, t, todo) \/ PromptBegins(p, t, todo)
  /\ t \in job[p].topics /\ todo \subseteq (1 .. Len(log[t])) \ seen[p][t]
  /\ pc[p] \in {"topics", "answer"} /\ p \in up
  /\ inbound' = inbound /\ origin' = origin /\ announced' = announced
  /\ mgr' = mgr /\ inSeen' = inSeen /\ session' = session
  /\ up' = up /\ spawned' = spawned /\ met' = met
  /\ LogGrows({p})
  /\ \A u \in Topics : \A n \in Len(log[u]) + 1 .. Len(log'[u]) :
       /\ u = t /\ job[p].cur \in seen[p][t]
       /\ log'[u][n] = Post("reply", <<p, session[p][t]>>, job[p].cur)

LEMMA LoopAfterTopic ==
  ASSUME Lens, Lens', LoopType, NEW p \in Procs, LoopInv(p),
         NEW t \in Topics, NEW todo \in SUBSET Nat, TopicResumes(p, t, todo)
  PROVE  LoopInv(p)'
<1>1. /\ \A u \in Topics : 1 .. Len(log[u]) \subseteq 1 .. Len(log'[u])
      /\ \A u \in Topics : \A n \in 1 .. Len(log[u]) : log'[u][n] = log[u][n]
  BY DEF Lens, TopicResumes, LogGrows
<1>2. /\ p \in up' /\ inSeen'[p] \subseteq 1 .. Len(inbound')
      /\ t \in job[p].topics /\ todo \subseteq (1 .. Len(log[t])) \ seen[p][t]
      /\ job[p].topics \subseteq watch[p]
  BY DEF LoopInv, TopicResumes
<1>3. \A u \in Topics : /\ seen[p][u] \subseteq 1 .. Len(log[u])
                        /\ u \notin watch[p] => seen[p][u] = {}
  BY DEF LoopInv
<1>4. CASE TopicDone(p, t, todo)
  <2>1. job'[p].topics \subseteq watch'[p] /\ pc'[p] \in {"refresh", "topics"}
    BY <1>2, <1>4 DEF TopicDone
  <2>2. ASSUME NEW u \in Topics
        PROVE  /\ seen'[p][u] \subseteq 1 .. Len(log'[u])
               /\ u \notin watch'[p] => seen'[p][u] = {}
    <3>1. CASE u # t
      BY <1>1, <1>3, <1>4, <3>1 DEF TopicDone
    <3>2. CASE u = t
      BY <1>1, <1>2, <1>3, <1>4, <3>2 DEF TopicDone
    <3> QED
      BY <3>1, <3>2
  <2> QED
    BY <1>2, <2>1, <2>2 DEF LoopInv, Handling
<1>5. CASE PromptBegins(p, t, todo)
  <2>1. /\ job'[p].topics \subseteq watch'[p] /\ pc'[p] = "answer"
        /\ job'[p].topic = t /\ t \in job'[p].topics
        /\ job'[p].cur \in todo /\ watch'[p] = watch[p]
    BY <1>2, <1>5 DEF PromptBegins
  <2>2. job'[p].cur \in {n \in todo : n <= job'[p].cur}
    <3>1. job'[p].cur \in Nat
      BY <2>1
    <3>2. job'[p].cur <= job'[p].cur
      BY <3>1
    <3> QED
      BY <2>1, <3>2, Zenon
  <2>3. job'[p].cur \in seen'[p][t]
    BY <1>5, <2>2 DEF PromptBegins
  <2>4. log'[t][job'[p].cur].kind = "prompt"
    BY <1>1, <1>2, <1>5, <2>1 DEF PromptBegins
  <2>5. ASSUME NEW n \in job'[p].todo
        PROVE  n \in 1 .. Len(log'[t]) /\ n \notin seen'[p][t]
    <3>1. n \in todo /\ n > job'[p].cur /\ job'[p].cur \in Nat /\ n \in Nat
      BY <1>5, <2>1, <2>5 DEF PromptBegins
    <3>2. n \notin {m \in todo : m <= job'[p].cur}
      BY <3>1
    <3> QED
      BY <1>1, <1>2, <1>5, <3>1, <3>2 DEF PromptBegins
  <2>6. ASSUME NEW u \in Topics
        PROVE  /\ seen'[p][u] \subseteq 1 .. Len(log'[u])
               /\ u \notin watch'[p] => seen'[p][u] = {}
    <3>1. CASE u # t
      BY <1>1, <1>3, <1>5, <3>1 DEF PromptBegins
    <3>2. CASE u = t
      BY <1>1, <1>2, <1>3, <1>5, <3>2 DEF PromptBegins
    <3> QED
      BY <3>1, <3>2
  <2> HIDE DEF PromptBegins
  <2> QED
    BY <1>2, <2>1, <2>3, <2>4, <2>5, <2>6 DEF LoopInv, Handling
<1> QED
  BY <1>4, <1>5 DEF TopicResumes

LEMMA RequestAfterTopic ==
  ASSUME Lens, Lens', NEW p \in Procs, RequestInv(p),
         NEW t \in Topics, NEW todo \in SUBSET Nat, TopicResumes(p, t, todo)
  PROVE  RequestInv(p)'
<1>1. pc'[p] # "create" /\ pc[p] # "load"
  BY DEF TopicResumes, TopicDone, PromptBegins
<1>2. LogGrows({p})
  BY DEF TopicResumes
<1>3. Closed \subseteq Closed'
  BY <1>2, ClosedGrows
<1> QED
  BY <1>1, <1>3 DEF RequestInv, TopicResumes

LEMMA WatchAfterTopic ==
  ASSUME LoopType, NEW p \in Procs, WatchInv(p),
         NEW t \in Topics, NEW todo \in SUBSET Nat, TopicResumes(p, t, todo)
  PROVE  WatchInv(p)'
<1>1. /\ pc'[p] \notin {"remember", "welcome"} /\ pc[p] \notin Handling
      /\ watch'[p] \subseteq watch[p] /\ known'[p] \subseteq known[p]
  BY DEF TopicResumes, TopicDone, PromptBegins, Handling
<1>2. session' = session /\ announced' = announced
  BY DEF TopicResumes
<1> QED
  BY <1>1, <1>2 DEF WatchInv

LEMMA AnswersAfterTopic ==
  ASSUME Lens, Lens', MemoryType, NEW p \in Procs, LoopInv(p), WatchInv(p), AnsweredBy(p),
         NEW t \in Topics, NEW todo \in SUBSET Nat, TopicResumes(p, t, todo)
  PROVE  AnsweredBy(p)'
<1> SUFFICES ASSUME NEW u \in Topics, NEW n \in 1 .. Len(log'[u]), NEW k \in Nat,
                    log'[u][n].kind = "reply", log'[u][n].by = <<p, k>>
             PROVE  /\ k \in 1 .. session'[p][u]
                    /\ u \in watch'[p] /\ k = session'[p][u] =>
                         /\ log'[u][n].re \in seen'[p][u]
                         /\ ~(/\ pc'[p] = "answer" /\ job'[p].topic = u
                              /\ job'[p].cur = log'[u][n].re)
  BY DEF AnsweredBy
<1>1. session' = session
  BY DEF TopicResumes
<1>2. /\ k \in 1 .. session[p][u]
      /\ u \in watch[p] /\ k = session[p][u] => log'[u][n].re \in seen[p][u]
  <2>1. CASE n \in 1 .. Len(log[u])
    <3>1. log'[u][n] = log[u][n]
      BY <2>1 DEF TopicResumes, LogGrows
    <3> QED
      BY <2>1, <3>1 DEF AnsweredBy
  <2>2. CASE n \notin 1 .. Len(log[u])
    <3>1. n \in Len(log[u]) + 1 .. Len(log'[u])
      BY <2>2 DEF Lens
    <3>2. /\ u = t /\ job[p].cur \in seen[p][t]
          /\ log'[u][n] = Post("reply", <<p, session[p][t]>>, job[p].cur)
      BY <3>1 DEF TopicResumes
    <3>3. k = session[p][t] /\ log'[u][n].re = job[p].cur
      BY <3>2 DEF Post
    <3>4. t \in watch[p] /\ pc[p] \notin Handling
      BY DEF TopicResumes, LoopInv, Handling
    <3>5. session[p][t] > 0 /\ session[p][t] \in Nat
      BY <3>4 DEF WatchInv, MemoryType
    <3> QED
      BY <3>2, <3>3, <3>5
  <2> QED
    BY <2>1, <2>2
<1>3. watch'[p] \subseteq watch[p]
  BY DEF TopicResumes, TopicDone, PromptBegins
<1>4. SUFFICES ASSUME u \in watch'[p], log'[u][n].re \in seen[p][u]
               PROVE  /\ log'[u][n].re \in seen'[p][u]
                      /\ ~(/\ pc'[p] = "answer" /\ job'[p].topic = u
                           /\ job'[p].cur = log'[u][n].re)
  BY <1>1, <1>2, <1>3
<1>5. CASE TopicDone(p, t, todo)
  <2>1. pc'[p] # "answer"
    BY <1>5 DEF TopicDone
  <2>2. log'[u][n].re \in seen'[p][u]
    BY <1>4, <1>5 DEF TopicDone
  <2> QED
    BY <2>1, <2>2
<1>6. CASE PromptBegins(p, t, todo)
  <2>1. log'[u][n].re \in seen'[p][u]
    BY <1>4, <1>6 DEF PromptBegins
  <2>2. job'[p].topic = t /\ job'[p].cur \notin seen[p][t]
    BY <1>6 DEF PromptBegins, TopicResumes
  <2> QED
    BY <1>4, <2>1, <2>2
<1> QED
  BY <1>5, <1>6 DEF TopicResumes

LEMMA ProcAfterTopic ==
  ASSUME ChainType, ChainType', MemoryType, NEW p \in Procs, ProcInv(p),
         NEW t \in Topics, NEW todo \in SUBSET Nat, TopicResumes(p, t, todo)
  PROVE  ProcInv(p)'
<1>1. Lens /\ Lens' /\ LoopType
  BY ChainLens, NextLens, LoopTypes
<1>2. LoopInv(p) /\ RequestInv(p) /\ WatchInv(p) /\ AnsweredBy(p)
  BY DEF ProcInv
<1>3. LoopInv(p)'
  BY <1>1, <1>2, LoopAfterTopic
<1>4. RequestInv(p)'
  BY <1>1, <1>2, RequestAfterTopic
<1>5. WatchInv(p)'
  BY <1>1, <1>2, WatchAfterTopic
<1>6. AnsweredBy(p)'
  BY <1>1, <1>2, AnswersAfterTopic
<1> QED
  BY <1>3, <1>4, <1>5, <1>6 DEF ProcInv
-----------------------------------------------------------------------------
(* The parts of the invariant that are about the topics.                   *)
LEMMA MemoryKeeps ==
  ASSUME MemoryType, LoopType', announced \subseteq announced',
         mgr' \in [Procs -> SUBSET announced'], known' \in [Procs -> SUBSET announced'],
         session' \in [Procs -> [Topics -> 0 .. MaxSessions]]
  PROVE  MemoryType'
  BY DEF MemoryType, LoopType, Pcs, Jobs

LEMMA LogKeeps ==
  ASSUME LogInv, log' = log
  PROVE  LogInv'
  BY DEF LogInv

LEMMA LogAppends ==
  ASSUME ChainType, LogInv, NEW t \in Topics, NEW e \in Messages,
         log' = [log EXCEPT ![t] = Append(@, e)],
         e.kind = "prompt" => Len(log[t]) < MaxMessages,
         e.kind = "reply" => /\ e.re \in 1 .. Len(log[t]) /\ log[t][e.re].kind = "prompt"
                             /\ \A m \in 1 .. Len(log[t]) : log[t][m] # e
  PROVE  LogInv'
<1> DEFINE N == Len(log[t])
           Good(l, n) ==
             /\ l[n].kind = "prompt" => n <= MaxMessages
             /\ l[n].kind = "reply" =>
                  /\ l[n].re \in 1 .. (n - 1) /\ l[l[n].re].kind = "prompt"
                  /\ \A m \in 1 .. Len(l) : l[m] = l[n] => m = n
<1>1. /\ Len(log'[t]) = N + 1 /\ log'[t][N + 1] = e
      /\ \A u \in Topics \ {t} : log'[u] = log[u]
      /\ \A n \in 1 .. N : log'[t][n] = log[t][n]
  <2>1. LogGrows(Procs)
    BY LogAppend DEF Messages, Said, Greeted, Answered
  <2>2. /\ Len(log'[t]) = N + 1 /\ log'[t][N + 1] = e
        /\ \A u \in Topics \ {t} : log'[u] = log[u]
    BY LogAppend DEF Messages, Said, Greeted, Answered
  <2> QED
    BY <2>1, <2>2 DEF LogGrows
<1>2. N \in Nat
  BY ChainLens DEF Lens
<1>3. \A u \in Topics : \A n \in 1 .. Len(log[u]) : Good(log[u], n)
  BY DEF LogInv
<1>4. SUFFICES ASSUME NEW u \in Topics, NEW n \in 1 .. Len(log'[u])
               PROVE  Good(log'[u], n)
  BY DEF LogInv
<1>5. CASE u # t
  <2>1. log'[u] = log[u]
    BY <1>1, <1>5
  <2> HIDE DEF Good
  <2> QED
    BY <1>3, <1>4, <2>1
<1>6. CASE u = t /\ n = N + 1
  <2>1. log'[u][n] = e
    BY <1>1, <1>6
  <2>2. e.kind = "prompt" => n <= MaxMessages
    BY <1>2, <1>6, PollerAssumption
  <2>3. ASSUME e.kind = "reply"
        PROVE  /\ e.re \in 1 .. (n - 1) /\ log'[u][e.re].kind = "prompt"
               /\ \A m \in 1 .. Len(log'[u]) : log'[u][m] = e => m = n
    <3>1. e.re \in 1 .. N /\ log'[u][e.re].kind = "prompt"
      BY <1>1, <1>6, <2>3
    <3>2. \A m \in 1 .. Len(log'[u]) : m \in 1 .. N \/ m = n
      BY <1>1, <1>2, <1>6
    <3>3. \A m \in 1 .. N : log'[u][m] # e
      BY <1>1, <1>6, <2>3
    <3> QED
      BY <1>2, <1>6, <3>1, <3>2, <3>3
  <2> QED
    BY <2>1, <2>2, <2>3
<1>7. CASE u = t /\ n # N + 1
  <2>1. n \in 1 .. N /\ log'[u][n] = log[t][n]
    BY <1>1, <1>2, <1>4, <1>7
  <2>2. Good(log[t], n)
    BY <1>3, <2>1
  <2>3. ASSUME log[t][n].kind = "reply"
        PROVE  /\ log[t][n].re \in 1 .. (n - 1) /\ log'[u][log[t][n].re].kind = "prompt"
               /\ \A m \in 1 .. Len(log'[u]) : log'[u][m] = log[t][n] => m = n
    <3>1. /\ log[t][n].re \in 1 .. (n - 1) /\ log[t][log[t][n].re].kind = "prompt"
          /\ \A m \in 1 .. N : log[t][m] = log[t][n] => m = n
      BY <2>2, <2>3
    <3>2. log[t][n].re \in 1 .. N
      BY <1>2, <2>1, <3>1
    <3>3. log'[u][log[t][n].re].kind = "prompt"
      BY <1>1, <1>7, <3>1, <3>2
    <3>4. \A m \in 1 .. Len(log'[u]) : m \in 1 .. N \/ m = N + 1
      BY <1>1, <1>2, <1>7
    <3>5. log[t][n] # e
      BY <2>1, <2>3
    <3>6. \A m \in 1 .. Len(log'[u]) : log'[u][m] = log[t][n] => m = n
      BY <1>1, <1>7, <3>1, <3>4, <3>5
    <3> QED
      BY <3>1, <3>3, <3>6
  <2>4. log[t][n].kind = "prompt" => n <= MaxMessages
    BY <2>2
  <2> QED
    BY <2>1, <2>3, <2>4
<1> QED
  BY <1>5, <1>6, <1>7

(* The topic that p is greeting or is about to greet.                      *)
Greets(p, t) == pc[p] \in {"remember", "welcome"} /\ job[p].topic = t
GreetsNext(p, t) == pc'[p] \in {"remember", "welcome"} /\ job'[p].topic = t

LEMMA GreetKeeps ==
  ASSUME Lens, Lens', ChainType, GreetInv, NEW makers, NEW servers,
         OriginGrows(makers), LogGrows(servers),
         \A t \in Topics : \A n \in Len(log[t]) + 1 .. Len(log'[t]) :
           log'[t][n].kind # "own",
         \A q \in Procs, t \in Topics :
           GreetsNext(q, t) => Greets(q, t) \/ t > Len(origin)
  PROVE  GreetInv'
<1> SUFFICES ASSUME NEW t \in Topics, NEW n \in 1 .. Len(log'[t]), log'[t][n].kind = "own"
             PROVE  /\ t <= Len(origin') /\ origin'[t].by = log'[t][n].by
                    /\ ~GreetsNext(log'[t][n].by, t)
                    /\ \A m \in 1 .. Len(log'[t]) : log'[t][m].kind = "own" => m = n
  BY DEF GreetInv, Greets, GreetsNext
<1>1. \A m \in 1 .. Len(log'[t]) : log'[t][m].kind = "own" =>
        m \in 1 .. Len(log[t]) /\ log'[t][m] = log[t][m]
  <2>1. \A m \in 1 .. Len(log'[t]) :
          m \in 1 .. Len(log[t]) \/ m \in Len(log[t]) + 1 .. Len(log'[t])
    BY DEF Lens
  <2>2. \A m \in 1 .. Len(log[t]) : log'[t][m] = log[t][m]
    BY DEF LogGrows
  <2> QED
    BY <2>1, <2>2
<1>2. n \in 1 .. Len(log[t]) /\ log'[t][n] = log[t][n] /\ log[t][n].kind = "own"
  BY <1>1
<1>3. /\ t <= Len(origin) /\ origin[t].by = log[t][n].by /\ ~Greets(log[t][n].by, t)
      /\ \A m \in 1 .. Len(log[t]) : log[t][m].kind = "own" => m = n
  BY <1>2 DEF GreetInv, Greets, GreetsNext
<1>4. t \in 1 .. Len(origin) /\ Len(origin) \in Nat
  BY <1>3, PollerAssumption DEF Topics, Lens
<1>5. origin[t].by \in Procs
  BY <1>4, Origins
<1>6. origin'[t] = origin[t] /\ t <= Len(origin')
  BY <1>4 DEF OriginGrows, Lens
<1>7. ~GreetsNext(log'[t][n].by, t)
  <2>1. ~(t > Len(origin))
    BY <1>4
  <2> QED
    BY <1>2, <1>3, <1>5, <2>1
<1>8. \A m \in 1 .. Len(log'[t]) : log'[t][m].kind = "own" => m = n
  BY <1>1, <1>3
<1> QED
  BY <1>2, <1>3, <1>6, <1>7, <1>8

LEMMA GreetAppends ==
  ASSUME ChainType, Lens, Lens', GreetInv, NEW p \in Procs, NEW t \in Topics, Greets(p, t),
         t \in announced, origin[t].by = p,
         log' = [log EXCEPT ![t] = Append(@, Post("own", p, 0))],
         origin' = origin, \A q \in Procs, u \in Topics : GreetsNext(q, u) => Greets(q, u),
         ~GreetsNext(p, t)
  PROVE  GreetInv'
<1> DEFINE e == Post("own", p, 0)
           N == Len(log[t])
<1>1. e \in Messages /\ e.kind = "own" /\ e.by = p
  BY DEF Messages, Greeted, Post
<1>2. log' = [log EXCEPT ![t] = Append(@, e)]
  OBVIOUS
<1> HIDE DEF e
<1>3. /\ LogGrows({}) /\ Len(log'[t]) = N + 1 /\ log'[t][N + 1] = e
      /\ \A u \in Topics \ {t} : log'[u] = log[u]
  BY <1>1, <1>2, LogAppend
<1>4. \A m \in 1 .. N : log[t][m].kind # "own"
  BY DEF GreetInv, Greets, GreetsNext
<1>5. N \in Nat /\ t <= Len(origin)
  BY DEF Lens, ChainType
<1> SUFFICES ASSUME NEW u \in Topics, NEW n \in 1 .. Len(log'[u]), log'[u][n].kind = "own"
             PROVE  /\ u <= Len(origin') /\ origin'[u].by = log'[u][n].by
                    /\ ~GreetsNext(log'[u][n].by, u)
                    /\ \A m \in 1 .. Len(log'[u]) : log'[u][m].kind = "own" => m = n
  BY DEF GreetInv, Greets, GreetsNext
<1>6. CASE u # t
  <2>1. /\ u <= Len(origin) /\ origin[u].by = log[u][n].by /\ ~Greets(log[u][n].by, u)
        /\ \A m \in 1 .. Len(log[u]) : log[u][m].kind = "own" => m = n
    BY <1>3, <1>6 DEF GreetInv, Greets, GreetsNext
  <2>2. u \in 1 .. Len(origin)
    BY <2>1, PollerAssumption DEF Topics, Lens
  <2>3. origin[u].by \in Procs
    BY <2>2, Origins
  <2>4. log'[u] = log[u]
    BY <1>3, <1>6
  <2> QED
    BY <2>1, <2>3, <2>4
<1>7. CASE u = t
  <2>1. \A m \in 1 .. Len(log'[t]) : m \in 1 .. N \/ m = N + 1
    BY <1>3, <1>5
  <2>2. \A m \in 1 .. N : log'[t][m] = log[t][m]
    BY <1>3 DEF LogGrows
  <2>3. \A m \in 1 .. Len(log'[t]) : log'[t][m].kind = "own" => m = N + 1
    BY <1>4, <2>1, <2>2
  <2> QED
    BY <1>1, <1>3, <1>5, <1>7, <2>3
<1> QED
  BY <1>6, <1>7
LEMMA OneKeeps ==
  ASSUME Lens, Lens', ChainType, OneTopicPerRequest, announced' = announced,
         NEW makers, NEW servers, OriginGrows(makers), LogGrows(servers),
         met \subseteq met'
  PROVE  OneTopicPerRequest'
<1>1. Closed \subseteq Closed'
  BY ClosedGrows
<1>2. \A t \in announced : origin'[t] = origin[t]
  BY DEF OriginGrows, ChainType
<1> QED
  BY <1>1, <1>2 DEF OneTopicPerRequest

(* A process makes a topic for a request only when it knows of no topic    *)
(* for it, so that the others come from processes it met or are closed.    *)
LEMMA OneMakes ==
  ASSUME Lens, Lens', ChainType, MemoryType, OneTopicPerRequest, MetInv,
         NEW p \in Procs, p \in up, pc[p] = "create", RequestInv(p),
         announced' = announced \cup {NewTopic}, MakeTopic(p),
         NEW servers, LogGrows(servers), met' = met, job[p].cur \in Nat \ {0}
  PROVE  OneTopicPerRequest'
<1>1. Closed \subseteq Closed'
  BY ClosedGrows
<1>2. /\ \A t \in 1 .. Len(origin) : origin'[t] = origin[t]
      /\ origin'[NewTopic].request = job[p].cur /\ origin'[NewTopic].by = p
  <2>1. /\ \A t \in 1 .. Len(origin) : origin'[t] = origin[t]
        /\ origin'[Len(origin) + 1] = [request |-> job[p].cur, by |-> p]
        /\ NewTopic = Len(origin) + 1
    BY MakeGrows
  <2> QED
    BY <2>1
<1>3. announced \subseteq 1 .. Len(origin)
  BY DEF ChainType
<1>4. \A t \in announced : origin'[t] = origin[t]
  BY <1>2, <1>3
<1>5. ASSUME NEW t \in announced, origin[t].request = job[p].cur
      PROVE  \/ t \in Closed
             \/ <<p, origin[t].by>> \in met /\ <<origin[t].by, p>> \in met
  <2>1. t \notin mgr[p] /\ origin[t].by # p
    BY <1>3, <1>5 DEF RequestInv
  <2>2. t \in Closed \/ <<p, origin[t].by>> \in met
    BY <2>1 DEF RequestInv
  <2>3. origin[t].by \in Procs
    BY <1>3, Origins
  <2> QED
    BY <2>2, <2>3 DEF MetInv
<1>6. SUFFICES ASSUME NEW t \in announced', NEW u \in announced', t # u,
                      origin'[t].request = origin'[u].request
               PROVE  \/ <<origin'[t].by, origin'[u].by>> \in met
                      \/ t \in Closed \/ u \in Closed
  BY <1>1 DEF OneTopicPerRequest
<1>7. CASE t \in announced /\ u \in announced
  BY <1>4, <1>6, <1>7 DEF OneTopicPerRequest
<1>8. CASE t = NewTopic /\ u \in announced
  BY <1>2, <1>4, <1>5, <1>6, <1>8
<1>9. CASE u = NewTopic /\ t \in announced
  BY <1>2, <1>4, <1>5, <1>6, <1>9
<1> QED
  BY <1>6, <1>7, <1>8, <1>9

(* What is to be shown of a step of process p whose memory is sound after. *)
Sound == ChainType /\ MemoryType /\ MetInv /\ LogInv /\ GreetInv /\ OneTopicPerRequest

LEMMA StepOfOne ==
  ASSUME PollerInv, Sound', NEW p \in Procs, NEW makers, NEW servers,
         Grows(makers, servers), makers \subseteq {p}, servers \subseteq {p},
         makers \subseteq up, \A q \in Procs \ {p} : Same(q),
         \A q \in Procs \ {p} : q \in up' <=> q \in up,
         spawned \subseteq spawned', met \subseteq met', ProcInv(p)'
  PROVE  PollerInv'
<1>1. \A q \in Procs \ {p} : \A r \in makers : q \in up => <<q, r>> \in met'
  BY DEF PollerInv, MetInv
<1>2. ASSUME NEW q \in Procs \ {p}
      PROVE  ProcInv(q)'
  <2>1. ChainType /\ ChainType' /\ MemoryType /\ ProcInv(q) /\ Same(q)
    BY DEF PollerInv, Sound
  <2>2. q \notin makers /\ q \notin servers /\ (q \in up' <=> q \in up)
    OBVIOUS
  <2>3. \A r \in makers : q \in up => <<q, r>> \in met'
    BY <1>1
  <2> QED
    BY <2>1, <2>2, <2>3, ProcKeeps
<1>3. \A q \in Procs : ProcInv(q)'
  BY <1>2
<1> QED
  BY <1>3 DEF PollerInv, Sound
-----------------------------------------------------------------------------
(* The steps of the users, and the processes' coming and going.            *)
PollerSame ==
  /\ pc' = pc /\ mgr' = mgr /\ known' = known /\ watch' = watch /\ seen' = seen
  /\ inSeen' = inSeen /\ job' = job /\ session' = session

LEMMA AllSame ==
  ASSUME PollerSame
  PROVE  \A q \in Procs : Same(q) /\ \A t : GreetsNext(q, t) => Greets(q, t)
  BY DEF PollerSame, Same, Greets, GreetsNext

(* A step of nobody's process.                                             *)
LEMMA StepOfNone ==
  ASSUME PollerInv, Sound', Grows({}, {}), PollerSame, up' = up,
         spawned' = spawned, met' = met
  PROVE  PollerInv'
<1>1. ASSUME NEW q \in Procs
      PROVE  ProcInv(q)'
  <2>1. ChainType /\ ChainType' /\ MemoryType /\ ProcInv(q)
    BY DEF PollerInv, Sound
  <2>2. Same(q)
    BY AllSame
  <2> QED
    BY <2>1, <2>2, ProcKeeps
<1> QED
  BY <1>1 DEF PollerInv, Sound

LEMMA SubmitKeeps ==
  ASSUME PollerInv, SubmitRequest
  PROVE  PollerInv'
<1>1. /\ inbound' = Append(inbound, "request") /\ log' = log /\ origin' = origin
      /\ announced' = announced /\ PollerSame
      /\ up' = up /\ spawned' = spawned /\ met' = met
  BY DEF SubmitRequest, procVars, PollerSame
<1>2. inbound' \in Seq({"request", "own"}) /\ InboundGrows
  BY <1>1, InboundAppend DEF PollerInv
<1>3. OriginGrows({}) /\ LogGrows({})
  BY <1>1, OriginSame, LogSame DEF PollerInv
<1>4. ChainType'
  <2>1. ChainType
    BY DEF PollerInv
  <2> QED
    BY <1>1, <1>2, <2>1 DEF ChainType
<1>5. MemoryType' /\ MetInv'
  BY <1>1 DEF PollerInv, MemoryType, MetInv, PollerSame
<1>7. OneTopicPerRequest'
  BY <1>1 DEF PollerInv, OneTopicPerRequest, Closed
<1>6. LogInv' /\ GreetInv'
  BY <1>1 DEF PollerInv, LogInv, GreetInv, PollerSame
<1> QED
  BY <1>1, <1>2, <1>3, <1>4, <1>5, <1>6, <1>7, StepOfNone DEF Grows, Sound

LEMMA SendKeeps ==
  ASSUME PollerInv, NEW t \in Topics, NEW kind \in {"prompt", "close", "other"},
         SendMessage(t, kind)
  PROVE  PollerInv'
<1> DEFINE e == Post(kind, "user", 0)
<1>1. /\ inbound' = inbound /\ log' = [log EXCEPT ![t] = Append(@, e)]
      /\ origin' = origin /\ announced' = announced /\ PollerSame
      /\ up' = up /\ spawned' = spawned /\ met' = met
      /\ Len(log[t]) < MaxMessages
  BY DEF SendMessage, procVars, PollerSame
<1>2. e \in Messages /\ e.kind # "reply" /\ e.kind # "own"
  BY DEF Messages, Said, Post
<1> HIDE DEF e
<1>3. /\ log' \in [Topics -> Seq(Messages)] /\ LogGrows({})
      /\ Len(log'[t]) = Len(log[t]) + 1 /\ log'[t][Len(log[t]) + 1] = e
      /\ \A u \in Topics \ {t} : log'[u] = log[u]
  BY <1>1, <1>2, LogAppend DEF PollerInv
<1>4. OriginGrows({}) /\ InboundGrows
  BY <1>1, OriginSame, InboundSame DEF PollerInv
<1>5. ChainType'
  BY <1>1, <1>3 DEF PollerInv, ChainType
<1>6. Lens /\ Lens'
  BY <1>5, ChainLens, NextLens DEF PollerInv
<1>7. MemoryType' /\ MetInv'
  BY <1>1 DEF PollerInv, MemoryType, MetInv, PollerSame
<1>8. OneTopicPerRequest'
  BY <1>1, <1>3, <1>4, <1>6, OneKeeps DEF PollerInv
<1>9. LogInv'
  BY <1>1, <1>2, LogAppends DEF PollerInv
<1>10. \A u \in Topics : \A n \in Len(log[u]) + 1 .. Len(log'[u]) :
         log'[u][n].kind # "own"
  <2> SUFFICES ASSUME NEW u \in Topics, NEW n \in Len(log[u]) + 1 .. Len(log'[u])
               PROVE  u = t /\ n = Len(log[t]) + 1
    BY <1>2, <1>3
  <2> QED
    BY <1>3, <1>6 DEF Lens
<1>11. GreetInv'
  <2>1. \A q \in Procs, u \in Topics : GreetsNext(q, u) => Greets(q, u)
    BY <1>1, AllSame
  <2> QED
    BY <1>3, <1>4, <1>6, <1>10, <2>1, GreetKeeps DEF PollerInv
<1> QED
  BY <1>1, <1>3, <1>4, <1>5, <1>7, <1>8, <1>9, <1>11, StepOfNone DEF Grows, Sound
(* A step of p that leaves the topics alone.                               *)
LEMMA QuietStep ==
  ASSUME PollerInv, NEW p \in Procs, chainVars' = chainVars,
         MemoryType', MetInv', up' \subseteq spawned', spawned' \subseteq Procs,
         \A q \in Procs \ {p} : Same(q), \A q \in Procs \ {p} : q \in up' <=> q \in up,
         spawned \subseteq spawned', met \subseteq met', ProcInv(p)',
         \A t \in Topics : GreetsNext(p, t) => Greets(p, t)
  PROVE  PollerInv'
<1>1. /\ ChainType /\ inbound' = inbound /\ log' = log /\ origin' = origin
      /\ announced' = announced
  BY DEF PollerInv, chainVars
<1>2. ChainType'
  BY <1>1 DEF ChainType
<1>3. Lens /\ Lens'
  BY <1>1, <1>2, ChainLens, NextLens
<1>4. Grows({}, {})
  BY <1>1, InboundSame, OriginSame, LogSame DEF Grows
<1>5. LogInv'
  BY <1>1, LogKeeps DEF PollerInv
<1>6. OneTopicPerRequest'
  BY <1>1, <1>3, <1>4, OneKeeps DEF PollerInv, Grows
<1>7. GreetInv'
  <2>1. \A t \in Topics : \A n \in Len(log[t]) + 1 .. Len(log'[t]) :
          log'[t][n].kind # "own"
    BY <1>1, <1>3 DEF Lens
  <2>2. \A q \in Procs \ {p}, t \in Topics : GreetsNext(q, t) => Greets(q, t)
    BY DEF Same, Greets, GreetsNext
  <2>3. \A q \in Procs, t \in Topics : GreetsNext(q, t) => Greets(q, t)
    BY <2>2
  <2> QED
    BY <1>1, <1>3, <1>4, <2>1, <2>3, GreetKeeps DEF PollerInv, Grows
<1>8. Sound'
  BY <1>2, <1>5, <1>6, <1>7 DEF Sound
<1> QED
  BY <1>4, <1>8, StepOfOne

LEMMA SpawnKeeps ==
  ASSUME PollerInv, NEW p \in Procs, Spawn(p)
  PROVE  PollerInv'
<1>1. /\ p \notin spawned /\ spawned' = spawned \cup {p} /\ up' = up \cup {p}
      /\ met' = met \cup ({p} \X up) \cup (up \X {p})
      /\ chainVars' = chainVars /\ PollerSame
  BY DEF Spawn, procVars, PollerSame
<1>2. /\ ChainType /\ MemoryType /\ MetInv /\ ProcInv(p)
      /\ up \subseteq spawned /\ spawned \subseteq Procs
  BY DEF PollerInv, ChainType
<1>3. inbound' = inbound /\ log' = log /\ origin' = origin /\ announced' = announced
  BY <1>1 DEF chainVars
<1>4. MemoryType'
  BY <1>1, <1>2, <1>3 DEF MemoryType, PollerSame
<1>5. MetInv'
  <2>1. \A q, r \in Procs : <<q, r>> \in met' <=>
          <<q, r>> \in met \/ (q = p /\ r \in up) \/ (q \in up /\ r = p)
    BY <1>1
  <2> QED
    BY <1>1, <1>2, <2>1 DEF MetInv
<1>6. p \notin up /\ pc[p] = "load"
  BY <1>1, <1>2 DEF ProcInv, LoopInv
<1>7. \A q \in Procs : Same(q) /\ \A t : GreetsNext(q, t) => Greets(q, t)
  BY <1>1, AllSame
<1>8. LoopInv(p)' /\ RequestInv(p)'
  <2>1. pc'[p] = "load" /\ Same(p)
    BY <1>6, <1>7 DEF Same
  <2>2. LoopInv(p)'
    BY <1>2, <1>3, <2>1 DEF ProcInv, LoopInv, Same, Handling
  <2>3. RequestInv(p)'
    BY <1>1, <1>2, <1>3, <2>1 DEF ProcInv, RequestInv
  <2> QED
    BY <2>2, <2>3
<1>9. WatchInv(p)' /\ AnsweredBy(p)'
  BY <1>2, <1>3, <1>7 DEF ProcInv, WatchInv, AnsweredBy, Same
<1>10. /\ \A q \in Procs \ {p} : q \in up' <=> q \in up
       /\ up' \subseteq spawned' /\ spawned' \subseteq Procs
       /\ spawned \subseteq spawned' /\ met \subseteq met'
  BY <1>1, <1>2
<1>11. ProcInv(p)'
  BY <1>8, <1>9 DEF ProcInv
<1> QED
  BY <1>1, <1>4, <1>5, <1>7, <1>10, <1>11, QuietStep

LEMMA StopKeeps ==
  ASSUME PollerInv, NEW p \in Procs, Stop(p)
  PROVE  PollerInv'
<1>1. /\ p \in up /\ up' = up \ {p} /\ spawned' = spawned /\ met' = met
      /\ session' = session /\ chainVars' = chainVars
      /\ pc' = [pc EXCEPT ![p] = "load"] /\ mgr' = [mgr EXCEPT ![p] = {}]
      /\ known' = [known EXCEPT ![p] = {}] /\ watch' = [watch EXCEPT ![p] = {}]
      /\ seen' = [seen EXCEPT ![p] = [t \in Topics |-> {}]]
      /\ inSeen' = [inSeen EXCEPT ![p] = {}] /\ job' = [job EXCEPT ![p] = NoJob]
  BY DEF Stop
<1>2. /\ ChainType /\ MemoryType /\ MetInv /\ ProcInv(p)
      /\ up \subseteq spawned /\ spawned \subseteq Procs
  BY DEF PollerInv, ChainType
<1>3. inbound' = inbound /\ log' = log /\ origin' = origin /\ announced' = announced
  BY <1>1 DEF chainVars
<1>4. /\ pc'[p] = "load" /\ mgr'[p] = {} /\ known'[p] = {} /\ watch'[p] = {}
      /\ \A t \in Topics : seen'[p][t] = {}
      /\ inSeen'[p] = {} /\ job'[p].topics = {}
  BY <1>1, <1>2, NoJobType DEF MemoryType
<1>5. \A q \in Procs \ {p} : Same(q)
  BY <1>1, <1>2 DEF MemoryType, Same
<1>6. MemoryType'
  <2>1. [t \in Topics |-> {}] \in [Topics -> SUBSET Nat]
    OBVIOUS
  <2>2. NoJob \in [todo : SUBSET Nat, cur : Nat, topic : Nat, topics : SUBSET Topics]
    BY NoJobType DEF Jobs
  <2> QED
    BY <1>1, <1>2, <1>3, <2>1, <2>2 DEF MemoryType
<1>7. MetInv'
  BY <1>1, <1>2 DEF MetInv
<1>8. LoopInv(p)'
  BY <1>2, <1>4 DEF LoopInv, Handling
<1>9. RequestInv(p)'
  BY <1>1, <1>2, <1>3, <1>4 DEF ProcInv, RequestInv
<1>10. WatchInv(p)' /\ AnsweredBy(p)'
  BY <1>1, <1>2, <1>3, <1>4 DEF ProcInv, WatchInv, AnsweredBy
<1>11. \A t \in Topics : GreetsNext(p, t) => Greets(p, t)
  BY <1>4 DEF GreetsNext
<1>12. /\ \A q \in Procs \ {p} : q \in up' <=> q \in up
       /\ up' \subseteq spawned' /\ spawned' \subseteq Procs
       /\ spawned \subseteq spawned' /\ met \subseteq met'
  BY <1>1, <1>2
<1>13. ProcInv(p)'
  BY <1>8, <1>9, <1>10 DEF ProcInv
<1> QED
  BY <1>1, <1>5, <1>6, <1>7, <1>11, <1>12, <1>13, QuietStep
-----------------------------------------------------------------------------
(* The steps that bring a process a new list of connections.               *)
LEMMA WatchDoes ==
  ASSUME MemoryType, NEW p \in Procs, NEW topics \in SUBSET Topics, Watch(p, topics)
  PROVE  /\ watch' \in [Procs -> SUBSET Topics]
         /\ seen' \in [Procs -> [Topics -> SUBSET Nat]]
         /\ session' \in [Procs -> [Topics -> 0 .. MaxSessions]]
         /\ watch'[p] = watch[p] \cup topics
         /\ \A t \in Topics \ topics :
              seen'[p][t] = seen[p][t] /\ session'[p][t] = session[p][t]
         /\ \A t \in topics : seen'[p][t] = {} /\ session'[p][t] = session[p][t] + 1
         /\ \A q \in Procs \ {p} : /\ watch'[q] = watch[q] /\ seen'[q] = seen[q]
                                   /\ session'[q] = session[q]
<1> DEFINE read  == [t \in Topics |-> IF t \in topics THEN {} ELSE seen[p][t]]
           count == [t \in Topics |->
                       IF t \in topics THEN session[p][t] + 1 ELSE session[p][t]]
<1>1. /\ \A t \in topics : session[p][t] < MaxSessions
      /\ watch' = [watch EXCEPT ![p] = @ \cup topics]
      /\ seen' = [seen EXCEPT ![p] = read] /\ session' = [session EXCEPT ![p] = count]
  BY DEF Watch, Fresh, MemoryType
<1>2. read \in [Topics -> SUBSET Nat]
  BY DEF MemoryType
<1>3. count \in [Topics -> 0 .. MaxSessions]
  <2>1. \A t \in Topics : session[p][t] \in 0 .. MaxSessions
    BY DEF MemoryType
  <2>2. \A t \in Topics : count[t] \in 0 .. MaxSessions
    BY <1>1, <2>1, PollerAssumption
  <2> QED
    BY <2>2
<1>4. /\ \A t \in Topics \ topics : read[t] = seen[p][t] /\ count[t] = session[p][t]
      /\ \A t \in topics : read[t] = {} /\ count[t] = session[p][t] + 1
  OBVIOUS
<1> HIDE DEF read, count
<1>5. /\ watch' \in [Procs -> SUBSET Topics] /\ watch'[p] = watch[p] \cup topics
      /\ \A q \in Procs \ {p} : watch'[q] = watch[q]
  BY <1>1 DEF MemoryType
<1>6. /\ seen' \in [Procs -> [Topics -> SUBSET Nat]] /\ seen'[p] = read
      /\ \A q \in Procs \ {p} : seen'[q] = seen[q]
  BY <1>1, <1>2 DEF MemoryType
<1>7. /\ session' \in [Procs -> [Topics -> 0 .. MaxSessions]] /\ session'[p] = count
      /\ \A q \in Procs \ {p} : session'[q] = session[q]
  BY <1>1, <1>3 DEF MemoryType
<1> QED
  BY <1>4, <1>5, <1>6, <1>7

LEMMA ListingSound ==
  ASSUME ChainType, NEW listing \in Listings
  PROVE  /\ listing \subseteq announced /\ listing \subseteq Topics
         /\ \A t \in announced : t \in listing \/ t \in Closed
<1>1. listing \subseteq announced /\ \A t \in announced : t \in listing \/ t \in Closed
  BY DEF Listings
<1>2. announced \subseteq Topics
  BY AnnouncedTopics
<1> QED
  BY <1>1, <1>2

LEMMA ListingKeeps ==
  ASSUME PollerInv, NEW p \in Procs, p \in up, NEW listing \in Listings,
         NEW topics \in SUBSET listing, listing \ watch[p] \subseteq topics,
         Watch(p, topics), pc[p] \in {"load", "refresh"},
         NEW next \in {"refresh", "inbound"}, pc' = [pc EXCEPT ![p] = next],
         mgr' = [mgr EXCEPT ![p] = listing], known' = [known EXCEPT ![p] = listing],
         chainVars' = chainVars, inSeen' = inSeen, job' = job,
         up' = up, spawned' = spawned, met' = met
  PROVE  PollerInv'
<1>1. /\ ChainType /\ MemoryType /\ MetInv /\ ProcInv(p)
      /\ up \subseteq spawned /\ spawned \subseteq Procs
  BY DEF PollerInv, ChainType
<1>2. inbound' = inbound /\ log' = log /\ origin' = origin /\ announced' = announced
  BY DEF chainVars
<1>3. /\ listing \subseteq announced /\ topics \in SUBSET Topics
      /\ \A t \in announced : t \in listing \/ t \in Closed
  BY <1>1, ListingSound
<1>4. /\ watch' \in [Procs -> SUBSET Topics]
      /\ seen' \in [Procs -> [Topics -> SUBSET Nat]]
      /\ session' \in [Procs -> [Topics -> 0 .. MaxSessions]]
      /\ watch'[p] = watch[p] \cup topics
      /\ \A t \in Topics \ topics :
           seen'[p][t] = seen[p][t] /\ session'[p][t] = session[p][t]
      /\ \A t \in topics : seen'[p][t] = {} /\ session'[p][t] = session[p][t] + 1
      /\ \A q \in Procs \ {p} : /\ watch'[q] = watch[q] /\ seen'[q] = seen[q]
                                /\ session'[q] = session[q]
  BY <1>1, <1>3, WatchDoes
<1>5. /\ pc' \in [Procs -> Pcs] /\ pc'[p] = next
      /\ mgr' \in [Procs -> SUBSET announced] /\ mgr'[p] = listing
      /\ known' \in [Procs -> SUBSET announced] /\ known'[p] = listing
  BY <1>1, <1>3 DEF MemoryType, Pcs
<1>6. \A q \in Procs \ {p} : Same(q)
  BY <1>1, <1>4 DEF MemoryType, Same
<1>7. MemoryType'
  BY <1>1, <1>2, <1>4, <1>5 DEF MemoryType, Pcs
<1>8. MetInv'
  BY <1>1 DEF MetInv
<1>9. pc'[p] \in {"refresh", "inbound"} /\ pc[p] \notin Handling
  BY <1>5 DEF Handling
<1>10. LoopInv(p)'
  <2>1. \A t \in Topics : /\ seen[p][t] \subseteq 1 .. Len(log[t])
                          /\ t \notin watch[p] => seen[p][t] = {}
    BY <1>1 DEF ProcInv, LoopInv
  <2>2. \A t \in Topics : /\ seen'[p][t] \subseteq 1 .. Len(log'[t])
                          /\ t \notin watch'[p] => seen'[p][t] = {}
    BY <1>2, <1>4, <2>1
  <2>3. job'[p].topics \subseteq watch'[p] /\ inSeen'[p] \subseteq 1 .. Len(inbound')
    BY <1>1, <1>2, <1>4 DEF ProcInv, LoopInv
  <2> QED
    BY <1>9, <2>2, <2>3 DEF LoopInv, Handling
<1>11. RequestInv(p)'
  <2>1. Closed' = Closed
    BY <1>2 DEF Closed
  <2> QED
    BY <1>1, <1>2, <1>3, <1>5, <1>9, <2>1 DEF ProcInv, RequestInv
<1>12. WatchInv(p)'
  <2> SUFFICES ASSUME NEW t \in Topics
               PROVE  /\ session'[p][t] > 0 => t \in announced'
                      /\ t \in known'[p] => session'[p][t] > 0
                      /\ t \in watch'[p] => session'[p][t] > 0
    BY <1>9 DEF WatchInv
  <2>1. CASE t \in topics
    <3>1. session[p][t] \in Nat
      BY <1>1, PollerAssumption DEF MemoryType
    <3> QED
      BY <1>2, <1>3, <1>4, <2>1, <3>1
  <2>2. CASE t \notin topics
    <3>1. session'[p][t] = session[p][t]
      BY <1>4, <2>2
    <3>2. /\ session[p][t] > 0 => t \in announced
          /\ t \in watch[p] => session[p][t] > 0
      BY <1>1, <1>9 DEF ProcInv, WatchInv
    <3> QED
      BY <1>2, <1>4, <1>5, <2>2, <3>1, <3>2
  <2> QED
    BY <2>1, <2>2
<1>13. AnsweredBy(p)'
  <2> SUFFICES ASSUME NEW t \in Topics, NEW n \in 1 .. Len(log[t]), NEW k \in Nat,
                      log[t][n].kind = "reply", log[t][n].by = <<p, k>>
               PROVE  /\ k \in 1 .. session'[p][t] /\ pc'[p] # "answer"
                      /\ t \in watch'[p] /\ k = session'[p][t] =>
                           log[t][n].re \in seen'[p][t]
    BY <1>2 DEF AnsweredBy
  <2>1. /\ k \in 1 .. session[p][t]
        /\ t \in watch[p] /\ k = session[p][t] => log[t][n].re \in seen[p][t]
    BY <1>1 DEF ProcInv, AnsweredBy
  <2>2. session[p][t] \in Nat
    BY <1>1, PollerAssumption DEF MemoryType
  <2>3. CASE t \in topics
    BY <1>4, <1>9, <2>1, <2>2, <2>3
  <2>4. CASE t \notin topics
    BY <1>4, <1>9, <2>1, <2>4
  <2> QED
    BY <2>3, <2>4
<1>14. ProcInv(p)' /\ \A t \in Topics : GreetsNext(p, t) => Greets(p, t)
  BY <1>9, <1>10, <1>11, <1>12, <1>13 DEF ProcInv, GreetsNext
<1>15. up' \subseteq spawned' /\ spawned' \subseteq Procs
  BY <1>1
<1> QED
  BY <1>6, <1>7, <1>8, <1>14, <1>15, QuietStep

LEMMA LoadKeeps ==
  ASSUME PollerInv, NEW p \in Procs, NEW listing \in Listings,
         Load(p, listing) \/ Refresh(p, listing)
  PROVE  PollerInv'
<1>1. CASE Load(p, listing)
  BY <1>1, ListingKeeps DEF Load
<1>2. CASE Refresh(p, listing)
  <2>1. listing \ watch[p] \in SUBSET listing
    OBVIOUS
  <2> QED
    BY <1>2, <2>1, ListingKeeps DEF Refresh
<1> QED
  BY <1>1, <1>2

LEMMA RememberKeeps ==
  ASSUME PollerInv, NEW p \in Procs, NEW listing \in Listings, Remember(p, listing)
  PROVE  PollerInv'
<1>1. /\ p \in up /\ pc[p] = "remember" /\ mgr' = [mgr EXCEPT ![p] = listing]
      /\ pc' = [pc EXCEPT ![p] = "welcome"] /\ chainVars' = chainVars
      /\ known' = known /\ watch' = watch /\ seen' = seen /\ inSeen' = inSeen
      /\ job' = job /\ up' = up /\ spawned' = spawned /\ session' = session
      /\ met' = met
  BY DEF Remember
<1>2. /\ ChainType /\ MemoryType /\ MetInv /\ ProcInv(p)
      /\ up \subseteq spawned /\ spawned \subseteq Procs
  BY DEF PollerInv, ChainType
<1>3. inbound' = inbound /\ log' = log /\ origin' = origin /\ announced' = announced
  BY <1>1 DEF chainVars
<1>4. /\ listing \subseteq announced
      /\ \A t \in announced : t \in listing \/ t \in Closed
  BY <1>2, ListingSound
<1>5. /\ pc'[p] = "welcome" /\ mgr'[p] = listing
      /\ \A q \in Procs \ {p} : pc'[q] = pc[q] /\ mgr'[q] = mgr[q]
  BY <1>1, <1>2 DEF MemoryType
<1>6. MemoryType'
  BY <1>1, <1>2, <1>3, <1>4 DEF MemoryType
<1>7. MetInv' /\ \A q \in Procs \ {p} : Same(q)
  BY <1>1, <1>2, <1>5 DEF MetInv, Same
<1>8. LoopInv(p)'
  BY <1>1, <1>2, <1>3, <1>5 DEF ProcInv, LoopInv, Handling
<1>9. RequestInv(p)'
  <2>1. Closed' = Closed
    BY <1>3 DEF Closed
  <2> QED
    BY <1>1, <1>2, <1>3, <1>4, <1>5, <2>1 DEF ProcInv, RequestInv
<1>10. WatchInv(p)'
  BY <1>1, <1>2, <1>3, <1>5 DEF ProcInv, WatchInv, Handling
<1>11. AnsweredBy(p)'
  BY <1>1, <1>2, <1>3, <1>5 DEF ProcInv, AnsweredBy
<1>12. ProcInv(p)' /\ \A t \in Topics : GreetsNext(p, t) => Greets(p, t)
  BY <1>1, <1>8, <1>9, <1>10, <1>11 DEF ProcInv, GreetsNext, Greets
<1>13. up' \subseteq spawned' /\ spawned' \subseteq Procs
  BY <1>1, <1>2
<1> QED
  BY <1>1, <1>6, <1>7, <1>12, <1>13, QuietStep
-----------------------------------------------------------------------------
(* The steps that go on with the inbound topic.                            *)
LEMMA InboundMoves ==
  ASSUME MemoryType, NEW p \in Procs, NEW todo \in SUBSET Nat,
         NEW watching \in SUBSET Topics, ResumeInbound(p, todo, watching),
         mgr' = mgr, known' = known, session' = session
  PROVE  /\ LoopType' /\ \A q \in Procs \ {p} : Same(q)
         /\ PassBegins(p, todo, watching) \/ RequestBegins(p, todo, watching)
         /\ \A q \in Procs, t \in Topics : GreetsNext(q, t) => q # p /\ Greets(q, t)
<1>1. LoopType
  BY LoopTypes
<1>2. /\ LoopType' /\ \A q \in Procs \ {p} : LoopSame(q)
      /\ PassBegins(p, todo, watching) \/ RequestBegins(p, todo, watching)
  BY <1>1, ResumeInboundDoes
<1>3. pc'[p] \notin {"remember", "welcome"}
  BY <1>2 DEF PassBegins, RequestBegins
<1>4. \A q \in Procs \ {p} : Same(q)
  BY <1>2 DEF LoopSame, Same
<1>5. \A q \in Procs, t \in Topics : GreetsNext(q, t) => q # p /\ Greets(q, t)
  BY <1>3, <1>4 DEF GreetsNext, Greets, Same
<1> QED
  BY <1>2, <1>4, <1>5

LEMMA InboundKeeps ==
  ASSUME PollerInv, NEW p \in Procs, p \in up, pc[p] # "load", NEW todo \in SUBSET Nat,
         NEW watching \in SUBSET Topics, ResumeInbound(p, todo, watching),
         todo \subseteq (1 .. Len(inbound)) \ inSeen[p], watch[p] \subseteq watching,
         \A t \in watching \ watch[p] : session[p][t] = 0,
         mgr' = mgr, known' = known, session' = session,
         up' = up, spawned' = spawned, met' = met,
         ChainType', Grows({p}, {}),
         \A t \in Len(origin) + 1 .. Len(origin') : origin'[t].request \in inSeen[p],
         LogInv', GreetInv', OneTopicPerRequest'
  PROVE  PollerInv'
<1>1. ChainType /\ MemoryType /\ MetInv /\ ProcInv(p)
  BY DEF PollerInv
<1>2. /\ LoopType' /\ \A q \in Procs \ {p} : Same(q)
      /\ PassBegins(p, todo, watching) \/ RequestBegins(p, todo, watching)
  BY <1>1, InboundMoves
<1>3. InboundResumes(p, todo, watching)
  BY <1>2 DEF InboundResumes
<1>4. ProcInv(p)'
  BY <1>1, <1>3, ProcAfterInbound
<1>5. MemoryType'
  <2>1. announced \subseteq announced'
    BY DEF Grows, OriginGrows
  <2>2. /\ mgr' \in [Procs -> SUBSET announced'] /\ known' \in [Procs -> SUBSET announced']
        /\ session' \in [Procs -> [Topics -> 0 .. MaxSessions]]
    BY <1>1, <2>1 DEF MemoryType
  <2> QED
    BY <1>1, <1>2, <2>1, <2>2, MemoryKeeps
<1>6. Sound'
  BY <1>1, <1>5 DEF Sound, MetInv
<1> QED
  BY <1>2, <1>4, <1>6, StepOfOne

(* The case that the topics and the log stay as they are.                  *)
LEMMA InboundOnly ==
  ASSUME PollerInv, NEW p \in Procs, p \in up, pc[p] # "load", NEW todo \in SUBSET Nat,
         ResumeInbound(p, todo, watch[p]),
         todo \subseteq (1 .. Len(inbound)) \ inSeen[p],
         mgr' = mgr, known' = known, session' = session,
         up' = up, spawned' = spawned, met' = met, chainVars' = chainVars
  PROVE  PollerInv'
<1>1. /\ ChainType /\ MemoryType /\ inbound' = inbound /\ log' = log
      /\ origin' = origin /\ announced' = announced
  BY DEF PollerInv, chainVars
<1>2. ChainType'
  BY <1>1 DEF ChainType
<1>3. Lens /\ Lens'
  BY <1>1, <1>2, ChainLens, NextLens
<1>4. watch[p] \in SUBSET Topics
  BY <1>1 DEF MemoryType
<1>5. Grows({p}, {})
  BY <1>1, InboundSame, OriginSame, LogSame DEF Grows
<1>6. LogInv'
  BY <1>1, LogKeeps DEF PollerInv
<1>7. OneTopicPerRequest'
  BY <1>1, <1>3, <1>5, OneKeeps DEF PollerInv, Grows
<1>8. GreetInv'
  <2>1. \A q \in Procs, t \in Topics : GreetsNext(q, t) => Greets(q, t)
    BY <1>1, <1>4, InboundMoves
  <2>2. \A t \in Topics : \A n \in Len(log[t]) + 1 .. Len(log'[t]) :
          log'[t][n].kind # "own"
    BY <1>1, <1>3 DEF Lens
  <2> QED
    BY <1>1, <1>3, <1>5, <2>1, <2>2, GreetKeeps DEF PollerInv, Grows
<1>9. \A t \in Len(origin) + 1 .. Len(origin') : origin'[t].request \in inSeen[p]
  BY <1>1, <1>3 DEF Lens
<1> QED
  BY <1>2, <1>4, <1>5, <1>6, <1>7, <1>8, <1>9, InboundKeeps

LEMMA ReadInboundKeeps ==
  ASSUME PollerInv, NEW p \in Procs, ReadInbound(p)
  PROVE  PollerInv'
<1> DEFINE todo == (1 .. Len(inbound)) \ inSeen[p]
<1>1. /\ p \in up /\ pc[p] # "load" /\ ResumeInbound(p, todo, watch[p])
      /\ mgr' = mgr /\ known' = known /\ session' = session
      /\ up' = up /\ spawned' = spawned /\ met' = met /\ chainVars' = chainVars
  BY DEF ReadInbound
<1>2. todo \in SUBSET Nat
  BY ChainLens DEF PollerInv, Lens
<1> QED
  BY <1>1, <1>2, InboundOnly

(* While it handles a request a process has the other messages to go.      *)
LEMMA HandlingDoes ==
  ASSUME PollerInv, NEW p \in Procs, pc[p] \in Handling
  PROVE  /\ job[p].todo \in SUBSET Nat
         /\ job[p].todo \subseteq (1 .. Len(inbound)) \ inSeen[p]
         /\ job[p].cur \in inSeen[p] /\ job[p].cur \in Nat \ {0}
<1>1. /\ job[p].todo \subseteq (1 .. Len(inbound)) \ inSeen[p]
      /\ job[p].cur \in inSeen[p] /\ inSeen[p] \subseteq 1 .. Len(inbound)
  BY DEF PollerInv, ProcInv, LoopInv
<1>2. Len(inbound) \in Nat
  BY ChainLens DEF PollerInv, Lens
<1> QED
  BY <1>1, <1>2

LEMMA RememberFailsKeeps ==
  ASSUME PollerInv, NEW p \in Procs, RememberFails(p)
  PROVE  PollerInv'
<1>1. /\ p \in up /\ pc[p] = "remember" /\ ResumeInbound(p, job[p].todo, watch[p])
      /\ mgr' = mgr /\ known' = known /\ session' = session
      /\ up' = up /\ spawned' = spawned /\ met' = met /\ chainVars' = chainVars
  BY DEF RememberFails
<1>2. /\ job[p].todo \in SUBSET Nat
      /\ job[p].todo \subseteq (1 .. Len(inbound)) \ inSeen[p]
  BY <1>1, HandlingDoes DEF Handling
<1> QED
  BY <1>1, <1>2, InboundOnly

LEMMA ReadInboundFailsKeeps ==
  ASSUME PollerInv, NEW p \in Procs, ReadInboundFails(p)
  PROVE  PollerInv'
<1>1. /\ p \in up /\ pc[p] = "inbound" /\ pc' = [pc EXCEPT ![p] = "refresh"]
      /\ mgr' = mgr /\ known' = known /\ watch' = watch /\ seen' = seen
      /\ inSeen' = inSeen /\ job' = job /\ session' = session /\ up' = up
      /\ spawned' = spawned /\ met' = met /\ chainVars' = chainVars
  BY DEF ReadInboundFails
<1>2. /\ ChainType /\ MemoryType /\ MetInv /\ ProcInv(p)
      /\ up \subseteq spawned /\ spawned \subseteq Procs
  BY DEF PollerInv, ChainType
<1>3. inbound' = inbound /\ log' = log /\ origin' = origin /\ announced' = announced
  BY <1>1 DEF chainVars
<1>4. pc'[p] = "refresh" /\ \A q \in Procs \ {p} : pc'[q] = pc[q]
  BY <1>1, <1>2 DEF MemoryType
<1>5. MemoryType'
  BY <1>1, <1>2, <1>3 DEF MemoryType
<1>6. MetInv' /\ \A q \in Procs \ {p} : Same(q)
  BY <1>1, <1>2, <1>4 DEF MetInv, Same
<1>7. LoopInv(p)' /\ WatchInv(p)' /\ AnsweredBy(p)'
  BY <1>1, <1>2, <1>3, <1>4
  DEF ProcInv, LoopInv, WatchInv, AnsweredBy, Handling
<1>8. RequestInv(p)'
  <2>1. Closed' = Closed
    BY <1>3 DEF Closed
  <2> QED
    BY <1>1, <1>2, <1>3, <1>4, <2>1 DEF ProcInv, RequestInv
<1>9. ProcInv(p)' /\ \A t \in Topics : GreetsNext(p, t) => Greets(p, t)
  BY <1>4, <1>7, <1>8 DEF ProcInv, GreetsNext
<1> QED
  BY <1>1, <1>2, <1>5, <1>6, <1>9, QuietStep
(* The client makes a topic, or fails to, and may have told of it.         *)
MayMake(p, made, told) ==
  /\ told => made
  /\ IF made THEN MakeTopic(p) ELSE UNCHANGED origin
  /\ IF told THEN Announce(NewTopic) ELSE UNCHANGED <<announced, inbound>>
  /\ log' = log /\ up' = up /\ spawned' = spawned /\ met' = met

LEMMA MakesTopic ==
  ASSUME PollerInv, NEW p \in Procs, p \in up, pc[p] = "create",
         NEW made \in BOOLEAN, NEW told \in BOOLEAN, MayMake(p, made, told)
  PROVE  /\ ChainType' /\ Grows({p}, {}) /\ LogInv' /\ OneTopicPerRequest'
         /\ \A t \in Len(origin) + 1 .. Len(origin') :
              origin'[t].request = job[p].cur /\ origin'[t].by = p
         /\ made => NewTopic = Len(origin) + 1 /\ NewTopic = Len(origin')
         /\ Len(origin) <= Len(origin')
<1>1. /\ ChainType /\ MemoryType /\ MetInv /\ OneTopicPerRequest /\ RequestInv(p)
      /\ Lens /\ job[p].cur \in Nat \ {0}
  BY ChainLens, HandlingDoes DEF PollerInv, ProcInv, Handling
<1>2. /\ Len(origin) <= Len(origin') /\ Len(origin') <= MaxTopics
      /\ origin' \in Seq([request : Nat \ {0}, by : Procs])
      /\ \A t \in 1 .. Len(origin) : origin'[t] = origin[t]
      /\ \A t \in Len(origin) + 1 .. Len(origin') :
           origin'[t].request = job[p].cur /\ origin'[t].by = p
      /\ made => NewTopic = Len(origin) + 1 /\ NewTopic = Len(origin')
  <2>1. CASE made
    <3>1. MakeTopic(p)
      BY <2>1 DEF MayMake
    <3>2. /\ origin' \in Seq([request : Nat \ {0}, by : Procs])
          /\ Len(origin') = Len(origin) + 1 /\ Len(origin') <= MaxTopics
          /\ \A t \in 1 .. Len(origin) : origin'[t] = origin[t]
          /\ origin'[Len(origin) + 1] = [request |-> job[p].cur, by |-> p]
          /\ NewTopic = Len(origin) + 1
      BY <1>1, <3>1, MakeGrows
    <3>3. \A t \in Len(origin) + 1 .. Len(origin') : t = Len(origin) + 1
      BY <1>1, <3>2 DEF Lens
    <3>4. Len(origin) <= Len(origin')
      BY <1>1, <3>2 DEF Lens
    <3> QED
      BY <3>2, <3>3, <3>4
  <2>2. CASE ~made
    <3>1. origin' = origin
      BY <2>2 DEF MayMake
    <3> QED
      BY <1>1, <2>2, <3>1 DEF ChainType, Lens
  <2> QED
    BY <2>1, <2>2
<1>3. /\ inbound' \in Seq({"request", "own"}) /\ InboundGrows
      /\ announced \subseteq announced'
      /\ announced' \ announced \subseteq Len(origin) + 1 .. Len(origin')
      /\ announced' \subseteq 1 .. Len(origin')
  <2>1. CASE told
    <3>1. made /\ announced' = announced \cup {NewTopic} /\ inbound' = Append(inbound, "own")
      BY <2>1 DEF MayMake, Announce
    <3>2. inbound' \in Seq({"request", "own"}) /\ InboundGrows
      BY <1>1, <3>1, InboundAppend
    <3>3. NewTopic = Len(origin) + 1 /\ NewTopic = Len(origin')
      BY <1>2, <3>1
    <3>4. announced \subseteq 1 .. Len(origin) /\ Len(origin) \in Nat
      BY <1>1 DEF ChainType, Lens
    <3>5. NewTopic \in Len(origin) + 1 .. Len(origin') /\ NewTopic \in 1 .. Len(origin')
      BY <3>3, <3>4
    <3>6. 1 .. Len(origin) \subseteq 1 .. Len(origin')
      BY <3>3, <3>4
    <3>7. announced' \subseteq 1 .. Len(origin')
      BY <3>1, <3>4, <3>5, <3>6
    <3> QED
      BY <3>1, <3>2, <3>5, <3>7
  <2>2. CASE ~told
    <3>1. inbound' = inbound /\ announced' = announced
      BY <2>2 DEF MayMake
    <3>2. InboundGrows
      BY <1>1, <3>1, InboundSame
    <3>3. announced \subseteq 1 .. Len(origin) /\ Len(origin) \in Nat
      BY <1>1 DEF ChainType, Lens
    <3>4. 1 .. Len(origin) \subseteq 1 .. Len(origin')
      BY <1>2, <3>3, PollerAssumption, LenProperties
    <3> QED
      BY <1>1, <3>1, <3>2, <3>3, <3>4 DEF ChainType
  <2> QED
    BY <2>1, <2>2
<1>4. ChainType'
  BY <1>1, <1>2, <1>3 DEF ChainType, MayMake
<1>5. Lens'
  BY <1>4, NextLens
<1>6. Grows({p}, {})
  <2>1. LogGrows({})
    BY <1>1, LogSame DEF MayMake
  <2> QED
    BY <1>2, <1>3, <2>1 DEF Grows, OriginGrows
<1>7. LogInv'
  BY LogKeeps DEF PollerInv, MayMake
<1>8. OneTopicPerRequest'
  <2>1. OriginGrows({p}) /\ LogGrows({}) /\ met' = met
    BY <1>6 DEF Grows, MayMake
  <2>2. CASE told
    <3>1. announced' = announced \cup {NewTopic} /\ MakeTopic(p)
      BY <2>2 DEF MayMake, Announce
    <3> QED
      BY <1>1, <1>5, <2>1, <3>1, OneMakes
  <2>3. CASE ~told
    <3>1. announced' = announced
      BY <2>3 DEF MayMake
    <3> QED
      BY <1>1, <1>5, <2>1, <3>1, OneKeeps
  <2> QED
    BY <2>2, <2>3
<1> QED
  BY <1>2, <1>4, <1>6, <1>7, <1>8

LEMMA CreateFailsKeeps ==
  ASSUME PollerInv, NEW p \in Procs, NEW made \in BOOLEAN, NEW told \in BOOLEAN,
         CreateFails(p, made, told)
  PROVE  PollerInv'
<1>1. /\ p \in up /\ pc[p] = "create" /\ MayMake(p, made, told)
      /\ ResumeInbound(p, job[p].todo, watch[p])
      /\ mgr' = mgr /\ known' = known /\ session' = session
      /\ up' = up /\ spawned' = spawned /\ met' = met
  BY DEF CreateFails, MayMake
<1>2. /\ job[p].todo \in SUBSET Nat /\ job[p].cur \in inSeen[p]
      /\ job[p].todo \subseteq (1 .. Len(inbound)) \ inSeen[p]
  BY <1>1, HandlingDoes DEF Handling
<1>3. /\ ChainType /\ MemoryType /\ ChainType' /\ Grows({p}, {}) /\ LogInv'
      /\ OneTopicPerRequest'
      /\ \A t \in Len(origin) + 1 .. Len(origin') :
           origin'[t].request = job[p].cur /\ origin'[t].by = p
  BY <1>1, MakesTopic DEF PollerInv
<1>4. watch[p] \in SUBSET Topics
  BY <1>3 DEF MemoryType
<1>5. GreetInv'
  <2>1. \A q \in Procs, t \in Topics : GreetsNext(q, t) => Greets(q, t)
    BY <1>1, <1>2, <1>3, <1>4, InboundMoves
  <2>2. Lens /\ Lens'
    BY <1>3, ChainLens, NextLens
  <2>3. log' = log
    BY <1>1 DEF MayMake
  <2>4. \A t \in Topics : \A n \in Len(log[t]) + 1 .. Len(log'[t]) :
          log'[t][n].kind # "own"
    BY <2>2, <2>3 DEF Lens
  <2> QED
    BY <1>3, <2>1, <2>2, <2>4, GreetKeeps DEF PollerInv, Grows
<1>6. \A t \in Len(origin) + 1 .. Len(origin') : origin'[t].request \in inSeen[p]
  BY <1>2, <1>3
<1> QED
  BY <1>1, <1>2, <1>3, <1>4, <1>5, <1>6, InboundKeeps

LEMMA CreateKeeps ==
  ASSUME PollerInv, NEW p \in Procs, Create(p)
  PROVE  PollerInv'
<1>1. /\ p \in up /\ pc[p] = "create" /\ MayMake(p, TRUE, TRUE)
      /\ job' = [job EXCEPT ![p].topic = NewTopic]
      /\ pc' = [pc EXCEPT ![p] = "remember"] /\ announced' = announced \cup {NewTopic}
      /\ log' = log /\ mgr' = mgr /\ known' = known /\ watch' = watch /\ seen' = seen
      /\ inSeen' = inSeen /\ up' = up /\ spawned' = spawned /\ session' = session
      /\ met' = met
  BY DEF Create, MayMake, Announce
<1>2. /\ ChainType /\ MemoryType /\ MetInv /\ ProcInv(p) /\ up \subseteq spawned
  BY DEF PollerInv, ChainType
<1>3. /\ ChainType' /\ Grows({p}, {}) /\ LogInv' /\ OneTopicPerRequest'
      /\ \A t \in Len(origin) + 1 .. Len(origin') :
           origin'[t].request = job[p].cur /\ origin'[t].by = p
      /\ NewTopic = Len(origin) + 1 /\ NewTopic = Len(origin')
  BY <1>1, MakesTopic
<1>4. Lens /\ Lens'
  BY <1>2, <1>3, ChainLens, NextLens
<1>5. /\ origin'[NewTopic].request = job[p].cur /\ origin'[NewTopic].by = p
      /\ NewTopic \in announced' /\ NewTopic \in Nat /\ NewTopic \notin announced
      /\ announced \subseteq 1 .. Len(origin) /\ announced \subseteq announced'
  <2>1. Len(origin) \in Nat /\ announced \subseteq 1 .. Len(origin)
    BY <1>2, <1>4 DEF Lens, ChainType
  <2>2. NewTopic \in Len(origin) + 1 .. Len(origin') /\ NewTopic \in Nat
        /\ NewTopic \notin 1 .. Len(origin)
    BY <1>3, <2>1
  <2> QED
    BY <1>1, <1>3, <2>1, <2>2
<1>6. /\ job[p] \in Jobs /\ [job[p] EXCEPT !.topic = NewTopic] \in Jobs
      /\ job' = [job EXCEPT ![p] = [job[p] EXCEPT !.topic = NewTopic]]
  <2>1. job \in [Procs -> Jobs]
    BY <1>2 DEF MemoryType, Jobs
  <2>2. job[p] \in Jobs /\ NewTopic \in Nat
    BY <1>5, <2>1
  <2>3. [job[p] EXCEPT !.topic = NewTopic] \in Jobs
    BY <2>2 DEF Jobs
  <2> QED
    BY <1>1, <2>2, <2>3
<1>7. /\ pc'[p] = "remember" /\ job'[p].topic = NewTopic /\ job'[p].cur = job[p].cur
      /\ job'[p].todo = job[p].todo /\ job'[p].topics = job[p].topics
      /\ \A q \in Procs \ {p} : Same(q)
  <2> DEFINE next == [job[p] EXCEPT !.topic = NewTopic]
  <2>1. /\ next.topic = NewTopic /\ next.cur = job[p].cur /\ next.todo = job[p].todo
        /\ next.topics = job[p].topics /\ next \in Jobs
        /\ job' = [job EXCEPT ![p] = next]
    BY <1>6 DEF Jobs
  <2> HIDE DEF next
  <2>2. job'[p] = next /\ \A q \in Procs \ {p} : job'[q] = job[q]
    BY <1>2, <2>1 DEF MemoryType
  <2>3. pc'[p] = "remember" /\ \A q \in Procs \ {p} : pc'[q] = pc[q]
    BY <1>1, <1>2 DEF MemoryType
  <2> QED
    BY <1>1, <2>1, <2>2, <2>3 DEF Same
<1>8. MemoryType'
  <2>1. job' \in [Procs -> Jobs] /\ pc' \in [Procs -> Pcs]
    BY <1>1, <1>2, <1>6 DEF MemoryType, Jobs, Pcs
  <2>2. LoopType'
    BY <1>1, <1>2, <2>1 DEF MemoryType, LoopType
  <2>3. /\ mgr' \in [Procs -> SUBSET announced'] /\ known' \in [Procs -> SUBSET announced']
        /\ session' \in [Procs -> [Topics -> 0 .. MaxSessions]]
    BY <1>1, <1>2, <1>5 DEF MemoryType
  <2> QED
    BY <1>2, <1>5, <2>2, <2>3, MemoryKeeps
<1>9. MetInv'
  BY <1>1, <1>2 DEF MetInv
<1>10. GreetInv'
  <2>1. \A q \in Procs, t \in Topics :
          GreetsNext(q, t) => Greets(q, t) \/ t > Len(origin)
    BY <1>3, <1>4, <1>7 DEF GreetsNext, Greets, Same, Lens
  <2>2. \A t \in Topics : \A n \in Len(log[t]) + 1 .. Len(log'[t]) :
          log'[t][n].kind # "own"
    BY <1>1, <1>4 DEF Lens
  <2> QED
    BY <1>2, <1>3, <1>4, <2>1, <2>2, GreetKeeps DEF PollerInv, Grows
<1>11. LoopInv(p)'
  <2>1. 1 .. Len(inbound) \subseteq 1 .. Len(inbound')
    BY <1>3, <1>4 DEF Grows, InboundGrows, Lens
  <2> QED
    BY <1>1, <1>2, <1>5, <1>7, <2>1 DEF ProcInv, LoopInv, Handling
<1>12. RequestInv(p)'
  <2>1. \A t \in 1 .. Len(origin') : t \in 1 .. Len(origin) \/ t = NewTopic
    BY <1>3, <1>4 DEF Lens
  <2>2. \A t \in 1 .. Len(origin) : origin'[t] = origin[t]
    BY <1>3 DEF Grows, OriginGrows
  <2>3. job[p].cur \in inSeen[p]
    BY <1>1, <1>2 DEF ProcInv, LoopInv, Handling
  <2>4. Closed' = Closed
    BY <1>1 DEF Closed
  <2>5. ASSUME NEW t \in 1 .. Len(origin'), origin'[t].by = p
        PROVE  p \in spawned' /\ origin'[t].request \in inSeen'[p]
    BY <1>1, <1>2, <1>5, <2>1, <2>2, <2>3, <2>5 DEF ProcInv, RequestInv
  <2>6. ASSUME NEW t \in announced'
        PROVE  \/ t \in mgr'[p] \/ t \in Closed'
               \/ origin'[t].by = p \/ <<p, origin'[t].by>> \in met'
    BY <1>1, <1>2, <1>5, <2>2, <2>4, <2>6 DEF ProcInv, RequestInv
  <2> QED
    BY <1>7, <2>5, <2>6 DEF RequestInv
<1>13. WatchInv(p)'
  <2>1. NewTopic \in Topics
    BY <1>1 DEF MayMake, MakeTopic
  <2>2. session[p][NewTopic] = 0
    <3>1. session[p][NewTopic] \in 0 .. MaxSessions
      BY <1>2, <2>1 DEF MemoryType
    <3>2. ~(session[p][NewTopic] > 0)
      BY <1>2, <1>5, <2>1 DEF ProcInv, WatchInv
    <3> QED
      BY <3>1, <3>2
  <2> QED
    BY <1>1, <1>2, <1>5, <1>7, <2>2 DEF ProcInv, WatchInv, Handling
<1>14. AnsweredBy(p)'
  BY <1>1, <1>2, <1>7 DEF ProcInv, AnsweredBy
<1>15. ProcInv(p)' /\ Sound'
  BY <1>3, <1>8, <1>9, <1>10, <1>11, <1>12, <1>13, <1>14 DEF ProcInv, Sound
<1> QED
  BY <1>1, <1>3, <1>7, <1>15, StepOfOne
(* The greeting, which may not land.                                       *)
LEMMA GreetingKeeps ==
  ASSUME PollerInv, NEW p \in Procs, p \in up, pc[p] = "welcome", NEW landed \in BOOLEAN,
         log' = IF landed THEN [log EXCEPT ![job[p].topic] = Append(@, Post("own", p, 0))]
                          ELSE log,
         NEW watching \in SUBSET Topics, ResumeInbound(p, job[p].todo, watching),
         watch[p] \subseteq watching, watching \subseteq watch[p] \cup {job[p].topic},
         inbound' = inbound, origin' = origin, announced' = announced,
         mgr' = mgr, known' = known, session' = session,
         up' = up, spawned' = spawned, met' = met
  PROVE  PollerInv'
<1> DEFINE t == job[p].topic
           e == Post("own", p, 0)
<1>1. ChainType /\ MemoryType /\ ProcInv(p) /\ Lens
  BY ChainLens DEF PollerInv
<1>2. /\ job[p].todo \in SUBSET Nat
      /\ job[p].todo \subseteq (1 .. Len(inbound)) \ inSeen[p]
  BY HandlingDoes DEF Handling
<1>3. t \in announced /\ t \in Topics /\ origin[t].by = p /\ Greets(p, t)
  <2>1. t \in announced /\ origin[t].by = p
    BY <1>1 DEF ProcInv, LoopInv
  <2>2. t \in Topics
    BY <1>1, <2>1, AnnouncedTopics
  <2> QED
    BY <2>1, <2>2 DEF Greets
<1>4. session[p][t] = 0
  BY <1>1 DEF ProcInv, WatchInv
<1>5. \A q \in Procs, u \in Topics : GreetsNext(q, u) => q # p /\ Greets(q, u)
  BY <1>1, <1>2, InboundMoves
<1>6. e \in Messages /\ e.kind = "own"
  BY DEF Messages, Greeted, Post
<1> HIDE DEF t, e
<1>7. CASE ~landed
  <2>1. log' = log
    BY <1>7
  <2>2. ChainType'
    BY <1>1, <2>1 DEF ChainType
  <2>3. Lens'
    BY <2>2, NextLens
  <2>4. Grows({p}, {})
    BY <1>1, <2>1, InboundSame, OriginSame, LogSame DEF Grows
  <2>5. LogInv' /\ OneTopicPerRequest'
    BY <1>1, <2>1, <2>3, <2>4, LogKeeps, OneKeeps DEF PollerInv, Grows
  <2>6. \A u \in Topics : \A n \in Len(log[u]) + 1 .. Len(log'[u]) :
          log'[u][n].kind # "own"
    BY <1>1, <2>1 DEF Lens
  <2>7. GreetInv'
    BY <1>1, <1>5, <2>3, <2>4, <2>6, GreetKeeps DEF PollerInv, Grows
  <2>8. \A u \in Len(origin) + 1 .. Len(origin') : origin'[u].request \in inSeen[p]
    BY <1>1 DEF Lens
  <2>9. \A u \in watching \ watch[p] : session[p][u] = 0
    BY <1>4 DEF t
  <2> QED
    BY <1>2, <2>2, <2>4, <2>5, <2>7, <2>8, <2>9, InboundKeeps
<1>8. CASE landed
  <2>1. log' = [log EXCEPT ![t] = Append(@, e)]
    BY <1>8 DEF t, e
  <2>2. log' \in [Topics -> Seq(Messages)] /\ LogGrows({})
    BY <1>1, <1>3, <1>6, <2>1, LogAppend
  <2>3. ChainType'
    BY <1>1, <2>2 DEF ChainType
  <2>4. Lens'
    BY <2>3, NextLens
  <2>5. Grows({p}, {})
    BY <1>1, <2>2, InboundSame, OriginSame DEF Grows
  <2>6. LogInv'
    BY <1>1, <1>3, <1>6, <2>1, LogAppends DEF PollerInv
  <2>7. OneTopicPerRequest'
    BY <1>1, <2>4, <2>5, OneKeeps DEF PollerInv, Grows
  <2>8. GreetInv'
    <3>1. log' = [log EXCEPT ![t] = Append(@, Post("own", p, 0))]
      BY <2>1 DEF e
    <3> QED
      BY <1>1, <1>3, <1>5, <2>4, <3>1, GreetAppends DEF PollerInv
  <2>9. \A u \in Len(origin) + 1 .. Len(origin') : origin'[u].request \in inSeen[p]
    BY <1>1 DEF Lens
  <2>10. \A u \in watching \ watch[p] : session[p][u] = 0
    BY <1>4 DEF t
  <2> QED
    BY <1>2, <2>3, <2>5, <2>6, <2>7, <2>8, <2>9, <2>10, InboundKeeps
<1> QED
  BY <1>7, <1>8

LEMMA WelcomeKeeps ==
  ASSUME PollerInv, NEW p \in Procs, Welcome(p)
  PROVE  PollerInv'
<1> DEFINE watching == watch[p] \cup {job[p].topic}
<1>1. /\ p \in up /\ pc[p] = "welcome"
      /\ log' = IF TRUE THEN [log EXCEPT ![job[p].topic] = Append(@, Post("own", p, 0))]
                        ELSE log
      /\ ResumeInbound(p, job[p].todo, watching)
      /\ inbound' = inbound /\ origin' = origin /\ announced' = announced
      /\ mgr' = mgr /\ known' = known /\ session' = session
      /\ up' = up /\ spawned' = spawned /\ met' = met
  BY DEF Welcome
<1>2. job[p].topic \in announced
  BY <1>1 DEF PollerInv, ProcInv, LoopInv
<1>3. job[p].topic \in Topics
  BY <1>2, AnnouncedTopics DEF PollerInv
<1>4. watching \in SUBSET Topics
  BY <1>3 DEF PollerInv, MemoryType
<1> QED
  BY <1>1, <1>4, GreetingKeeps

LEMMA WelcomeFailsKeeps ==
  ASSUME PollerInv, NEW p \in Procs, NEW landed \in BOOLEAN, WelcomeFails(p, landed)
  PROVE  PollerInv'
<1>1. /\ p \in up /\ pc[p] = "welcome"
      /\ log' = IF landed THEN [log EXCEPT ![job[p].topic] = Append(@, Post("own", p, 0))]
                          ELSE log
      /\ ResumeInbound(p, job[p].todo, watch[p])
      /\ inbound' = inbound /\ origin' = origin /\ announced' = announced
      /\ mgr' = mgr /\ known' = known /\ session' = session
      /\ up' = up /\ spawned' = spawned /\ met' = met
  BY DEF WelcomeFails
<1>2. watch[p] \in SUBSET Topics
  BY DEF PollerInv, MemoryType
<1> QED
  BY <1>1, <1>2, GreetingKeeps
-----------------------------------------------------------------------------
(* The steps that go on with a connection topic.                           *)
LEMMA TopicKeeps ==
  ASSUME PollerInv, NEW p \in Procs, p \in up, pc[p] \in {"topics", "answer"},
         NEW t \in Topics, t \in job[p].topics, NEW todo \in SUBSET Nat,
         todo \subseteq (1 .. Len(log[t])) \ seen[p][t],
         LoopType', known' \in [Procs -> SUBSET announced],
         \A q \in Procs \ {p} : LoopSame(q) /\ known'[q] = known[q],
         TopicDone(p, t, todo) \/ PromptBegins(p, t, todo),
         inbound' = inbound, origin' = origin, announced' = announced,
         mgr' = mgr, inSeen' = inSeen, session' = session,
         up' = up, spawned' = spawned, met' = met,
         log' \in [Topics -> Seq(Messages)], LogGrows({p}), LogInv',
         \A u \in Topics : \A n \in Len(log[u]) + 1 .. Len(log'[u]) :
           /\ u = t /\ job[p].cur \in seen[p][t]
           /\ log'[u][n] = Post("reply", <<p, session[p][t]>>, job[p].cur)
  PROVE  PollerInv'
<1>1. ChainType /\ MemoryType /\ MetInv /\ ProcInv(p)
  BY DEF PollerInv
<1>2. ChainType'
  BY <1>1 DEF ChainType
<1>3. Lens /\ Lens'
  BY <1>1, <1>2, ChainLens, NextLens
<1>4. Grows({}, {p})
  BY <1>1, InboundSame, OriginSame DEF Grows
<1>5. TopicResumes(p, t, todo)
  BY DEF TopicResumes
<1>6. ProcInv(p)'
  BY <1>1, <1>2, <1>5, ProcAfterTopic
<1>7. MemoryType'
  BY <1>1, MemoryKeeps DEF MemoryType
<1>8. \A q \in Procs \ {p} : Same(q)
  BY DEF LoopSame, Same
<1>9. OneTopicPerRequest'
  BY <1>1, <1>3, <1>4, OneKeeps DEF PollerInv, Grows
<1>10. GreetInv'
  <2>1. pc'[p] \notin {"remember", "welcome"}
    BY DEF TopicDone, PromptBegins
  <2>2. \A q \in Procs, u \in Topics : GreetsNext(q, u) => Greets(q, u)
    BY <1>8, <2>1 DEF GreetsNext, Greets, Same
  <2>3. \A u \in Topics : \A n \in Len(log[u]) + 1 .. Len(log'[u]) :
          log'[u][n].kind # "own"
    BY DEF Post
  <2> QED
    BY <1>1, <1>3, <1>4, <2>2, <2>3, GreetKeeps DEF PollerInv, Grows
<1>11. Sound'
  BY <1>1, <1>2, <1>7, <1>9, <1>10 DEF Sound, MetInv
<1> QED
  BY <1>4, <1>6, <1>8, <1>11, StepOfOne

(* The case that the log stays as it is.                                   *)
LEMMA TopicOnly ==
  ASSUME PollerInv, NEW p \in Procs, p \in up, pc[p] \in {"topics", "answer"},
         NEW t \in Topics, t \in job[p].topics, NEW todo \in SUBSET Nat,
         todo \subseteq (1 .. Len(log[t])) \ seen[p][t],
         LoopType', known' \in [Procs -> SUBSET announced],
         \A q \in Procs \ {p} : LoopSame(q) /\ known'[q] = known[q],
         TopicDone(p, t, todo) \/ PromptBegins(p, t, todo),
         chainVars' = chainVars, mgr' = mgr, inSeen' = inSeen, session' = session,
         up' = up, spawned' = spawned, met' = met
  PROVE  PollerInv'
<1>1. /\ inbound' = inbound /\ log' = log /\ origin' = origin /\ announced' = announced
      /\ ChainType /\ Lens
  BY ChainLens DEF chainVars, PollerInv
<1>2. log' \in [Topics -> Seq(Messages)] /\ LogGrows({p}) /\ LogInv'
  BY <1>1, LogSame, LogKeeps DEF ChainType, PollerInv
<1>3. \A u \in Topics : \A n \in Len(log[u]) + 1 .. Len(log'[u]) : FALSE
  BY <1>1 DEF Lens
<1> QED
  BY <1>1, <1>2, <1>3, TopicKeeps

LEMMA ReadTopicKeeps ==
  ASSUME PollerInv, NEW p \in Procs, NEW t \in Topics, ReadTopic(p, t)
  PROVE  PollerInv'
<1> DEFINE todo == Unread(p, t)
<1>1. /\ p \in up /\ pc[p] = "topics" /\ t \in job[p].topics
      /\ ResumeTopic(p, t, todo) /\ chainVars' = chainVars /\ mgr' = mgr
      /\ inSeen' = inSeen /\ session' = session
      /\ up' = up /\ spawned' = spawned /\ met' = met
  BY DEF ReadTopic
<1>2. /\ todo = (1 .. Len(log[t])) \ seen[p][t] /\ todo \in SUBSET Nat
      /\ LoopType /\ KnownType
  BY ChainLens, LoopTypes DEF PollerInv, Lens, Unread, KnownType, MemoryType
<1> HIDE DEF todo
<1>3. /\ LoopType' /\ known' \in [Procs -> SUBSET announced]
      /\ \A q \in Procs \ {p} : LoopSame(q) /\ known'[q] = known[q]
      /\ TopicDone(p, t, todo) \/ PromptBegins(p, t, todo)
  BY <1>1, <1>2, ResumeTopicDoes
<1> QED
  BY <1>1, <1>2, <1>3, TopicOnly

LEMMA ReadTopicFailsKeeps ==
  ASSUME PollerInv, NEW p \in Procs, NEW t \in Topics, NEW invalid \in BOOLEAN,
         ReadTopicFails(p, t, invalid)
  PROVE  PollerInv'
<1>1. /\ p \in up /\ pc[p] = "topics" /\ t \in job[p].topics
      /\ IF invalid THEN Drop(p, t) ELSE known' = known /\ watch' = watch /\ seen' = seen
      /\ NextTopic(p, t) /\ chainVars' = chainVars /\ mgr' = mgr
      /\ inSeen' = inSeen /\ session' = session
      /\ up' = up /\ spawned' = spawned /\ met' = met
  BY DEF ReadTopicFails
<1>2. LoopType /\ KnownType
  BY LoopTypes DEF PollerInv, KnownType, MemoryType
<1>3. /\ job' \in [Procs -> Jobs] /\ pc' \in [Procs -> Pcs]
      /\ job'[p].topics = job[p].topics \ {t} /\ pc'[p] \in {"refresh", "topics"}
      /\ \A q \in Procs \ {p} : job'[q] = job[q] /\ pc'[q] = pc[q]
  BY <1>1, <1>2, NextTopicDoes
<1>4. /\ LoopType' /\ known' \in [Procs -> SUBSET announced]
      /\ \A q \in Procs \ {p} : LoopSame(q) /\ known'[q] = known[q]
      /\ TopicDone(p, t, {})
  <2>1. CASE invalid
    <3>1. /\ watch' \in [Procs -> SUBSET Topics]
          /\ known' \in [Procs -> SUBSET announced]
          /\ seen' \in [Procs -> [Topics -> SUBSET Nat]]
          /\ watch'[p] = watch[p] \ {t} /\ known'[p] = known[p] \ {t}
          /\ seen'[p][t] = {} /\ \A u \in Topics \ {t} : seen'[p][u] = seen[p][u]
          /\ \A q \in Procs \ {p} : /\ watch'[q] = watch[q] /\ known'[q] = known[q]
                                    /\ seen'[q] = seen[q]
      BY <1>1, <1>2, <2>1, DropDoes
    <3>2. TopicDone(p, t, {})
      BY <1>3, <3>1 DEF TopicDone
    <3> QED
      BY <1>1, <1>2, <1>3, <3>1, <3>2 DEF LoopType, LoopSame
  <2>2. CASE ~invalid
    <3>1. known' = known /\ watch' = watch /\ seen' = seen
      BY <1>1, <2>2
    <3>2. TopicDone(p, t, {})
      BY <1>3, <3>1 DEF TopicDone
    <3> QED
      BY <1>1, <1>2, <1>3, <3>1, <3>2 DEF LoopType, LoopSame, KnownType
  <2> QED
    BY <2>1, <2>2
<1>5. {} \in SUBSET Nat /\ {} \subseteq (1 .. Len(log[t])) \ seen[p][t]
  OBVIOUS
<1> QED
  BY <1>1, <1>4, <1>5, TopicOnly

LEMMA AnswerKeeps ==
  ASSUME PollerInv, NEW p \in Procs, NEW landed \in BOOLEAN, Answer(p, landed)
  PROVE  PollerInv'
<1> DEFINE t == job[p].topic
           todo == job[p].todo
           e == Post("reply", <<p, session[p][t]>>, job[p].cur)
<1>1. /\ p \in up /\ pc[p] = "answer" /\ ResumeTopic(p, t, todo)
      /\ log' = IF landed THEN [log EXCEPT ![t] = Append(@, e)] ELSE log
      /\ inbound' = inbound /\ origin' = origin /\ announced' = announced
      /\ mgr' = mgr /\ inSeen' = inSeen /\ session' = session
      /\ up' = up /\ spawned' = spawned /\ met' = met
  BY DEF Answer
<1>2. ChainType /\ MemoryType /\ ProcInv(p) /\ Lens /\ LoopType /\ KnownType
  BY ChainLens, LoopTypes DEF PollerInv, KnownType, MemoryType
<1>3. /\ t \in job[p].topics /\ job[p].cur \in seen[p][t]
      /\ log[t][job[p].cur].kind = "prompt"
      /\ todo \subseteq (1 .. Len(log[t])) \ seen[p][t]
  BY <1>1, <1>2 DEF ProcInv, LoopInv
<1>4. t \in Topics /\ todo \in SUBSET Nat
  BY <1>2, <1>3 DEF LoopType, Jobs
<1>5. job[p].cur \in 1 .. Len(log[t]) /\ session[p][t] \in Nat
  BY <1>2, <1>3, <1>4, PollerAssumption DEF ProcInv, LoopInv, MemoryType
<1>6. /\ e \in Messages /\ e.kind = "reply" /\ e.by = <<p, session[p][t]>>
      /\ e.re = job[p].cur /\ e.by[1] \in {p}
  BY <1>2, <1>5 DEF Messages, Answered, Post, Lens
<1>7. \A m \in 1 .. Len(log[t]) : log[t][m] # e
  <2> SUFFICES ASSUME NEW m \in 1 .. Len(log[t]), log[t][m] = e
               PROVE  FALSE
    OBVIOUS
  <2>1. t \in watch[p]
    BY <1>2, <1>3 DEF ProcInv, LoopInv
  <2> HIDE DEF e
  <2> QED
    BY <1>1, <1>2, <1>4, <1>5, <1>6, <2>1 DEF ProcInv, AnsweredBy
<1>8. /\ LoopType' /\ known' \in [Procs -> SUBSET announced]
      /\ \A q \in Procs \ {p} : LoopSame(q) /\ known'[q] = known[q]
      /\ TopicDone(p, t, todo) \/ PromptBegins(p, t, todo)
  BY <1>1, <1>2, <1>4, ResumeTopicDoes
<1>9. CASE ~landed
  <2>1. chainVars' = chainVars
    BY <1>1, <1>9 DEF chainVars
  <2> QED
    BY <1>1, <1>3, <1>4, <1>8, <2>1, TopicOnly
<1>10. CASE landed
  <2> HIDE DEF e
  <2>1. log' = [log EXCEPT ![t] = Append(@, e)]
    BY <1>1, <1>10
  <2>2. /\ log' \in [Topics -> Seq(Messages)] /\ LogGrows({p})
        /\ Len(log'[t]) = Len(log[t]) + 1 /\ log'[t][Len(log[t]) + 1] = e
        /\ \A u \in Topics \ {t} : log'[u] = log[u]
    BY <1>2, <1>4, <1>6, <2>1, LogAppend
  <2>3. LogInv'
    BY <1>2, <1>3, <1>4, <1>5, <1>6, <1>7, <2>1, LogAppends DEF PollerInv
  <2>4. \A u \in Topics : \A n \in Len(log[u]) + 1 .. Len(log'[u]) :
          /\ u = t /\ job[p].cur \in seen[p][t]
          /\ log'[u][n] = Post("reply", <<p, session[p][t]>>, job[p].cur)
    <3> SUFFICES ASSUME NEW u \in Topics, NEW n \in Len(log[u]) + 1 .. Len(log'[u])
                 PROVE  u = t /\ n = Len(log[t]) + 1
      BY <1>3, <2>2 DEF e
    <3> QED
      BY <1>2, <2>2 DEF Lens
  <2> QED
    BY <1>1, <1>3, <1>4, <1>8, <2>2, <2>3, <2>4, TopicKeeps
<1> QED
  BY <1>9, <1>10
-----------------------------------------------------------------------------
(* The steps of AgentPoller, and those that Chat adds for its users.       *)
PollerStep ==
  \/ SubmitRequest
  \/ \E t \in Topics, kind \in {"prompt", "close", "other"} : SendMessage(t, kind)
  \/ \E p \in Procs : Spawn(p) \/ Stop(p) \/ Loop(p)

LEMMA LoopKeepsInv ==
  ASSUME PollerInv, NEW p \in Procs, Loop(p)
  PROVE  PollerInv'
<1>1. CASE \E l \in Listings : Load(p, l) \/ Refresh(p, l) \/ Remember(p, l)
  BY <1>1, LoadKeeps, RememberKeeps
<1>2. CASE ReadInbound(p) \/ ReadInboundFails(p)
  BY <1>2, ReadInboundKeeps, ReadInboundFailsKeeps
<1>3. CASE Create(p) \/ \E made, told \in BOOLEAN : CreateFails(p, made, told)
  BY <1>3, CreateKeeps, CreateFailsKeeps
<1>4. CASE RememberFails(p)
  BY <1>4, RememberFailsKeeps
<1>5. CASE Welcome(p) \/ \E landed \in BOOLEAN : WelcomeFails(p, landed)
  BY <1>5, WelcomeKeeps, WelcomeFailsKeeps
<1>6. CASE \E t \in Topics : \/ ReadTopic(p, t)
                             \/ \E invalid \in BOOLEAN : ReadTopicFails(p, t, invalid)
  BY <1>6, ReadTopicKeeps, ReadTopicFailsKeeps
<1>7. CASE \E landed \in BOOLEAN : Answer(p, landed)
  BY <1>7, AnswerKeeps
<1> QED
  BY <1>1, <1>2, <1>3, <1>4, <1>5, <1>6, <1>7 DEF Loop

LEMMA StepKeeps ==
  ASSUME PollerInv, PollerStep \/ UNCHANGED vars
  PROVE  PollerInv'
<1>1. CASE UNCHANGED vars
  <2>1. /\ chainVars' = chainVars /\ PollerSame /\ up' = up /\ spawned' = spawned
        /\ met' = met
    BY <1>1 DEF vars, procVars, PollerSame
  <2>2. /\ inbound' = inbound /\ log' = log /\ origin' = origin
        /\ announced' = announced /\ ChainType
    BY <2>1 DEF chainVars, PollerInv
  <2>3. Grows({}, {})
    BY <2>2, InboundSame, OriginSame, LogSame DEF Grows
  <2>4. ChainType'
    BY <2>1, <2>2 DEF ChainType
  <2>5. MemoryType' /\ MetInv'
    BY <2>1, <2>2 DEF PollerInv, MemoryType, MetInv, PollerSame
  <2>6. LogInv' /\ GreetInv'
    BY <2>1, <2>2 DEF PollerInv, LogInv, GreetInv, PollerSame
  <2>7. OneTopicPerRequest'
    BY <2>1, <2>2 DEF PollerInv, OneTopicPerRequest, Closed
  <2> QED
    BY <2>1, <2>3, <2>4, <2>5, <2>6, <2>7, StepOfNone DEF Sound
<1>2. CASE SubmitRequest
  BY <1>2, SubmitKeeps
<1>3. CASE \E t \in Topics, kind \in {"prompt", "close", "other"} : SendMessage(t, kind)
  BY <1>3, SendKeeps
<1>4. CASE \E p \in Procs : Spawn(p) \/ Stop(p) \/ Loop(p)
  BY <1>4, SpawnKeeps, StopKeeps, LoopKeepsInv
<1> QED
  BY <1>1, <1>2, <1>3, <1>4 DEF PollerStep

LEMMA InitInv == Init => PollerInv
<1> SUFFICES ASSUME Init
             PROVE  PollerInv
  OBVIOUS
<1>1. /\ inbound = <<>> /\ origin = <<>> /\ announced = {}
      /\ log = [t \in Topics |-> <<>>] /\ up = {} /\ spawned = {}
      /\ pc = [p \in Procs |-> "load"] /\ mgr = [p \in Procs |-> {}]
      /\ known = [p \in Procs |-> {}] /\ watch = [p \in Procs |-> {}]
      /\ seen = [p \in Procs |-> [t \in Topics |-> {}]]
      /\ inSeen = [p \in Procs |-> {}] /\ job = [p \in Procs |-> NoJob]
      /\ session = [p \in Procs |-> [t \in Topics |-> 0]] /\ met = {}
  BY DEF Init
<1>2. \A S : <<>> \in Seq(S) /\ Len(<<>>) = 0
  BY EmptySeq
<1>3. ChainType
  BY <1>1, <1>2, PollerAssumption DEF ChainType
<1>4. \A t \in Topics : Len(log[t]) = 0
  BY <1>1, <1>2
<1>5. \A t \in Topics : 1 .. Len(log[t]) = {}
  BY <1>4
<1>6. MemoryType
  <2>1. [t \in Topics |-> {}] \in [Topics -> SUBSET Nat]
    OBVIOUS
  <2>2. [t \in Topics |-> 0] \in [Topics -> 0 .. MaxSessions]
    BY PollerAssumption
  <2>3. NoJob \in [todo : SUBSET Nat, cur : Nat, topic : Nat, topics : SUBSET Topics]
    BY NoJobType DEF Jobs
  <2> QED
    BY <1>1, <2>1, <2>2, <2>3 DEF MemoryType
<1>7. MetInv
  BY <1>1 DEF MetInv
<1>8. LogInv /\ GreetInv
  BY <1>5 DEF LogInv, GreetInv
<1>9. OneTopicPerRequest
  BY <1>1 DEF OneTopicPerRequest
<1>10. 1 .. Len(origin) = {}
  BY <1>1, <1>2
<1>11. ASSUME NEW p \in Procs
       PROVE  ProcInv(p)
  <2>1. /\ pc[p] = "load" /\ mgr[p] = {} /\ known[p] = {} /\ watch[p] = {}
        /\ inSeen[p] = {} /\ job[p].topics = {} /\ \A t \in Topics : seen[p][t] = {}
        /\ \A t \in Topics : session[p][t] = 0
    BY <1>1, NoJobType
  <2>2. LoopInv(p)
    BY <2>1 DEF LoopInv, Handling
  <2>3. RequestInv(p)
    BY <1>10, <2>1 DEF RequestInv
  <2>4. WatchInv(p)
    BY <2>1 DEF WatchInv
  <2>5. AnsweredBy(p)
    BY <1>5 DEF AnsweredBy
  <2> QED
    BY <2>2, <2>3, <2>4, <2>5 DEF ProcInv
<1> QED
  BY <1>3, <1>6, <1>7, <1>8, <1>9, <1>11 DEF PollerInv

LEMMA NextSteps == Next => PollerStep
  BY PollerAssumption DEF Next, PollerStep

LEMMA PollerInvariant == Spec => []PollerInv
<1>1. PollerInv /\ [Next]_vars => PollerInv'
  BY StepKeeps, NextSteps
<1> QED
  BY <1>1, InitInv, PTL DEF Spec

LEMMA InvTypes == PollerInv => TypeOK
<1> SUFFICES ASSUME PollerInv
             PROVE  TypeOK
  OBVIOUS
<1>1. ChainType /\ MemoryType /\ Lens /\ \A p \in Procs : LoopInv(p)
  BY ChainLens DEF PollerInv, ProcInv
<1>2. DOMAIN inbound = 1 .. Len(inbound) /\ DOMAIN log = Topics
  BY <1>1, LenProperties DEF ChainType
<1>3. ASSUME NEW p \in Procs
      PROVE  /\ inSeen[p] \subseteq DOMAIN inbound
             /\ \A t \in Topics : /\ seen[p][t] \subseteq DOMAIN log[t]
                                  /\ t \notin watch[p] => seen[p][t] = {}
             /\ job[p].topics \subseteq watch[p]
             /\ pc[p] = "answer" => /\ job[p].topic \in job[p].topics
                                    /\ job[p].cur \in seen[p][job[p].topic]
  BY <1>1, <1>2 DEF LoopInv, Lens
<1> QED
  BY <1>1, <1>2, <1>3 DEF TypeOK, ChainType, MemoryType

(* Types, and that a process forgets a topic and what it read there        *)
(* together, whatever the bounds.                                          *)
THEOREM TypeCorrect == Spec => []TypeOK
  BY PollerInvariant, InvTypes, PTL

(* A request gets one announced topic through every crash and restart,     *)
(* save from processes that ran at the same time or once it was closed.    *)
THEOREM RequestsGetOneTopic == Spec => []OneTopicPerRequest
<1>1. PollerInv => OneTopicPerRequest
  BY DEF PollerInv
<1> QED
  BY <1>1, PollerInvariant, PTL
-----------------------------------------------------------------------------
(* The promise to the users: a step posts a prompt, answers one, or adds   *)
(* nothing that PromptService speaks of.                                   *)
Watchers == Procs \X (1 .. MaxSessions)
AllPrompts == Topics \X Serials
PostedPrompts ==
  {q \in AllPrompts : q[2] \in DOMAIN log[q[1]] /\ log[q[1]][q[2]].kind = "prompt"}
GivenAnswers ==
  [w \in Watchers |-> [q \in AllPrompts |-> Answers(w[1], w[2], q[1], q[2])]]

Adds(t, e) == log' = [log EXCEPT ![t] = Append(@, e)]

LEMMA LoopAdds ==
  ASSUME PollerInv, NEW p \in Procs, Loop(p)
  PROVE  log' = log \/ \E t \in Topics : \E e \in Messages : Adds(t, e)
<1>1. MemoryType /\ ChainType /\ ProcInv(p) /\ LoopType
  BY LoopTypes DEF PollerInv
<1>2. CASE Welcome(p) \/ \E landed \in BOOLEAN : WelcomeFails(p, landed)
  <2>1. /\ pc[p] = "welcome"
        /\ log' = log \/ Adds(job[p].topic, Post("own", p, 0))
    BY <1>2 DEF Welcome, WelcomeFails, Adds
  <2>2. job[p].topic \in Topics
    BY <1>1, <2>1, AnnouncedTopics DEF ProcInv, LoopInv
  <2>3. Post("own", p, 0) \in Messages
    BY DEF Messages, Greeted, Post
  <2> QED
    BY <2>1, <2>2, <2>3
<1>3. CASE \E landed \in BOOLEAN : Answer(p, landed)
  <2> DEFINE t == job[p].topic
             e == Post("reply", <<p, session[p][t]>>, job[p].cur)
  <2>1. pc[p] = "answer" /\ (log' = log \/ Adds(t, e))
    BY <1>3 DEF Answer, Adds
  <2>2. t \in Topics
    BY <1>1, <2>1 DEF ProcInv, LoopInv, LoopType, Jobs
  <2>3. session[p][t] \in Nat /\ job[p].cur \in Nat
    BY <1>1, <2>2, PollerAssumption DEF MemoryType
  <2>4. e \in Messages
    BY <2>3 DEF Messages, Answered, Post
  <2> HIDE DEF t, e
  <2> QED
    BY <2>1, <2>2, <2>4
<1>4. CASE \E l \in Listings : Load(p, l) \/ Refresh(p, l) \/ Remember(p, l)
  BY <1>4 DEF Load, Refresh, Remember, chainVars
<1>5. CASE ReadInbound(p) \/ ReadInboundFails(p) \/ RememberFails(p)
  BY <1>5 DEF ReadInbound, ReadInboundFails, RememberFails, chainVars
<1>6. CASE Create(p) \/ \E made, told \in BOOLEAN : CreateFails(p, made, told)
  BY <1>6 DEF Create, CreateFails
<1>7. CASE \E t \in Topics : \/ ReadTopic(p, t)
                             \/ \E invalid \in BOOLEAN : ReadTopicFails(p, t, invalid)
  BY <1>7 DEF ReadTopic, ReadTopicFails, chainVars
<1> QED
  BY <1>2, <1>3, <1>4, <1>5, <1>6, <1>7 DEF Loop

LEMMA StepAdds ==
  ASSUME PollerInv, PollerStep \/ UNCHANGED vars
  PROVE  log' = log \/ \E t \in Topics : \E e \in Messages : Adds(t, e)
<1>1. CASE UNCHANGED vars \/ SubmitRequest \/ \E p \in Procs : Spawn(p) \/ Stop(p)
  BY <1>1 DEF vars, chainVars, SubmitRequest, Spawn, Stop
<1>2. CASE \E t \in Topics, kind \in {"prompt", "close", "other"} : SendMessage(t, kind)
  <2>1. PICK t \in Topics, kind \in {"prompt", "close", "other"} : SendMessage(t, kind)
    BY <1>2
  <2>2. Post(kind, "user", 0) \in Messages
    BY DEF Messages, Said, Post
  <2> QED
    BY <2>1, <2>2 DEF SendMessage, Adds
<1>3. CASE \E p \in Procs : Loop(p)
  BY <1>3, LoopAdds
<1> QED
  BY <1>1, <1>2, <1>3 DEF PollerStep

(* An added message is the only one of its kind.                           *)
LEMMA AddsDoes ==
  ASSUME PollerInv, PollerInv', NEW t \in Topics, NEW e \in Messages, Adds(t, e)
  PROVE  /\ DOMAIN log'[t] = DOMAIN log[t] \cup {Len(log[t]) + 1}
         /\ Len(log[t]) + 1 \notin DOMAIN log[t]
         /\ \A m \in DOMAIN log[t] : log'[t][m] = log[t][m]
         /\ log'[t][Len(log[t]) + 1] = e
         /\ \A u \in Topics \ {t} : log'[u] = log[u]
         /\ e.kind = "prompt" => Len(log[t]) + 1 \in Serials
         /\ e.kind = "reply" =>
              /\ e.by \in Watchers /\ e = Post("reply", e.by, e.re)
              /\ e.re \in DOMAIN log[t] /\ log[t][e.re].kind = "prompt"
              /\ <<t, e.re>> \in PostedPrompts
              /\ \A m \in DOMAIN log[t] : log[t][m] # e
<1> DEFINE N == Len(log[t])
<1>1. Lens /\ Lens' /\ ChainType /\ LogInv /\ LogInv' /\ MemoryType'
  BY ChainLens, NextLens DEF PollerInv
<1>2. /\ Len(log'[t]) = N + 1 /\ log'[t][N + 1] = e /\ LogGrows(Procs)
      /\ \A u \in Topics \ {t} : log'[u] = log[u]
  BY <1>1, LogAppend DEF Adds, Messages, Said, Greeted, Answered
<1>3. DOMAIN log[t] = 1 .. N /\ DOMAIN log'[t] = 1 .. (N + 1) /\ N \in Nat
  BY <1>1, <1>2 DEF Lens
<1>4. /\ DOMAIN log'[t] = DOMAIN log[t] \cup {N + 1} /\ N + 1 \notin DOMAIN log[t]
  BY <1>3
<1>5. \A m \in DOMAIN log[t] : log'[t][m] = log[t][m]
  BY <1>2, <1>3 DEF LogGrows
<1>6. e.kind = "prompt" => N + 1 \in Serials
  <2>1. e.kind = "prompt" => N + 1 <= MaxMessages
    BY <1>1, <1>2, <1>3 DEF LogInv
  <2> QED
    BY <1>3, <2>1, PollerAssumption DEF Serials
<1>7. ASSUME e.kind = "reply"
      PROVE  /\ e.by \in Watchers /\ e = Post("reply", e.by, e.re)
             /\ e.re \in DOMAIN log[t] /\ log[t][e.re].kind = "prompt"
             /\ <<t, e.re>> \in PostedPrompts
             /\ \A m \in DOMAIN log[t] : log[t][m] # e
  <2>1. e \in Answered
    BY <1>7 DEF Messages, Said, Greeted
  <2>2. e = Post("reply", e.by, e.re) /\ e.by \in Procs \X Nat /\ e.re \in Nat
    BY <2>1 DEF Answered, Post
  <2>3. N + 1 \in 1 .. Len(log'[t])
    BY <1>2, <1>3
  <2>4. /\ e.re \in 1 .. (N + 1 - 1) /\ log'[t][e.re].kind = "prompt"
        /\ \A m \in 1 .. Len(log'[t]) : log'[t][m] = e => m = N + 1
    BY <1>1, <1>2, <1>7, <2>3 DEF LogInv
  <2>5. e.re \in DOMAIN log[t] /\ log[t][e.re].kind = "prompt"
    BY <1>3, <1>5, <2>4
  <2>6. \A m \in DOMAIN log[t] : log[t][m] # e
    BY <1>3, <1>4, <1>5, <2>3, <2>4, <1>2
  <2>7. e.by \in Watchers
    <3>1. PICK p \in Procs, k \in Nat : e.by = <<p, k>>
      BY <2>2
    <3>2. AnsweredBy(p)'
      BY DEF PollerInv, ProcInv
    <3>3. k \in 1 .. session'[p][t]
      BY <1>2, <1>7, <2>3, <3>1, <3>2 DEF AnsweredBy
    <3>4. session'[p][t] \in 0 .. MaxSessions
      BY <1>1 DEF MemoryType
    <3>5. k \in 1 .. MaxSessions
      BY <3>3, <3>4, PollerAssumption
    <3> QED
      BY <3>1, <3>5 DEF Watchers
  <2>8. e.re \in Serials
    <3>1. e.re <= MaxMessages
      BY <1>1, <1>3, <2>5 DEF LogInv
    <3> QED
      BY <1>3, <2>5, <3>1, PollerAssumption DEF Serials
  <2>9. <<t, e.re>> \in PostedPrompts
    BY <2>5, <2>8 DEF PostedPrompts, AllPrompts
  <2> QED
    BY <2>2, <2>5, <2>6, <2>7, <2>9
<1> QED
  BY <1>2, <1>4, <1>5, <1>6, <1>7

(* An answer counts once, and no other message counts.                     *)
LEMMA CountsOnce ==
  ASSUME PollerInv, PollerInv', NEW t \in Topics, NEW e \in Messages, Adds(t, e),
         NEW w \in Watchers, NEW q \in AllPrompts
  PROVE  /\ q[1] = t /\ e = Post("reply", <<w[1], w[2]>>, q[2]) =>
              /\ Answers(w[1], w[2], q[1], q[2]) = 0
              /\ Answers(w[1], w[2], q[1], q[2])' = 1
         /\ ~(q[1] = t /\ e = Post("reply", <<w[1], w[2]>>, q[2])) =>
              Answers(w[1], w[2], q[1], q[2])' = Answers(w[1], w[2], q[1], q[2])
<1> DEFINE x == Post("reply", <<w[1], w[2]>>, q[2])
           S == {m \in DOMAIN log[q[1]] : log[q[1]][m] = x}
           T == {m \in DOMAIN log'[q[1]] : log'[q[1]][m] = x}
           N == Len(log[t])
<1>1. /\ Answers(w[1], w[2], q[1], q[2]) = Cardinality(S)
      /\ Answers(w[1], w[2], q[1], q[2])' = Cardinality(T)
  BY DEF Answers
<1>2. /\ DOMAIN log'[t] = DOMAIN log[t] \cup {N + 1} /\ N + 1 \notin DOMAIN log[t]
      /\ \A m \in DOMAIN log[t] : log'[t][m] = log[t][m]
      /\ log'[t][N + 1] = e /\ \A u \in Topics \ {t} : log'[u] = log[u]
      /\ e.kind = "reply" => \A m \in DOMAIN log[t] : log[t][m] # e
  BY AddsDoes
<1>3. x.kind = "reply" /\ q[1] \in Topics
  BY DEF Post, AllPrompts
<1> HIDE DEF x
<1>4. CASE q[1] = t /\ e = x
  <2>1. S = {}
    BY <1>2, <1>3, <1>4
  <2>2. T = {N + 1}
    BY <1>2, <1>3, <1>4
  <2>3. Cardinality(S) = 0 /\ Cardinality(T) = 1
    BY <2>1, <2>2, FS_EmptySet, FS_Singleton
  <2> QED
    BY <1>1, <1>4, <2>3 DEF x
<1>5. CASE ~(q[1] = t /\ e = x)
  <2>1. T = S
    <3>1. CASE q[1] # t
      BY <1>2, <1>3, <3>1
    <3>2. CASE q[1] = t /\ e # x
      BY <1>2, <3>2
    <3> QED
      BY <1>5, <3>1, <3>2
  <2> QED
    BY <1>1, <1>5, <2>1 DEF x
<1> QED
  BY <1>4, <1>5

LEMMA ServiceStep ==
  ASSUME PollerInv, PollerInv', PollerStep \/ UNCHANGED vars
  PROVE  \/ PostedPrompts' = PostedPrompts /\ GivenAnswers' = GivenAnswers
         \/ \E q \in AllPrompts : /\ q \notin PostedPrompts
                                  /\ PostedPrompts' = PostedPrompts \cup {q}
                                  /\ GivenAnswers' = GivenAnswers
         \/ \E w \in Watchers, q \in AllPrompts :
              /\ q \in PostedPrompts /\ PostedPrompts' = PostedPrompts
              /\ GivenAnswers[w][q] = 0 /\ GivenAnswers'[w][q] = 1
              /\ GivenAnswers' = [GivenAnswers EXCEPT ![w][q] = 1]
<1>1. CASE log' = log
  BY <1>1 DEF PostedPrompts, GivenAnswers, Answers
<1>2. CASE \E t \in Topics : \E e \in Messages : Adds(t, e)
  <2>1. PICK t \in Topics, e \in Messages : Adds(t, e)
    BY <1>2
  <2> DEFINE N == Len(log[t])
             new == <<t, N + 1>>
  <2>2. /\ DOMAIN log'[t] = DOMAIN log[t] \cup {N + 1} /\ N + 1 \notin DOMAIN log[t]
        /\ \A m \in DOMAIN log[t] : log'[t][m] = log[t][m]
        /\ log'[t][N + 1] = e /\ \A u \in Topics \ {t} : log'[u] = log[u]
        /\ e.kind = "prompt" => N + 1 \in Serials
        /\ e.kind = "reply" => /\ e.by \in Watchers /\ e = Post("reply", e.by, e.re)
                               /\ <<t, e.re>> \in PostedPrompts
    BY <2>1, AddsDoes
  <2>3. ASSUME NEW q \in AllPrompts
        PROVE  q \in PostedPrompts' <=> q \in PostedPrompts \/ (q = new /\ e.kind = "prompt")
    <3>1. /\ q \in PostedPrompts <=>
               q[2] \in DOMAIN log[q[1]] /\ log[q[1]][q[2]].kind = "prompt"
          /\ q \in PostedPrompts' <=>
               q[2] \in DOMAIN log'[q[1]] /\ log'[q[1]][q[2]].kind = "prompt"
      BY DEF PostedPrompts
    <3>2. q = <<q[1], q[2]>> /\ q[1] \in Topics
      BY DEF AllPrompts
    <3>3. CASE q[1] # t
      <4>1. log'[q[1]] = log[q[1]] /\ q # new
        BY <2>2, <3>2, <3>3
      <4> QED
        BY <3>1, <4>1
    <3>4. CASE q[1] = t /\ q[2] = N + 1
      <4>1. q = new
        BY <3>2, <3>4
      <4> QED
        BY <2>2, <3>1, <3>4, <4>1
    <3>5. CASE q[1] = t /\ q[2] # N + 1
      <4>1. q # new
        BY <3>5
      <4>2. q[2] \in DOMAIN log'[t] <=> q[2] \in DOMAIN log[t]
        BY <2>2, <3>5
      <4>3. q[2] \in DOMAIN log[t] => log'[t][q[2]] = log[t][q[2]]
        BY <2>2
      <4> QED
        BY <3>1, <3>5, <4>1, <4>2, <4>3
    <3> QED
      BY <3>3, <3>4, <3>5
  <2>4. PostedPrompts \subseteq AllPrompts /\ PostedPrompts' \subseteq AllPrompts
    BY DEF PostedPrompts, AllPrompts
  <2>5. CASE e.kind = "reply"
    <3> DEFINE q == <<t, e.re>>
               w == e.by
    <3>1. q \in AllPrompts /\ q \in PostedPrompts /\ w \in Watchers
      BY <2>2, <2>4, <2>5
    <3>2. PostedPrompts' = PostedPrompts
      BY <2>3, <2>4, <2>5
    <3>3. ASSUME NEW v \in Watchers, NEW r \in AllPrompts
          PROVE  /\ v = w /\ r = q => GivenAnswers[v][r] = 0 /\ GivenAnswers'[v][r] = 1
                 /\ ~(v = w /\ r = q) => GivenAnswers'[v][r] = GivenAnswers[v][r]
      <4>1. (r[1] = t /\ e = Post("reply", <<v[1], v[2]>>, r[2])) <=> (v = w /\ r = q)
        <5>1. v = <<v[1], v[2]>> /\ r = <<r[1], r[2]>>
          BY DEF Watchers, AllPrompts
        <5>2. e = Post("reply", v, r[2]) <=> (e.by = v /\ e.re = r[2])
          BY <2>2, <2>5 DEF Post
        <5> QED
          BY <5>1, <5>2
      <4>2. /\ GivenAnswers[v][r] = Answers(v[1], v[2], r[1], r[2])
            /\ GivenAnswers'[v][r] = Answers(v[1], v[2], r[1], r[2])'
        BY DEF GivenAnswers, Answers
      <4> QED
        BY <2>1, <4>1, <4>2, CountsOnce
    <3>4. GivenAnswers' = [GivenAnswers EXCEPT ![w][q] = 1]
      <4>1. GivenAnswers' = [v \in Watchers |-> [r \in AllPrompts |-> GivenAnswers'[v][r]]]
        BY DEF GivenAnswers
      <4>2. [GivenAnswers EXCEPT ![w][q] = 1] =
              [v \in Watchers |-> [r \in AllPrompts |->
                 IF v = w /\ r = q THEN 1 ELSE GivenAnswers[v][r]]]
        BY <3>1 DEF GivenAnswers
      <4> HIDE DEF w, q
      <4> QED
        BY <3>3, <4>1, <4>2
    <3> QED
      BY <3>1, <3>2, <3>3, <3>4
  <2>6. CASE e.kind # "reply"
    <3>1. GivenAnswers' = GivenAnswers
      <4>1. ASSUME NEW v \in Watchers, NEW r \in AllPrompts
            PROVE  Answers(v[1], v[2], r[1], r[2])' = Answers(v[1], v[2], r[1], r[2])
        <5>1. e # Post("reply", <<v[1], v[2]>>, r[2])
          BY <2>6 DEF Post
        <5> QED
          BY <2>1, <5>1, CountsOnce
      <4> QED
        BY <4>1 DEF GivenAnswers, Answers
    <3>2. CASE e.kind = "prompt"
      <4>1. new \in AllPrompts
        BY <2>2, <3>2 DEF AllPrompts
      <4>2. new \notin PostedPrompts
        BY <2>2 DEF PostedPrompts
      <4>3. PostedPrompts' = PostedPrompts \cup {new}
        BY <2>3, <2>4, <3>2, <4>1
      <4> QED
        BY <3>1, <4>1, <4>2, <4>3
    <3>3. CASE e.kind # "prompt"
      <4>1. PostedPrompts' = PostedPrompts
        BY <2>3, <2>4, <3>3
      <4> QED
        BY <3>1, <4>1
    <3> QED
      BY <3>2, <3>3
  <2> QED
    BY <2>5, <2>6
<1> QED
  BY <1>1, <1>2, StepAdds

LEMMA ServiceInit == Init => Service!SInit
<1> SUFFICES ASSUME Init
             PROVE  Service!SInit
  OBVIOUS
<1>1. \A t \in Topics : log[t] = <<>> /\ DOMAIN log[t] = {}
  <2>1. \A t \in Topics : log[t] = <<>>
    BY DEF Init
  <2>2. Len(<<>>) = 0 /\ <<>> \in Seq({})
    BY EmptySeq
  <2>3. DOMAIN <<>> = {}
    BY <2>2, LenProperties
  <2> QED
    BY <2>1, <2>3
<1>2. \A w \in Watchers, q \in AllPrompts : Answers(w[1], w[2], q[1], q[2]) = 0
  <2> SUFFICES ASSUME NEW w \in Watchers, NEW q \in AllPrompts
               PROVE  Answers(w[1], w[2], q[1], q[2]) = 0
    OBVIOUS
  <2>1. DOMAIN log[q[1]] = {}
    BY <1>1 DEF AllPrompts
  <2>2. {m \in DOMAIN log[q[1]] : log[q[1]][m] = Post("reply", <<w[1], w[2]>>, q[2])} = {}
    BY <2>1
  <2> QED
    BY <2>2, FS_EmptySet DEF Answers
<1>3. GivenAnswers = [w \in Watchers |-> [q \in AllPrompts |-> 0]]
  BY <1>2 DEF GivenAnswers
<1>4. PostedPrompts = {}
  BY <1>1 DEF PostedPrompts, AllPrompts
<1> QED
  BY <1>3, <1>4 DEF Service!SInit, GivenAnswers, PostedPrompts, Watchers, AllPrompts

LEMMA ServiceNext ==
  ASSUME PollerInv, PollerInv', PollerStep \/ UNCHANGED vars
  PROVE  [Service!SNext]_(Service!svars)
<1>1. CASE PostedPrompts' = PostedPrompts /\ GivenAnswers' = GivenAnswers
  BY <1>1 DEF Service!svars, GivenAnswers, PostedPrompts, Watchers, AllPrompts
<1>2. CASE \E q \in AllPrompts : /\ q \notin PostedPrompts
                                 /\ PostedPrompts' = PostedPrompts \cup {q}
                                 /\ GivenAnswers' = GivenAnswers
  <2>1. PICK q \in AllPrompts : /\ q \notin PostedPrompts
                                /\ PostedPrompts' = PostedPrompts \cup {q}
                                /\ GivenAnswers' = GivenAnswers
    BY <1>2
  <2>2. Service!Post(q)
    BY <2>1 DEF Service!Post, GivenAnswers, PostedPrompts, Watchers, AllPrompts
  <2> QED
    BY <2>2 DEF Service!SNext, AllPrompts
<1>3. CASE \E w \in Watchers, q \in AllPrompts :
             /\ q \in PostedPrompts /\ PostedPrompts' = PostedPrompts
             /\ GivenAnswers[w][q] = 0 /\ GivenAnswers'[w][q] = 1
             /\ GivenAnswers' = [GivenAnswers EXCEPT ![w][q] = 1]
  <2>1. PICK w \in Watchers, q \in AllPrompts :
             /\ q \in PostedPrompts /\ PostedPrompts' = PostedPrompts
             /\ GivenAnswers[w][q] = 0 /\ GivenAnswers'[w][q] = 1
             /\ GivenAnswers' = [GivenAnswers EXCEPT ![w][q] = 1]
    BY <1>3
  <2>2. Service!Answer(w, q)
    BY <2>1 DEF Service!Answer, GivenAnswers, PostedPrompts, Watchers, AllPrompts
  <2> QED
    BY <2>2 DEF Service!SNext, AllPrompts, Watchers
<1> QED
  BY <1>1, <1>2, <1>3, ServiceStep

(* Each time it watches a topic, a process answers a prompt there at most  *)
(* once, only after it was posted, and never one of the agent's messages:  *)
(* AgentPoller implements PromptService.                                   *)
THEOREM AgentAnswersPrompts == Spec => AnswersPrompts
<1>1. PollerInv /\ PollerInv' /\ [Next]_vars => [Service!SNext]_(Service!svars)
  BY ServiceNext, NextSteps
<1> QED
  BY <1>1, ServiceInit, PollerInvariant, PTL DEF Spec, AnswersPrompts, Service!SSpec
-----------------------------------------------------------------------------
(* Chat: its steps are steps of AgentPoller, or leave it alone.            *)
LEMMA ChatSteps ==
  ASSUME PollerInv, [ChatNext]_<<vars, chatVars>>
  PROVE  PollerStep \/ UNCHANGED vars
<1>1. announced \subseteq Topics
  BY AnnouncedTopics DEF PollerInv
<1>2. CASE UNCHANGED <<vars, chatVars>>
  BY <1>2
<1>3. CASE Next /\ UNCHANGED chatVars
  BY <1>3, NextSteps
<1>4. CASE \E t \in Topics : Connected(t)
  BY <1>4 DEF Connected
<1>5. CASE \E c \in Calls : \/ Begin(c) \/ Respond(c) \/ GiveUp(c)
                            \/ Destruct(c) \/ Disconnect(c)
  BY <1>5 DEF Begin, Respond, GiveUp, Destruct, Disconnect
<1>6. ASSUME NEW t, SendMessage(t, "prompt")
      PROVE  PollerStep
  <2>1. t \in Topics
    BY <1>1, <1>6 DEF SendMessage
  <2> QED
    BY <1>6, <2>1 DEF PollerStep
<1>7. CASE \E c \in Calls : Send(c)
  BY <1>6, <1>7 DEF Send
<1>8. CASE \E c \in Calls : \E landed \in BOOLEAN : Fail(c, landed)
  BY <1>6, <1>8 DEF Fail
<1>9. CASE \E c \in Calls : SendClose(c)
  BY <1>6, <1>9 DEF SendClose
<1> QED
  BY <1>2, <1>3, <1>4, <1>5, <1>7, <1>8, <1>9 DEF ChatNext

LEMMA ChatKeepsPoller == ChatSpec => []PollerInv
<1>1. ChatInit => PollerInv
  BY InitInv DEF ChatInit
<1>2. PollerInv /\ [ChatNext]_<<vars, chatVars>> => PollerInv'
  BY StepKeeps, ChatSteps
<1> QED
  BY <1>1, <1>2, PTL DEF ChatSpec

(* The same for the agent beside /chat and /destruct, which post prompts   *)
(* of their own.                                                           *)
THEOREM ChatTypes == ChatSpec => []TypeOK
  BY ChatKeepsPoller, InvTypes, PTL

(* Nor does the connection to the agent make it answer a prompt twice, or   *)
(* anything that nobody asked.                                              *)
THEOREM ChatAnswersPrompts == ChatSpec => AnswersPrompts
<1>1. PollerInv /\ PollerInv' /\ [ChatNext]_<<vars, chatVars>>
        => [Service!SNext]_(Service!svars)
  BY ServiceNext, ChatSteps
<1>2. ChatInit => Service!SInit
  BY ServiceInit DEF ChatInit
<1> QED
  BY <1>1, <1>2, ChatKeepsPoller, PTL DEF ChatSpec, AnswersPrompts, Service!SSpec
-----------------------------------------------------------------------------
(* Processes that ever watched a topic are finitely many, however many     *)
(* there may be to spawn.                                                  *)
LEMMA SpawnInvKeeps ==
  ASSUME PollerInv, SpawnInv, PollerStep \/ UNCHANGED vars
  PROVE  SpawnInv'
<1>1. spawned' = spawned \/ \E p : spawned' = spawned \cup {p}
  <2>1. CASE UNCHANGED vars
    BY <2>1 DEF vars
  <2>2. CASE SubmitRequest \/ \E t \in Topics, kind \in {"prompt", "close", "other"} :
               SendMessage(t, kind)
    BY <2>2 DEF SubmitRequest, SendMessage
  <2>3. ASSUME NEW p \in Procs, Spawn(p) \/ Stop(p)
        PROVE  spawned' = spawned \/ spawned' = spawned \cup {p}
    BY <2>3 DEF Spawn, Stop
  <2>4. ASSUME NEW p \in Procs, Loop(p)
        PROVE  spawned' = spawned
    BY <2>4 DEF Loop, Load, Refresh, Remember, ReadInbound, ReadInboundFails, Create,
         CreateFails, RememberFails, Welcome, WelcomeFails, ReadTopic, ReadTopicFails,
         Answer
  <2> QED
    BY <2>1, <2>2, <2>3, <2>4 DEF PollerStep
<1>2. IsFiniteSet(spawned') /\ spawned \subseteq spawned'
  BY <1>1, FS_AddElement DEF SpawnInv
<1>3. \/ session' = session
      \/ \E p \in Procs : /\ p \in up
                          /\ \A q \in Procs \ {p} : session'[q] = session[q]
  <2>1. CASE UNCHANGED vars
    BY <2>1 DEF vars
  <2>2. CASE SubmitRequest \/ \E t \in Topics, kind \in {"prompt", "close", "other"} :
               SendMessage(t, kind)
    BY <2>2 DEF SubmitRequest, SendMessage
  <2>3. ASSUME NEW p \in Procs, Spawn(p) \/ Stop(p)
        PROVE  session' = session
    BY <2>3 DEF Spawn, Stop
  <2>4. ASSUME NEW p \in Procs, Loop(p)
        PROVE  \/ session' = session
               \/ p \in up /\ \A q \in Procs \ {p} : session'[q] = session[q]
    <3>1. CASE \E l \in Listings : Load(p, l) \/ Refresh(p, l)
      <4>1. p \in up /\ \E S : Watch(p, S)
        BY <3>1 DEF Load, Refresh
      <4>2. \A q \in Procs \ {p} : session'[q] = session[q]
        BY <4>1 DEF Watch, PollerInv, MemoryType
      <4> QED
        BY <4>1, <4>2
    <3>2. CASE ~\E l \in Listings : Load(p, l) \/ Refresh(p, l)
      BY <2>4, <3>2 DEF Loop, Remember, ReadInbound, ReadInboundFails, Create,
           CreateFails, RememberFails, Welcome, WelcomeFails, ReadTopic, ReadTopicFails,
           Answer
    <3> QED
      BY <3>1, <3>2
  <2> QED
    BY <2>1, <2>2, <2>3, <2>4 DEF PollerStep
<1>4. up \subseteq spawned
  BY DEF PollerInv, ChainType
<1>5. \A p \in Procs, t \in Topics : session'[p][t] > 0 => p \in spawned'
  BY <1>2, <1>3, <1>4 DEF SpawnInv
<1> QED
  BY <1>2, <1>5 DEF SpawnInv

LEMMA WatchesFinite ==
  ASSUME PollerInv, SpawnInv, NEW t \in Topics
  PROVE  IsFiniteSet(Watches(t))
<1>1. IsFiniteSet(spawned \X (1 .. MaxSessions))
  <2>1. 1 \in Int /\ MaxSessions \in Int
    BY PollerAssumption
  <2>2. IsFiniteSet(1 .. MaxSessions) /\ IsFiniteSet(spawned)
    BY <2>1, FS_Interval DEF SpawnInv
  <2> QED
    BY <2>2, FS_Product
<1>2. Watches(t) \subseteq spawned \X (1 .. MaxSessions)
  <2> SUFFICES ASSUME NEW p \in Procs, NEW k \in 1 .. session[p][t]
               PROVE  p \in spawned /\ k \in 1 .. MaxSessions
    BY DEF Watches
  <2>1. session[p][t] \in 0 .. MaxSessions
    BY DEF PollerInv, MemoryType
  <2>2. session[p][t] > 0 /\ k \in 1 .. MaxSessions
    BY <2>1, PollerAssumption
  <2> QED
    BY <2>2 DEF SpawnInv
<1> QED
  BY <1>1, <1>2, FS_Subset
-----------------------------------------------------------------------------
(* What a call was told when it sent its prompt stays so.                  *)
LEMMA StepGrows ==
  ASSUME PollerInv, PollerInv', PollerStep \/ UNCHANGED vars
  PROVE  LogGrows(Procs) /\ announced \subseteq announced'
<1>1. ChainType
  BY DEF PollerInv
<1>2. LogGrows(Procs)
  <2>1. \A e \in Messages : e.kind = "reply" => e.by[1] \in Procs
    BY DEF Messages, Said, Greeted, Answered
  <2>2. CASE log' = log
    BY <1>1, <2>2, LogSame
  <2>3. CASE \E t \in Topics : \E e \in Messages : Adds(t, e)
    BY <1>1, <2>1, <2>3, LogAppend DEF Adds
  <2> QED
    BY <2>2, <2>3, StepAdds
<1>3. announced \subseteq announced'
  <2>1. CASE UNCHANGED vars
    BY <2>1 DEF vars, chainVars
  <2>2. CASE SubmitRequest \/ \E t \in Topics, kind \in {"prompt", "close", "other"} :
               SendMessage(t, kind)
    BY <2>2 DEF SubmitRequest, SendMessage
  <2>3. ASSUME NEW p \in Procs, Spawn(p) \/ Stop(p)
        PROVE  announced' = announced
    BY <2>3 DEF Spawn, Stop, chainVars
  <2>4. ASSUME NEW p \in Procs, Loop(p)
        PROVE  announced \subseteq announced'
    <3>1. CASE \E l \in Listings : Load(p, l) \/ Refresh(p, l) \/ Remember(p, l)
      BY <3>1 DEF Load, Refresh, Remember, chainVars
    <3>2. CASE ReadInbound(p) \/ ReadInboundFails(p) \/ RememberFails(p)
      BY <3>2 DEF ReadInbound, ReadInboundFails, RememberFails, chainVars
    <3>3. CASE Create(p) \/ \E made, told \in BOOLEAN : CreateFails(p, made, told)
      BY <3>3 DEF Create, CreateFails, Announce
    <3>4. CASE Welcome(p) \/ \E landed \in BOOLEAN : WelcomeFails(p, landed)
      BY <3>4 DEF Welcome, WelcomeFails
    <3>5. CASE \E t \in Topics : \/ ReadTopic(p, t)
                                 \/ \E invalid \in BOOLEAN : ReadTopicFails(p, t, invalid)
      BY <3>5 DEF ReadTopic, ReadTopicFails, chainVars
    <3>6. CASE \E landed \in BOOLEAN : Answer(p, landed)
      BY <3>6 DEF Answer
    <3> QED
      BY <2>4, <3>1, <3>2, <3>3, <3>4, <3>5, <3>6 DEF Loop
  <2> QED
    BY <2>1, <2>2, <2>3, <2>4 DEF PollerStep
<1> QED
  BY <1>2, <1>3

LEMMA SettledStays ==
  ASSUME Lens, LogGrows(Procs), NEW t \in Topics, NEW sent \in Nat,
         sent <= Len(log[t]) + 1, SettledBefore(log[t], sent)
  PROVE  SettledBefore(log'[t], sent)
<1>1. 1 .. sent - 1 \subseteq 1 .. Len(log[t])
  BY DEF Lens
<1>2. \A n \in 1 .. sent - 1 : log'[t][n] = log[t][n]
  BY <1>1 DEF LogGrows
<1> QED
  BY <1>2 DEF SettledBefore

LEMMA CallStays ==
  ASSUME PollerInv, PollerInv', PollerStep \/ UNCHANGED vars, NEW c \in Calls,
         CallInv(c), calls'[c] = calls[c]
  PROVE  CallInv(c)'
<1>1. LogGrows(Procs) /\ announced \subseteq announced' /\ Lens /\ Lens'
  BY StepGrows, ChainLens, NextLens DEF PollerInv
<1> DEFINE t == calls[c].topic
           sent == calls[c].sent
<1>2. calls[c].pc # "new" => t \in announced /\ t \in Topics
  BY AnnouncedTopics DEF CallInv, PollerInv
<1>3. calls[c].pc = "wait" => sent <= Len(log[t]) /\ sent \in Nat
  BY DEF CallInv, CallRecord
<1>4. calls[c].pc = "wait" => sent <= Len(log'[t])
  BY <1>1, <1>2, <1>3 DEF LogGrows, Lens
<1>5. ASSUME calls[c].pc = "wait", calls[c].settled
      PROVE  SettledBefore(log'[t], sent)
  <2>1. SettledBefore(log[t], sent)
    BY <1>5 DEF CallInv
  <2>2. t \in Topics /\ sent \in Nat /\ sent <= Len(log[t]) + 1
    BY <1>1, <1>2, <1>3, <1>5 DEF Lens
  <2>3. Lens /\ LogGrows(Procs)
    BY <1>1
  <2> HIDE DEF t, sent
  <2> QED
    BY <2>1, <2>2, <2>3, SettledStays
<1> QED
  BY <1>1, <1>2, <1>4, <1>5 DEF CallInv

LEMMA CallEnds ==
  ASSUME NEW c \in Calls, calls'[c] = NotCalled
  PROVE  CallInv(c)'
  BY DEF CallInv, CallRecord, NotCalled

LEMMA SendCall ==
  ASSUME PollerInv, PollerInv', NEW c \in Calls, CallInv(c), Send(c),
         calls \in [Calls -> CallRecord]
  PROVE  calls' \in [Calls -> CallRecord] /\ CallInv(c)'
<1> DEFINE t == calls[c].topic
           sent == Len(log[t]) + 1
           next == [calls[c] EXCEPT !.pc = "wait", !.sent = sent, !.settled = Settled(t)]
<1>1. /\ SendMessage(t, "prompt") /\ t \in announced /\ announced' = announced
      /\ calls' = [calls EXCEPT ![c] = next]
  BY DEF Send, SendMessage
<1>2. t \in Topics /\ Lens /\ Lens' /\ ChainType
  BY <1>1, AnnouncedTopics, ChainLens, NextLens DEF PollerInv
<1>3. PollerStep
  BY <1>1, <1>2 DEF PollerStep
<1>4. LogGrows(Procs) /\ Len(log'[t]) = Len(log[t]) + 1 /\ sent \in Nat
  <2>1. LogGrows(Procs)
    BY <1>3, StepGrows
  <2>2. log' = [log EXCEPT ![t] = Append(@, Post("prompt", "user", 0))]
    BY <1>1 DEF SendMessage
  <2>3. log[t] \in Seq(Messages) /\ Post("prompt", "user", 0) \in Messages
    BY <1>2 DEF ChainType, Messages, Said, Post
  <2>4. log'[t] = Append(log[t], Post("prompt", "user", 0))
    BY <1>2, <2>2 DEF ChainType
  <2> QED
    BY <1>2, <2>1, <2>3, <2>4, AppendProperties DEF Lens
<1>5. next \in CallRecord /\ next.pc = "wait" /\ next.topic = t /\ next.sent = sent
      /\ next.settled = Settled(t)
  <2>1. Settled(t) \in BOOLEAN
    BY DEF Settled
  <2>2. calls[c] \in CallRecord
    OBVIOUS
  <2>3. sent \in Nat
    BY <1>4
  <2> HIDE DEF sent
  <2> QED
    BY <2>1, <2>2, <2>3 DEF CallRecord
<1>6. ASSUME Settled(t)
      PROVE  SettledBefore(log'[t], sent)
  <2>1. DOMAIN log[t] = 1 .. sent - 1
    BY <1>2 DEF Lens
  <2>3. sent <= Len(log[t]) + 1 /\ Lens /\ LogGrows(Procs) /\ sent \in Nat
        /\ t \in Topics
    BY <1>2, <1>4 DEF Lens
  <2> HIDE DEF sent, t
  <2>2. SettledBefore(log[t], sent)
    BY <1>6, <2>1 DEF Settled, Prompts, Replied, SettledBefore
  <2> QED
    BY <2>2, <2>3, SettledStays
<1> HIDE DEF next, sent, t
<1>7. calls' \in [Calls -> CallRecord] /\ calls'[c] = next
  BY <1>1, <1>5
<1>8. sent <= Len(log'[t])
  BY <1>4 DEF sent
<1>9. /\ calls'[c] \in CallRecord /\ calls'[c].topic = t /\ calls'[c].sent = sent
      /\ calls'[c].pc = "wait" /\ calls'[c].settled = Settled(t) /\ t \in announced'
  BY <1>1, <1>5, <1>7
<1> HIDE DEF CallRecord
<1>10. CallInv(c)'
  BY <1>6, <1>8, <1>9 DEF CallInv
<1> QED
  BY <1>7, <1>10

LEMMA ChatInitInv == ChatInit => ChatInv
<1> SUFFICES ASSUME ChatInit
             PROVE  ChatInv
  OBVIOUS
<1>1. Init /\ connection = 0 /\ calls = [c \in Calls |-> NotCalled]
  BY DEF ChatInit
<1>2. NotCalled \in CallRecord /\ NotCalled.pc = "new"
  BY DEF NotCalled, CallRecord
<1>3. calls \in [Calls -> CallRecord] /\ \A c \in Calls : CallInv(c)
  BY <1>1, <1>2 DEF CallInv
<1>4. SpawnInv
  <2>1. spawned = {} /\ \A p \in Procs, t \in Topics : session[p][t] = 0
    BY <1>1 DEF Init
  <2> QED
    BY <2>1, FS_EmptySet DEF SpawnInv
<1> QED
  BY <1>1, <1>3, <1>4, InitInv DEF ChatInv

(* Only SendMessage and Next touch the topics: the calls of a step.        *)
LEMMA CallsMove ==
  ASSUME ChatInv, PollerInv', NEW c \in Calls, [ChatNext]_<<vars, chatVars>>
  PROVE  CallInv(c)'
<1>1. PollerInv /\ CallInv(c) /\ calls \in [Calls -> CallRecord]
  BY DEF ChatInv
<1>2. PollerStep \/ UNCHANGED vars
  BY <1>1, ChatSteps
<1>3. CASE calls'[c] = calls[c]
  BY <1>1, <1>2, <1>3, CallStays
<1>4. CASE calls'[c] # calls[c]
  <2>1. CASE UNCHANGED <<vars, chatVars>> \/ (Next /\ UNCHANGED chatVars)
             \/ \E t \in Topics : Connected(t)
    BY <1>4, <2>1 DEF chatVars, Connected
  <2>2. CASE \E d \in Calls : \/ Respond(d) \/ GiveUp(d) \/ Disconnect(d)
                              \/ \E landed \in BOOLEAN : Fail(d, landed)
    <3>1. \E d \in Calls : calls' = [calls EXCEPT ![d] = NotCalled]
      BY <2>2 DEF Respond, GiveUp, Disconnect, Fail
    <3>2. calls'[c] = NotCalled
      BY <1>1, <1>4, <3>1
    <3> QED
      BY <3>2, CallEnds
  <2>3. CASE \E d \in Calls : Begin(d) \/ Destruct(d)
    <3>1. PICK d \in Calls : Begin(d) \/ Destruct(d)
      BY <2>3
    <3>2. PICK to \in {"send", "close"} :
               /\ calls' = [calls EXCEPT ![d] = [@ EXCEPT !.pc = to, !.topic = connection]]
               /\ connection \in announced /\ vars' = vars
      BY <3>1 DEF Begin, Destruct, ChatInv
    <3>3. c = d
      BY <1>1, <1>4, <3>2
    <3>4. calls'[c] = [calls[c] EXCEPT !.pc = to, !.topic = connection]
      BY <1>1, <3>2, <3>3
    <3>5. connection \in Nat
      BY <1>1, <3>2, AnnouncedTopics, PollerAssumption DEF PollerInv, Topics
    <3>6. calls'[c] \in CallRecord /\ calls'[c].pc = to /\ calls'[c].topic = connection
      <4>1. calls[c] \in CallRecord
        BY <1>1
      <4> QED
        BY <3>4, <3>5, <4>1 DEF CallRecord
    <3>7. connection \in announced'
      BY <3>2 DEF vars, chainVars
    <3> QED
      BY <3>2, <3>6, <3>7 DEF CallInv
  <2>4. CASE \E d \in Calls : Send(d)
    <3>1. PICK d \in Calls : Send(d)
      BY <2>4
    <3>2. \E x : calls' = [calls EXCEPT ![d] = x]
      BY <3>1 DEF Send
    <3>3. c = d
      BY <1>1, <1>4, <3>2
    <3> QED
      BY <1>1, <3>1, <3>3, SendCall
  <2>5. CASE \E d \in Calls : SendClose(d)
    <3>1. PICK d \in Calls : SendClose(d)
      BY <2>5
    <3>2. calls' = [calls EXCEPT ![d] = [@ EXCEPT !.pc = "closed"]] /\ calls[d].pc = "close"
      BY <3>1 DEF SendClose
    <3>3. c = d
      BY <1>1, <1>4, <3>2
    <3>4. calls'[c] = [calls[c] EXCEPT !.pc = "closed"] /\ calls[c].pc = "close"
      BY <1>1, <3>2, <3>3
    <3>5. calls[c] \in CallRecord /\ calls[c].topic \in announced
      BY <1>1, <3>4 DEF CallInv
    <3>6. calls'[c] \in CallRecord /\ calls'[c].pc = "closed" /\ calls'[c].topic = calls[c].topic
      BY <3>4, <3>5 DEF CallRecord
    <3>7. announced \subseteq announced'
      BY <1>1, <1>2, StepGrows
    <3> QED
      BY <3>5, <3>6, <3>7 DEF CallInv
  <2> QED
    BY <2>1, <2>2, <2>3, <2>4, <2>5 DEF ChatNext
<1> QED
  BY <1>3, <1>4

LEMMA CallsType ==
  ASSUME ChatInv, PollerInv', [ChatNext]_<<vars, chatVars>>
  PROVE  calls' \in [Calls -> CallRecord] /\ connection' \in {0} \cup announced'
<1>1. PollerInv /\ calls \in [Calls -> CallRecord] /\ connection \in {0} \cup announced
  BY DEF ChatInv
<1>2. announced \subseteq announced'
  BY <1>1, ChatSteps, StepGrows
<1>3. NotCalled \in CallRecord
  BY DEF NotCalled, CallRecord
<1>4. CASE UNCHANGED <<vars, chatVars>> \/ (Next /\ UNCHANGED chatVars)
  BY <1>1, <1>2, <1>4 DEF chatVars
<1>5. CASE \E t \in Topics : Connected(t)
  BY <1>1, <1>2, <1>5 DEF Connected
<1>6. CASE \E d \in Calls : \/ Respond(d) \/ GiveUp(d) \/ Disconnect(d)
                            \/ \E landed \in BOOLEAN : Fail(d, landed)
  <2>1. \E d \in Calls : /\ calls' = [calls EXCEPT ![d] = NotCalled]
                         /\ connection' \in {0, connection}
    BY <1>6 DEF Respond, GiveUp, Disconnect, Fail
  <2> QED
    BY <1>1, <1>2, <1>3, <2>1
<1>7. CASE \E d \in Calls : Begin(d) \/ Destruct(d)
  <2>1. PICK d \in Calls : Begin(d) \/ Destruct(d)
    BY <1>7
  <2>2. connection \in Nat
    BY <1>1, <2>1, AnnouncedTopics, PollerAssumption DEF Begin, Destruct, PollerInv, Topics
  <2>3. PICK to \in {"send", "close"} :
             /\ calls' = [calls EXCEPT ![d] = [calls[d] EXCEPT !.pc = to, !.topic = connection]]
             /\ connection' = connection
    BY <1>1, <2>1 DEF Begin, Destruct
  <2>4. [calls[d] EXCEPT !.pc = to, !.topic = connection] \in CallRecord
    BY <1>1, <2>2 DEF CallRecord
  <2> QED
    BY <1>1, <1>2, <2>3, <2>4
<1>9. CASE \E d \in Calls : SendClose(d)
  <2>1. PICK d \in Calls : SendClose(d)
    BY <1>9
  <2>2. [calls[d] EXCEPT !.pc = "closed"] \in CallRecord
    BY <1>1 DEF CallRecord
  <2>3. calls' = [calls EXCEPT ![d] = [calls[d] EXCEPT !.pc = "closed"]]
        /\ connection' = connection
    BY <1>1, <2>1 DEF SendClose
  <2> QED
    BY <1>1, <1>2, <2>2, <2>3
<1>8. CASE \E d \in Calls : Send(d)
  <2>1. PICK d \in Calls : Send(d)
    BY <1>8
  <2>2. CallInv(d) /\ connection' = connection
    BY <2>1 DEF ChatInv, Send
  <2> QED
    BY <1>1, <1>2, <2>1, <2>2, SendCall
<1> QED
  BY <1>4, <1>5, <1>6, <1>7, <1>8, <1>9 DEF ChatNext

LEMMA ChatInvariant == ChatSpec => []ChatInv
<1>1. ChatInv /\ [ChatNext]_<<vars, chatVars>> => ChatInv'
  <2> SUFFICES ASSUME ChatInv, [ChatNext]_<<vars, chatVars>>
               PROVE  ChatInv'
    OBVIOUS
  <2>1. PollerInv /\ SpawnInv /\ (PollerStep \/ UNCHANGED vars)
    BY ChatSteps DEF ChatInv
  <2>2. PollerInv' /\ SpawnInv'
    BY <2>1, StepKeeps, SpawnInvKeeps
  <2>3. \A c \in Calls : CallInv(c)'
    BY <2>2, CallsMove
  <2> QED
    BY <2>2, <2>3, CallsType DEF ChatInv
<1> QED
  BY <1>1, ChatInitInv, PTL DEF ChatSpec

(* What a call that returns returns, while one process watched its topic   *)
(* once and it was told the truth about the agent.                         *)
LEMMA ResponseIsNew ==
  ASSUME ChatInv, NEW c \in Calls, Respond(c), calls[c].settled, KnowsAgent,
         Cardinality(Watches(calls[c].topic)) = 1
  PROVE  LET response == log[calls[c].topic][Response(c)]
         IN  response.kind = "reply" /\ response.re >= calls[c].sent
<1> DEFINE t == calls[c].topic
           sent == calls[c].sent
           r == Response(c)
<1>1. /\ PollerInv /\ SpawnInv /\ CallInv(c) /\ calls[c].pc = "wait"
      /\ Responses(c) # {} /\ calls[c] \in CallRecord
  BY DEF ChatInv, Respond, CallInv
<1>2. t \in Topics /\ Lens /\ LogInv /\ GreetInv /\ sent \in Nat
  BY <1>1, AnnouncedTopics, ChainLens DEF PollerInv, CallInv, CallRecord
<1>3. DOMAIN log[t] = 1 .. Len(log[t]) /\ Len(log[t]) \in Nat /\ sent <= Len(log[t])
  BY <1>1, <1>2 DEF Lens, CallInv
<1>4. r \in Responses(c)
  <2>1. Responses(c) \in SUBSET Nat
    BY <1>3 DEF Responses
  <2> QED
    BY <1>1, <2>1, LeastChosen DEF Response
<1>5. r \in 1 .. Len(log[t]) /\ r > sent /\ log[t][r].kind \in {"own", "reply"}
  BY <1>3, <1>4 DEF Responses, FromAgent
<1> HIDE DEF r
<1>6. /\ \E n \in 1 .. sent - 1 : log[t][n].kind = "own"
      /\ \A m \in 1 .. sent - 1 : log[t][m].kind = "prompt" =>
           \E n \in 1 .. sent - 1 : log[t][n].kind = "reply" /\ log[t][n].re = m
  BY <1>1 DEF CallInv, SettledBefore
<1> HIDE DEF t, sent
<1>7. \A n \in 1 .. sent - 1 : n \in 1 .. Len(log[t]) /\ n # r
  BY <1>2, <1>3, <1>5
<1>8. log[t][r].kind # "own"
  BY <1>2, <1>5, <1>6, <1>7 DEF GreetInv
<1>9. log[t][r].kind = "reply"
  BY <1>5, <1>8
<1>10. /\ log[t][r].re \in 1 .. (r - 1) /\ log[t][log[t][r].re].kind = "prompt"
       /\ \A m \in 1 .. Len(log[t]) : log[t][m] = log[t][r] => m = r
  BY <1>2, <1>5, <1>9 DEF LogInv
<1>11. ASSUME NEW n \in 1 .. Len(log[t]), log[t][n].kind = "reply"
       PROVE  log[t][n] \in Answered /\ log[t][n].by \in Watches(t)
  <2>1. log[t][n] \in Messages
    <3>1. log[t] \in Seq(Messages)
      BY <1>1, <1>2 DEF PollerInv, ChainType
    <3> QED
      BY <3>1, ElementOfSeq
  <2>2. log[t][n] \in Answered
    BY <1>11, <2>1 DEF Messages, Said, Greeted
  <2>3. PICK p \in Procs, k \in Nat : log[t][n].by = <<p, k>>
    BY <2>2 DEF Answered
  <2>4. AnsweredBy(p)
    BY <1>1 DEF PollerInv, ProcInv
  <2>5. k \in 1 .. session[p][t]
    BY <1>2, <1>11, <2>3, <2>4 DEF AnsweredBy
  <2> QED
    BY <2>2, <2>3, <2>5 DEF Watches
<1>12. \A v, w \in Watches(t) : v = w
  <2>1. IsFiniteSet(Watches(t))
    BY <1>1, <1>2, WatchesFinite
  <2>2. Cardinality(Watches(t)) = 1
    BY DEF t
  <2>3. \E x : Watches(t) = {x}
    BY <2>1, <2>2, FS_Singleton
  <2> QED
    BY <2>3
<1>13. ASSUME log[t][r].re < sent
       PROVE  FALSE
  <2>1. log[t][r].re \in 1 .. sent - 1
    BY <1>2, <1>5, <1>10, <1>13
  <2>2. PICK n \in 1 .. sent - 1 : log[t][n].kind = "reply" /\ log[t][n].re = log[t][r].re
    BY <1>6, <1>10, <2>1
  <2>3. n \in 1 .. Len(log[t]) /\ n # r
    BY <1>7
  <2>4. /\ log[t][n] \in Answered /\ log[t][n].by \in Watches(t)
        /\ log[t][r] \in Answered /\ log[t][r].by \in Watches(t)
    BY <1>5, <1>9, <1>11, <2>2, <2>3
  <2>5. log[t][n].by = log[t][r].by
    BY <1>12, <2>4
  <2>6. log[t][n] = log[t][r]
    BY <2>2, <2>4, <2>5, <1>9 DEF Answered
  <2> QED
    BY <1>10, <2>3, <2>6
<1>14. log[t][r].re >= sent
  <2>1. log[t][r].re \in Nat
    BY <1>5, <1>10
  <2> QED
    BY <1>2, <1>13, <2>1
<1> QED
  BY <1>9, <1>14 DEF t, r, sent

(* A /chat call that sent its prompt when the agent had greeted and had    *)
(* answered every earlier prompt never returns an older answer, while one  *)
(* process has watched the topic and has watched it once.                  *)
THEOREM ChatReturnsNoOldAnswer == ChatSpec => NoOldAnswer
<1>1. ChatInv => \A c \in Calls :
        LET topic    == calls[c].topic
            response == log[topic][Response(c)]
        IN  /\ Respond(c) /\ calls[c].settled /\ KnowsAgent
            /\ Cardinality(Watches(topic)) = 1
            => response.kind = "reply" /\ response.re >= calls[c].sent
  BY ResponseIsNew
<1> QED
  BY <1>1, ChatInvariant, PTL DEF NoOldAnswer
=============================================================================
