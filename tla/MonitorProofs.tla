----------------------------- MODULE MonitorProofs -----------------------------
(***************************************************************************)
(* Proofs about Monitor, for any number of users, instances, topics,       *)
(* messages and overlapping polls.                                         *)
(***************************************************************************)
EXTENDS Monitor, Extremes, FiniteSetTheorems, SequenceTheorems

All == {Inbound} \cup Topics

-----------------------------------------------------------------------------
(* The inductive invariant, part by part.  Types, and the range of each    *)
(* cursor.                                                                 *)
Requests == [kind : {"request"}, from : Users, complete : BOOLEAN, stamp : Stamps,
             at : Nat]
Posts == [kind : Kinds, from : Users, re : {0}]
         \cup [kind : {"other"}, from : {"agent"}, re : Nat]
         \cup [kind : {"reply", "apology", "greeting"}, from : Instances, re : Nat]
Messages == Requests \cup Posts
Origins == [request : Nat, by : Instances \cup {"earlier"}]

ChainType ==
  /\ log \in [All -> Seq(Messages)]
  /\ origin \in Seq(Origins)
  /\ Len(origin) <= MaxTopics
  /\ visible \subseteq 1 .. Len(origin) /\ saved \subseteq visible
  /\ clock \in 1 .. MaxTime /\ record \in Records

MemoryType ==
  /\ status \in [Instances -> {"new", "up", "dead"}]
  /\ queue \in [Instances -> SUBSET All]
  /\ last \in [Instances -> [All -> Nat \cup {Off}]]
  /\ start \in [Instances -> [All -> Nat \cup {Off}]]
  /\ handled \in [Instances -> SUBSET Nat]
  /\ begun \in [Instances -> [All -> SUBSET Nat]]
  /\ lastTime \in [Instances -> Nat]
  /\ polls \in [Instances -> [All -> [Slots -> Poller]]]

Creating == {"creating", "recreating", "confirming", "starting", "greeting"}
Working  == {"answering"} \cup Creating
Serving  == {"confirming", "starting", "greeting"}

PollType(i, t, k) ==
  LET p == polls[i][t][k]
  IN /\ p.pc = "idle" => p = Idle
     /\ p.pc # "idle" => last[i][t] # Off
     /\ p.pc = "fetching" => p.from <= Len(log[t]) /\ p.cur = 0
     /\ p.pc = "answering" => t # Inbound /\ log[t][p.cur].kind = "prompt"
     /\ p.pc \in Creating => t = Inbound /\ p.cur \in handled[i]
     /\ p.pc \in Working => p.cur \in 1 .. Len(log[t])
     /\ p.pc \in Working => p.todo \subseteq (p.cur + 1) .. Len(log[t])
     /\ p.pc \in Serving => /\ p.topic \in 1 .. Len(origin)
                            /\ origin[p.topic] = [request |-> p.cur, by |-> i]

InstanceType(i) ==
  /\ status[i] # "up" => queue[i] = {} /\ \A t \in All : last[i][t] = Off
  /\ queue[i] \subseteq 0 .. Len(origin)
  /\ handled[i] \subseteq 1 .. Len(log[Inbound])
  /\ \A t \in All : last[i][t] # Off =>
       start[i][t] # Off /\ last[i][t] <= Len(log[t]) /\ t <= Len(origin)
  /\ \A t \in All, k \in Slots : PollType(i, t, k)

TypeInv == ChainType /\ MemoryType /\ \A i \in Instances : InstanceType(i)

(* The dates of requests lie in the past.                                  *)
ClockInv ==
  \A n \in 1 .. Len(log[Inbound]) :
    log[Inbound][n].kind = "request" => log[Inbound][n].at <= clock

(* The cursors.  All up to the cursor is accounted for, and what accounts   *)
(* for a message never goes away.  A poll leaves out of its todo list only *)
(* requests that are older than the one on it.                             *)
Asks(t, r) == t = Inbound /\ log[t][r].kind = "request"
Account(i, t, s, x) ==
  IF t = Inbound
  THEN record = "good" /\ Asks(t, s) /\ log[t][s].complete =>
         \/ s \in begun[i][t]
         \/ \E r \in (s + 1) .. x : Asks(t, r)
         \/ Since(log[t][s]) <= lastTime[i]
  ELSE log[t][s].kind = "prompt" => s \in begun[i][t]
Passed(i, t, x) == \A s \in (start[i][t] + 1) .. x : Account(i, t, s, x)
Covered(t, x, todo) ==
  /\ \A m \in todo : \A s \in (x + 1) .. m :
       s \in todo \/ \E r \in todo : r > s /\ Asks(t, r)
  /\ \A q, r \in todo : Asks(t, q) /\ Asks(t, r) => q = r

PollCursor(i, t, k) ==
  LET p == polls[i][t][k]
  IN /\ p.pc = "fetching" => Passed(i, t, p.from)
     /\ p.pc \in Working => Passed(i, t, p.cur) /\ Covered(t, p.cur, p.todo)

CursorInv(i, t) ==
  /\ last[i][t] # Off => Passed(i, t, last[i][t])
  /\ \A k \in Slots : PollCursor(i, t, k)
HandledInv(i) == handled[i] \subseteq begun[i][Inbound]

(* The topics an instance made for a request, and those it polls.          *)
Made(i, s) == {t \in 1 .. Len(origin) : origin[t] = [request |-> s, by |-> i]}
Served(i, s) == {t \in Made(i, s) : last[i][t] # Off}
AtMostOne(S) == \A a, b \in S : a = b
AtMostTwo(S) == \A a, b, c \in S : a = b \/ b = c \/ a = c

RequestInv(i, s) ==
  /\ Made(i, s) # {} => /\ status[i] # "new"
                        /\ status[i] = "up" => s \in handled[i]
                        /\ Made(i, s) \cap queue[i] = {}
  /\ AtMostTwo(Made(i, s)) /\ AtMostOne(Served(i, s))
HandlerInv(i, k) ==
  LET p == polls[i][Inbound][k]
  IN /\ p.pc = "creating" => Made(i, p.cur) = {}
     /\ p.pc = "recreating" => AtMostOne(Made(i, p.cur))
     /\ p.pc \in Creating \ {"greeting"} => Served(i, p.cur) = {}
     /\ p.pc \in Creating => \A j \in Slots : j # k =>
          ~(polls[i][Inbound][j].pc \in Creating /\ polls[i][Inbound][j].cur = p.cur)
TopicInv(i) ==
  /\ \A t \in queue[i] : last[i][t] = Off
  /\ \A s \in Nat \ {0} : RequestInv(i, s)
  /\ \A k \in Slots : HandlerInv(i, k)

(* With one poll at a time, the poll is where the cursor is, and what the  *)
(* instance answered is behind it.                                         *)
SerialInv(i, t) ==
  \A k \in Slots :
    /\ polls[i][t][k].pc = "fetching" => polls[i][t][k].from = last[i][t]
    /\ polls[i][t][k].pc \in Working => polls[i][t][k].cur = last[i][t]
LogInv ==
  \A t \in Topics : \A n \in 1 .. Len(log[t]) :
    /\ log[t][n].kind = "prompt" => n <= MaxMessages
    /\ log[t][n].kind = "reply" =>
         log[t][n].re \in 1 .. Len(log[t]) /\ log[t][log[t][n].re].kind = "prompt"
Behind(i, t, s) ==
  /\ status[i] # "new"
  /\ status[i] = "up" =>
       /\ s <= last[i][t]
       /\ \A k \in Slots : polls[i][t][k].pc = "answering" => s # polls[i][t][k].cur
Reply(m, i) == m.kind = "reply" /\ m.from = i
ReplyInv(i, t) ==
  \A n \in 1 .. Len(log[t]) : Reply(log[t][n], i) =>
    /\ Behind(i, t, log[t][n].re)
    /\ \A m \in 1 .. Len(log[t]) :
         Reply(log[t][m], i) /\ log[t][m].re = log[t][n].re => m = n
-----------------------------------------------------------------------------
(* Functions changed in one place.                                         *)
LEMMA Update2 ==
  ASSUME NEW A, NEW B, NEW S, NEW f \in [A -> [B -> S]],
         NEW i \in A, NEW t \in B, NEW v \in S, NEW g, g = [f EXCEPT ![i][t] = v]
  PROVE  /\ g \in [A -> [B -> S]] /\ g[i][t] = v
         /\ \A u \in B : u # t => g[i][u] = f[i][u]
         /\ \A j \in A : j # i => g[j] = f[j]
  OBVIOUS

LEMMA Update3 ==
  ASSUME NEW A, NEW B, NEW C, NEW S, NEW f \in [A -> [B -> [C -> S]]],
         NEW i \in A, NEW t \in B, NEW k \in C, NEW v \in S,
         NEW g, g = [f EXCEPT ![i][t][k] = v]
  PROVE  /\ g \in [A -> [B -> [C -> S]]] /\ g[i][t][k] = v
         /\ \A l \in C : l # k => g[i][t][l] = f[i][t][l]
         /\ \A u \in B : u # t => g[i][u] = f[i][u]
         /\ \A j \in A : j # i => g[j] = f[j]
  OBVIOUS
-----------------------------------------------------------------------------
(* The network: logs and the list of topics only grow.                     *)
LogGrows ==
  \A t \in All : /\ Len(log[t]) <= Len(log'[t])
                 /\ \A n \in 1 .. Len(log[t]) : log'[t][n] = log[t][n]
OriginGrows ==
  /\ Len(origin) <= Len(origin')
  /\ \A t \in 1 .. Len(origin) : origin'[t] = origin[t]

(* What a step adds to the log of a topic.                                 *)
Appended(t, m) ==
  /\ Len(log'[t]) = Len(log[t]) + 1 /\ log'[t][Len(log[t]) + 1] = m
  /\ \A u \in All : u # t => log'[u] = log[u]

LEMMA Lens ==
  ASSUME ChainType
  PROVE  /\ Len(origin) \in Nat /\ MaxTopics \in Nat
         /\ \A t \in All : Len(log[t]) \in Nat /\ t \in Nat
         /\ Inbound \in All /\ Topics \subseteq All
  BY MonitorAssumption, LenProperties DEF ChainType, All, Topics, Inbound

LEMMA LogSame ==
  ASSUME ChainType, log' = log
  PROVE  log' \in [All -> Seq(Messages)] /\ LogGrows
<1>1. \A t \in All : Len(log[t]) \in Nat
  BY Lens
<1> QED
  BY <1>1 DEF LogGrows, ChainType

LEMMA OriginSame ==
  ASSUME ChainType, origin' = origin
  PROVE  OriginGrows
<1>1. Len(origin) \in Nat
  BY Lens
<1> QED
  BY <1>1 DEF OriginGrows

LEMMA LogAppend ==
  ASSUME ChainType, NEW t \in All, NEW m \in Messages,
         log' = [log EXCEPT ![t] = Append(@, m)]
  PROVE  log' \in [All -> Seq(Messages)] /\ LogGrows /\ Appended(t, m)
<1>1. log \in [All -> Seq(Messages)]
  BY DEF ChainType
<1>2. log[t] \in Seq(Messages)
  BY <1>1
<1>3. /\ Append(log[t], m) \in Seq(Messages)
      /\ Len(Append(log[t], m)) = Len(log[t]) + 1
      /\ \A n \in 1 .. Len(log[t]) : Append(log[t], m)[n] = log[t][n]
      /\ Append(log[t], m)[Len(log[t]) + 1] = m
  BY <1>2, AppendProperties
<1>4. log'[t] = Append(log[t], m) /\ \A u \in All : u # t => log'[u] = log[u]
  BY <1>1
<1>5. log' \in [All -> Seq(Messages)]
  BY <1>1, <1>3
<1>6. \A u \in All : Len(log[u]) \in Nat
  BY Lens
<1>7. LogGrows
  <2> SUFFICES ASSUME NEW u \in All
               PROVE  /\ Len(log[u]) <= Len(log'[u])
                      /\ \A n \in 1 .. Len(log[u]) : log'[u][n] = log[u][n]
    BY DEF LogGrows
  <2>1. CASE u = t
    <3>1. Len(log[t]) <= Len(log'[t])
      BY <1>3, <1>4, <1>6
    <3> QED
      BY <1>3, <1>4, <2>1, <3>1
  <2>2. CASE u # t
    <3>1. log'[u] = log[u]
      BY <1>4, <2>2
    <3> QED
      BY <1>6, <3>1
  <2> QED
    BY <2>1, <2>2
<1> QED
  BY <1>3, <1>4, <1>5, <1>7 DEF Appended

(* What respond adds: at most one reply, and an apology.                   *)
Says(i, s) ==
  {Post("reply", i, s), Post("apology", i, s)}
Responded(i, t, s) ==
  /\ \A n \in Len(log[t]) + 1 .. Len(log'[t]) : log'[t][n] \in Says(i, s)
  /\ \A n \in Len(log[t]) + 2 .. Len(log'[t]) : log'[t][n] = Post("apology", i, s)
  /\ \A u \in All : u # t => log'[u] = log[u]

LEMMA LogRespond ==
  ASSUME ChainType, NEW i \in Instances, NEW t \in All, NEW s \in Nat,
         NEW o \in Outcomes,
         log' = [log EXCEPT ![t] = @ \o [n \in DOMAIN o |-> Post(o[n], i, s)]]
  PROVE  log' \in [All -> Seq(Messages)] /\ LogGrows /\ Responded(i, t, s)
<1> DEFINE more == [n \in DOMAIN o |-> Post(o[n], i, s)]
           L == Len(log[t])
<1>1. /\ log \in [All -> Seq(Messages)] /\ log[t] \in Seq(Messages)
      /\ \A u \in All : Len(log[u]) \in Nat
  BY Lens DEF ChainType
<1>2. Says(i, s) \subseteq Messages
  BY DEF Says, Post, Messages, Posts
<1>3. /\ more \in Seq(Says(i, s)) /\ Len(more) \in 0 .. 2
      /\ \A n \in 1 .. Len(more) : more[n] \in Says(i, s)
      /\ \A n \in 2 .. Len(more) : more[n] = Post("apology", i, s)
  <2>1. CASE o = <<"reply">>
    <3>1. more = <<Post("reply", i, s)>>
      BY <2>1
    <3> QED
      BY <3>1 DEF Says
  <2>2. CASE o = <<"reply", "apology">>
    <3>1. more = <<Post("reply", i, s), Post("apology", i, s)>>
      BY <2>2
    <3> QED
      BY <3>1 DEF Says
  <2>3. CASE o = <<"apology">>
    <3>1. more = <<Post("apology", i, s)>>
      BY <2>3
    <3> QED
      BY <3>1 DEF Says
  <2>4. CASE o = <<>>
    <3>1. more = <<>>
      BY <2>4
    <3> QED
      BY <3>1
  <2> QED
    BY <2>1, <2>2, <2>3, <2>4 DEF Outcomes
<1> HIDE DEF more
<1>4. more \in Seq(Messages)
  BY <1>2, <1>3
<1>5. /\ log[t] \o more \in Seq(Messages) /\ Len(log[t] \o more) = L + Len(more)
      /\ \A n \in 1 .. L + Len(more) :
           (log[t] \o more)[n] = IF n <= L THEN log[t][n] ELSE more[n - L]
  BY <1>1, <1>4, ConcatProperties
<1>6. /\ log'[t] = log[t] \o more /\ \A u \in All : u # t => log'[u] = log[u]
  BY <1>1 DEF more
<1>7. log' \in [All -> Seq(Messages)]
  BY <1>1, <1>5 DEF more
<1>8. LogGrows
  <2> SUFFICES ASSUME NEW u \in All
               PROVE  /\ Len(log[u]) <= Len(log'[u])
                      /\ \A n \in 1 .. Len(log[u]) : log'[u][n] = log[u][n]
    BY DEF LogGrows
  <2>1. CASE u = t
    <3>1. L <= L + Len(more)
      BY <1>1, <1>3
    <3>2. \A n \in 1 .. L : n \in 1 .. L + Len(more) /\ n <= L
      BY <1>1, <1>3
    <3> QED
      BY <1>5, <1>6, <2>1, <3>1, <3>2
  <2>2. CASE u # t
    <3>1. log'[u] = log[u]
      BY <1>6, <2>2
    <3> QED
      BY <1>1, <3>1
  <2> QED
    BY <2>1, <2>2
<1>9. ASSUME NEW n \in L + 1 .. Len(log'[t])
      PROVE  log'[t][n] = more[n - L] /\ n - L \in 1 .. Len(more)
  <2>1. n \in 1 .. L + Len(more) /\ ~(n <= L) /\ n - L \in 1 .. Len(more)
    BY <1>1, <1>3, <1>5, <1>6
  <2> QED
    BY <1>5, <1>6, <2>1
<1>10. \A n \in L + 1 .. Len(log'[t]) : log'[t][n] \in Says(i, s)
  BY <1>3, <1>9
<1>11. ASSUME NEW n \in L + 2 .. Len(log'[t])
       PROVE  log'[t][n] = Post("apology", i, s)
  <2>1. n \in L + 1 .. Len(log'[t]) /\ n - L >= 2
    BY <1>1
  <2>2. n - L \in 2 .. Len(more)
    BY <1>3, <1>9, <2>1
  <2> QED
    BY <1>3, <1>9, <2>1, <2>2
<1> QED
  BY <1>6, <1>7, <1>8, <1>10, <1>11 DEF Responded

LEMMA MakeGrows ==
  ASSUME ChainType, NEW r \in Origins, origin' = Append(origin, r), NewTopic \in Topics
  PROVE  /\ origin' \in Seq(Origins) /\ OriginGrows /\ Len(origin') <= MaxTopics
         /\ Len(origin') = Len(origin) + 1 /\ NewTopic = Len(origin) + 1
         /\ origin'[NewTopic] = r
<1>1. origin \in Seq(Origins) /\ Len(origin) \in Nat
  BY Lens DEF ChainType
<1>2. NewTopic = Len(origin) + 1 /\ Len(origin) + 1 <= MaxTopics
  BY <1>1, MonitorAssumption DEF NewTopic, Topics
<1>3. /\ Append(origin, r) \in Seq(Origins)
      /\ Len(Append(origin, r)) = Len(origin) + 1
      /\ \A n \in 1 .. Len(origin) : Append(origin, r)[n] = origin[n]
      /\ Append(origin, r)[Len(origin) + 1] = r
  BY <1>1, AppendProperties
<1> QED
  BY <1>1, <1>2, <1>3 DEF OriginGrows
-----------------------------------------------------------------------------
(* What the parts of a callback do to the memory of an instance.           *)
LoopType ==
  /\ last \in [Instances -> [All -> Nat \cup {Off}]]
  /\ handled \in [Instances -> SUBSET Nat]
  /\ begun \in [Instances -> [All -> SUBSET Nat]]
  /\ lastTime \in [Instances -> Nat]
  /\ polls \in [Instances -> [All -> [Slots -> Poller]]]
LoopSame(j) ==
  /\ last'[j] = last[j] /\ handled'[j] = handled[j] /\ begun'[j] = begun[j]
  /\ lastTime'[j] = lastTime[j] /\ polls'[j] = polls[j]

LEMMA IdleType == Idle \in Poller
  BY DEF Idle, Poller

(* Poll k of topic t changes, and no other poll.                           *)
OnlyPoll(i, t, k) ==
  /\ \A l \in Slots : l # k => polls'[i][t][l] = polls[i][t][l]
  /\ \A u \in All : u # t => polls'[i][u] = polls[i][u]

(* It comes to its end ...                                                 *)
Stops(i, t, k, todo) ==
  /\ \A s \in todo : ~Processed(i, t, s)
  /\ polls'[i][t][k] = Idle
  /\ IF todo = {} THEN last'[i] = last[i]
     ELSE /\ last'[i][t] \in todo /\ \A m \in todo : m <= last'[i][t]
          /\ \A u \in All : u # t => last'[i][u] = last[i][u]
  /\ handled'[i] = handled[i] /\ begun'[i] = begun[i] /\ lastTime'[i] = lastTime[i]
(* ... or begins with a message that makes it wait.                        *)
Takes(i, t, k, todo, s) ==
  /\ s \in todo /\ Processed(i, t, s) /\ \A m \in todo : m < s => ~Processed(i, t, m)
  /\ polls'[i][t][k].pc = IF t = Inbound THEN "creating" ELSE "answering"
  /\ polls'[i][t][k].cur = s /\ polls'[i][t][k].todo = {n \in todo : n > s}
  /\ last'[i][t] = s /\ \A u \in All : u # t => last'[i][u] = last[i][u]
  /\ begun'[i][t] = begun[i][t] \cup {s}
  /\ \A u \in All : u # t => begun'[i][u] = begun[i][u]
  /\ IF t = Inbound
     THEN handled'[i] = handled[i] \cup {s} /\ lastTime'[i] = Time(i, s)
     ELSE handled'[i] = handled[i] /\ lastTime'[i] = lastTime[i]

LEMMA LogStamps ==
  ASSUME ChainType, NEW n \in 1 .. Len(log[Inbound]), log[Inbound][n].kind = "request"
  PROVE  /\ log[Inbound][n].stamp \in Nat /\ log[Inbound][n].at \in Nat
         /\ log[Inbound][n] \in Requests
<1>1. log[Inbound][n] \in Messages
  BY ElementOfSeq, Lens DEF ChainType
<1>2. log[Inbound][n] \in Requests
  <2>1. \A m \in Posts : m.kind # "request"
    BY MonitorAssumption DEF Posts
  <2> QED
    BY <1>1, <2>1 DEF Messages
<1> QED
  BY <1>2, MonitorAssumption DEF Requests

LEMMA TimeType ==
  ASSUME ChainType, NEW i \in Instances,
         NEW s \in 1 .. Len(log[Inbound]), log[Inbound][s].kind = "request"
  PROVE  Time(i, s) \in Nat
<1>1. clock \in Nat
  BY MonitorAssumption DEF ChainType
<1> QED
  BY <1>1, LogStamps DEF Time

LEMMA ResumeDoes ==
  ASSUME ChainType, LoopType, NEW i \in Instances, NEW t \in All, NEW k \in Slots,
         NEW todo, todo \subseteq 1 .. Len(log[t]), last[i][t] # Off,
         handled[i] \subseteq 1 .. Len(log[Inbound]), Resume(i, t, k, todo)
  PROVE  /\ LoopType' /\ \A j \in Instances : j # i => LoopSame(j)
         /\ OnlyPoll(i, t, k)
         /\ Stops(i, t, k, todo) \/ \E s \in todo : Takes(i, t, k, todo, s)
<1> DEFINE work == {s \in todo : Processed(i, t, s)}
           s    == CHOOSE n \in work : \A m \in work : n <= m
           end  == CHOOSE n \in todo : \A m \in todo : m <= n
<1>0. /\ Len(log[t]) \in Nat /\ todo \in SUBSET Nat /\ \A n \in todo : n <= Len(log[t])
      /\ Slots \in SUBSET Nat
  <2>1. Len(log[t]) \in Nat
    BY Lens
  <2>2. \A n \in todo : n \in Nat /\ n <= Len(log[t])
    BY <2>1
  <2>3. Slots \in SUBSET Nat
    BY MonitorAssumption DEF Slots
  <2> QED
    BY <2>1, <2>2, <2>3, Zenon
<1>1. CASE work = {}
  <2>1. polls' = [polls EXCEPT ![i][t][k] = Idle]
        /\ UNCHANGED <<handled, lastTime, begun>>
        /\ last' = IF todo = {} THEN last ELSE [last EXCEPT ![i][t] = end]
    BY <1>1 DEF Resume
  <2>2. /\ polls' \in [Instances -> [All -> [Slots -> Poller]]]
        /\ polls'[i][t][k] = Idle /\ OnlyPoll(i, t, k)
        /\ \A j \in Instances : j # i => polls'[j] = polls[j]
    BY <2>1, IdleType, Update3 DEF LoopType, OnlyPoll
  <2>3. todo # {} => end \in todo /\ end \in Nat /\ \A m \in todo : m <= end
    BY <1>0, GreatestChosen
  <2> HIDE DEF end
  <2>4. /\ last' \in [Instances -> [All -> Nat \cup {Off}]]
        /\ \A j \in Instances : j # i => last'[j] = last[j]
        /\ IF todo = {} THEN last'[i] = last[i]
           ELSE /\ last'[i][t] \in todo /\ \A m \in todo : m <= last'[i][t]
                /\ \A u \in All : u # t => last'[i][u] = last[i][u]
    <3>1. CASE todo = {}
      BY <2>1, <3>1 DEF LoopType
    <3>2. CASE todo # {}
      <4>1. last' = [last EXCEPT ![i][t] = end] /\ end \in Nat \cup {Off}
        BY <2>1, <2>3, <3>2
      <4>2. last \in [Instances -> [All -> Nat \cup {Off}]]
        BY DEF LoopType
      <4>3. /\ last' \in [Instances -> [All -> Nat \cup {Off}]] /\ last'[i][t] = end
            /\ \A u \in All : u # t => last'[i][u] = last[i][u]
            /\ \A j \in Instances : j # i => last'[j] = last[j]
        BY <4>1, <4>2, Update2
      <4> QED
        BY <2>3, <3>2, <4>3
    <3> QED
      BY <3>1, <3>2
  <2>5. \A n \in todo : ~Processed(i, t, n)
    BY <1>1
  <2>6. Stops(i, t, k, todo)
    BY <2>1, <2>2, <2>4, <2>5 DEF Stops
  <2> QED
    BY <2>1, <2>2, <2>4, <2>6 DEF LoopType, LoopSame
<1>2. CASE work # {}
  <2> DEFINE next == [Idle EXCEPT !.pc = IF t = Inbound THEN "creating" ELSE "answering",
                                  !.cur = s, !.todo = {n \in todo : n > s}]
  <2>1. /\ polls' = [polls EXCEPT ![i][t][k] = next]
        /\ last' = [last EXCEPT ![i][t] = s]
        /\ begun' = [begun EXCEPT ![i][t] = @ \cup {s}]
        /\ IF t = Inbound THEN Track(i, s) ELSE UNCHANGED <<handled, lastTime>>
    BY <1>2 DEF Resume
  <2>2. work \in SUBSET Nat
    BY <1>0
  <2>3. s \in work /\ \A m \in work : s <= m
    BY <1>2, <2>2, LeastChosen
  <2>4. s \in todo /\ Processed(i, t, s) /\ s \in Nat
    BY <1>0, <2>3
  <2>5. \A m \in todo : m < s => ~Processed(i, t, m)
    BY <1>0, <2>3, <2>4
  <2> HIDE DEF s, work
  <2>6. /\ next \in Poller /\ next.cur = s /\ next.todo = {n \in todo : n > s}
        /\ next.pc = IF t = Inbound THEN "creating" ELSE "answering"
    <3> DEFINE rest == {n \in todo : n > s}
               pc   == IF t = Inbound THEN "creating" ELSE "answering"
    <3>1. rest \in SUBSET Nat /\ pc \in {"creating", "answering"}
      BY <1>0
    <3> HIDE DEF rest, pc
    <3>2. next = [Idle EXCEPT !.pc = pc, !.cur = s, !.todo = rest]
      BY DEF rest, pc
    <3> HIDE DEF next
    <3>3. next \in Poller /\ next.cur = s /\ next.todo = rest /\ next.pc = pc
      BY <2>4, <3>1, <3>2, IdleType DEF Poller
    <3> QED
      BY <3>3 DEF rest, pc
  <2> HIDE DEF next
  <2>7. /\ polls' \in [Instances -> [All -> [Slots -> Poller]]]
        /\ polls'[i][t][k] = next /\ OnlyPoll(i, t, k)
        /\ \A j \in Instances : j # i => polls'[j] = polls[j]
    BY <2>1, <2>6, Update3 DEF LoopType, OnlyPoll
  <2>8. /\ last' \in [Instances -> [All -> Nat \cup {Off}]] /\ last'[i][t] = s
        /\ \A u \in All : u # t => last'[i][u] = last[i][u]
        /\ \A j \in Instances : j # i => last'[j] = last[j]
    <3>1. s \in Nat \cup {Off} /\ last \in [Instances -> [All -> Nat \cup {Off}]]
      BY <2>4 DEF LoopType
    <3> QED
      BY <2>1, <3>1, Update2
  <2>9. /\ begun' \in [Instances -> [All -> SUBSET Nat]]
        /\ begun'[i][t] = begun[i][t] \cup {s}
        /\ \A u \in All : u # t => begun'[i][u] = begun[i][u]
        /\ \A j \in Instances : j # i => begun'[j] = begun[j]
    <3>1. /\ begun \in [Instances -> [All -> SUBSET Nat]]
          /\ begun' = [begun EXCEPT ![i][t] = begun[i][t] \cup {s}]
          /\ begun[i][t] \cup {s} \in SUBSET Nat
      BY <2>1, <2>4 DEF LoopType
    <3> QED
      BY <3>1, Update2
  <2>10. /\ handled' \in [Instances -> SUBSET Nat] /\ lastTime' \in [Instances -> Nat]
         /\ IF t = Inbound
            THEN handled'[i] = handled[i] \cup {s} /\ lastTime'[i] = Time(i, s)
            ELSE handled'[i] = handled[i] /\ lastTime'[i] = lastTime[i]
         /\ \A j \in Instances : j # i =>
              handled'[j] = handled[j] /\ lastTime'[j] = lastTime[j]
    <3>1. CASE t = Inbound
      <4>1. s \in 1 .. Len(log[Inbound]) /\ log[Inbound][s].kind = "request"
        BY <2>4, <3>1 DEF Processed, Acceptable
      <4>2. Time(i, s) \in Nat
        BY <4>1, TimeType
      <4>3. /\ handled' = [handled EXCEPT ![i] = @ \cup {s}]
            /\ lastTime' = [lastTime EXCEPT ![i] = Time(i, s)]
        BY <2>1, <3>1 DEF Track
      <4> QED
        BY <2>4, <3>1, <4>2, <4>3 DEF LoopType
    <3>2. CASE t # Inbound
      BY <2>1, <3>2 DEF LoopType
    <3> QED
      BY <3>1, <3>2
  <2>11. Takes(i, t, k, todo, s)
    BY <2>4, <2>5, <2>6, <2>7, <2>8, <2>9, <2>10 DEF Takes
  <2>12. LoopType' /\ \A j \in Instances : j # i => LoopSame(j)
    BY <2>7, <2>8, <2>9, <2>10 DEF LoopType, LoopSame
  <2> QED
    BY <2>4, <2>7, <2>11, <2>12
<1> QED
  BY <1>1, <1>2
-----------------------------------------------------------------------------
(* What the actions do to the network.                                     *)
ChainGrows == ChainType' /\ LogGrows /\ OriginGrows
MadeTopic(i, s) ==
  /\ Len(origin') = Len(origin) + 1 /\ NewTopic = Len(origin) + 1
  /\ origin'[Len(origin) + 1] = [request |-> s, by |-> i]

LEMMA ChainSame ==
  ASSUME ChainType, UNCHANGED chainVars, UNCHANGED envVars
  PROVE  ChainGrows /\ log' = log /\ origin' = origin
<1>1. LogGrows /\ OriginGrows
  BY LogSame, OriginSame DEF chainVars
<1> QED
  BY <1>1 DEF ChainGrows, ChainType, chainVars, envVars

LEMMA ChainAppends ==
  ASSUME ChainType, NEW t \in All, NEW m \in Messages,
         log' = [log EXCEPT ![t] = Append(@, m)],
         UNCHANGED <<origin, visible, envVars>>
  PROVE  ChainGrows /\ Appended(t, m)
<1>1. log' \in [All -> Seq(Messages)] /\ LogGrows /\ Appended(t, m)
  BY LogAppend
<1>2. OriginGrows
  BY OriginSame
<1> QED
  BY <1>1, <1>2 DEF ChainGrows, ChainType, envVars

LEMMA SubmitChain ==
  ASSUME ChainType, NEW u \in Users, NEW d \in BOOLEAN, NEW st \in Stamps,
         SubmitRequest(u, d, st)
  PROVE  ChainGrows /\ Appended(Inbound, Request(u, d, st))
<1>1. Request(u, d, st) \in Messages
  <2>1. clock \in Nat
    BY MonitorAssumption DEF ChainType
  <2> QED
    BY <2>1 DEF Request, Messages, Requests
<1>2. Inbound \in All
  BY Lens
<1> QED
  BY <1>1, <1>2, ChainAppends DEF SubmitRequest

LEMMA SendChain ==
  ASSUME ChainType, NEW u \in Users, NEW t \in Topics, NEW kind \in Kinds,
         SendMessage(u, t, kind)
  PROVE  ChainGrows /\ Appended(t, Post(kind, u, 0))
<1>1. Post(kind, u, 0) \in Messages
  BY DEF Post, Messages, Posts
<1>2. t \in All
  BY Lens
<1> QED
  BY <1>1, <1>2, ChainAppends DEF SendMessage

LEMMA MakeChain ==
  ASSUME ChainType, NEW i \in Instances, NEW k \in Slots,
         polls[i][Inbound][k].cur \in Nat, MakeTopic(i, k), UNCHANGED envVars
  PROVE  /\ Announce(NewTopic) =>
              ChainGrows /\ Appended(Inbound, Post("other", "agent", NewTopic))
         /\ UNCHANGED <<log, visible>> => ChainGrows
         /\ MadeTopic(i, polls[i][Inbound][k].cur)
<1> DEFINE r == [request |-> polls[i][Inbound][k].cur, by |-> i]
<1>1. r \in Origins /\ origin' = Append(origin, r) /\ NewTopic \in Topics
  BY DEF MakeTopic, Origins
<1>2. /\ origin' \in Seq(Origins) /\ OriginGrows /\ Len(origin') <= MaxTopics
      /\ Len(origin') = Len(origin) + 1 /\ NewTopic = Len(origin) + 1
      /\ origin'[NewTopic] = r
  BY <1>1, MakeGrows
<1>3. MadeTopic(i, polls[i][Inbound][k].cur)
  BY <1>2 DEF MadeTopic
<1>4. Len(origin) \in Nat /\ Inbound \in All /\ NewTopic \in Nat
  BY <1>2, Lens
<1>5. /\ visible \subseteq 1 .. Len(origin') /\ NewTopic \in 1 .. Len(origin')
      /\ saved \subseteq visible
  BY <1>2, <1>4 DEF ChainType
<1>6. ASSUME Announce(NewTopic)
      PROVE  ChainGrows /\ Appended(Inbound, Post("other", "agent", NewTopic))
  <2>1. Post("other", "agent", NewTopic) \in Messages
    BY <1>4 DEF Post, Messages, Posts
  <2>2. /\ log' \in [All -> Seq(Messages)] /\ LogGrows
        /\ Appended(Inbound, Post("other", "agent", NewTopic))
    BY <1>4, <1>6, <2>1, LogAppend DEF Announce
  <2>3. visible' = visible \cup {NewTopic}
    BY <1>6 DEF Announce
  <2> QED
    BY <1>2, <1>5, <2>2, <2>3 DEF ChainGrows, ChainType, envVars
<1>7. ASSUME UNCHANGED <<log, visible>>
      PROVE  ChainGrows
  <2>1. log' \in [All -> Seq(Messages)] /\ LogGrows
    BY <1>7, LogSame
  <2> QED
    BY <1>2, <1>5, <1>7, <2>1 DEF ChainGrows, ChainType, envVars
<1> QED
  BY <1>3, <1>6, <1>7
-----------------------------------------------------------------------------
(* Types: what a step of others leaves true of an instance.                *)
Same(j) ==
  /\ LoopSame(j) /\ status'[j] = status[j] /\ queue'[j] = queue[j]
  /\ start'[j] = start[j]

LEMMA PollKept ==
  ASSUME TypeInv, ChainGrows, NEW i \in Instances, NEW t \in All, NEW k \in Slots,
         polls'[i][t][k] = polls[i][t][k], last[i][t] # Off => last'[i][t] # Off,
         handled[i] \subseteq handled'[i]
  PROVE  PollType(i, t, k)'
<1> DEFINE p == polls[i][t][k]
<1>1. PollType(i, t, k) /\ ChainType /\ p \in Poller
  BY DEF TypeInv, InstanceType, MemoryType
<1>2. /\ Len(log[t]) \in Nat /\ Len(origin) \in Nat
      /\ Len(log'[t]) \in Nat /\ Len(origin') \in Nat
      /\ Len(log[t]) <= Len(log'[t]) /\ Len(origin) <= Len(origin')
      /\ \A n \in 1 .. Len(log[t]) : log'[t][n] = log[t][n]
      /\ \A u \in 1 .. Len(origin) : origin'[u] = origin[u]
  <2>1. (\A u \in All : Len(log[u]) \in Nat) /\ Len(origin) \in Nat
    BY <1>1, Lens
  <2>2. (\A u \in All : Len(log'[u]) \in Nat) /\ Len(origin') \in Nat
    <3>1. ChainType'
      BY DEF ChainGrows
    <3>2. ChainType' => (\A u \in All : Len(log'[u]) \in Nat) /\ Len(origin') \in Nat
      BY MonitorAssumption, LenProperties DEF ChainType
    <3> QED
      BY <3>1, <3>2
  <2> QED
    BY <2>1, <2>2 DEF ChainGrows, LogGrows, OriginGrows
<1>3. p.from \in Nat /\ p.cur \in Nat /\ p.todo \in SUBSET Nat
  BY <1>1 DEF Poller
<1>4. p.pc \in Working => /\ p.cur \in 1 .. Len(log'[t])
                          /\ p.todo \subseteq (p.cur + 1) .. Len(log'[t])
                          /\ log'[t][p.cur] = log[t][p.cur]
  <2>1. p.pc \in Working => /\ p.cur \in 1 .. Len(log[t])
                            /\ p.todo \subseteq (p.cur + 1) .. Len(log[t])
    BY <1>1 DEF PollType
  <2> HIDE DEF p
  <2>2. p.pc \in Working => p.cur \in 1 .. Len(log'[t]) /\ log'[t][p.cur] = log[t][p.cur]
    BY <1>2, <1>3, <2>1
  <2>3. (p.cur + 1) .. Len(log[t]) \subseteq (p.cur + 1) .. Len(log'[t])
    BY <1>2, <1>3
  <2> QED
    BY <2>1, <2>2, <2>3
<1>5. p.pc \in Serving => /\ p.topic \in 1 .. Len(origin')
                          /\ origin'[p.topic] = [request |-> p.cur, by |-> i]
  <2>1. p.pc \in Serving => /\ p.topic \in 1 .. Len(origin)
                            /\ origin[p.topic] = [request |-> p.cur, by |-> i]
    BY <1>1 DEF PollType
  <2> QED
    BY <1>2, <2>1
<1>6. p.pc = "fetching" => p.from <= Len(log'[t]) /\ p.cur = 0
  BY <1>1, <1>2, <1>3 DEF PollType
<1>7. p.pc = "answering" => t # Inbound /\ log'[t][p.cur].kind = "prompt"
  BY <1>1, <1>4 DEF PollType, Working
<1>8. /\ p.pc = "idle" => p = Idle
      /\ p.pc # "idle" => last'[i][t] # Off
      /\ p.pc \in Creating => t = Inbound /\ p.cur \in handled'[i]
  BY <1>1 DEF PollType
<1> QED
  BY <1>4, <1>5, <1>6, <1>7, <1>8 DEF PollType

LEMMA TypeMoves ==
  ASSUME TypeInv, ChainGrows, NEW i \in Instances, status'[i] = "up",
         queue'[i] \subseteq 0 .. Len(origin), handled[i] \subseteq handled'[i],
         handled'[i] \subseteq 1 .. Len(log[Inbound]),
         \A t \in All : last[i][t] # Off => last'[i][t] # Off,
         \A t \in All : last'[i][t] # Off =>
           start'[i][t] # Off /\ last'[i][t] <= Len(log[t]) /\ t <= Len(origin),
         \A t \in All, k \in Slots :
           polls'[i][t][k] = polls[i][t][k] \/ PollType(i, t, k)',
         MemoryType'
  PROVE  InstanceType(i)'
<1>1. \A t \in All, k \in Slots : PollType(i, t, k)'
  BY PollKept
<1>2. /\ \A t \in All : /\ Len(log[t]) \in Nat /\ Len(log'[t]) \in Nat
                        /\ Len(log[t]) <= Len(log'[t]) /\ t \in Nat
      /\ Len(origin) \in Nat /\ Len(origin') \in Nat /\ Len(origin) <= Len(origin')
      /\ Inbound \in All
  <2>1. ChainType /\ ChainType' /\ LogGrows /\ OriginGrows
    BY DEF ChainGrows, TypeInv
  <2>2. ChainType' => (\A u \in All : Len(log'[u]) \in Nat) /\ Len(origin') \in Nat
    BY MonitorAssumption, LenProperties DEF ChainType
  <2> QED
    BY <2>1, <2>2, Lens DEF LogGrows, OriginGrows
<1>3. queue'[i] \subseteq 0 .. Len(origin')
  BY <1>2
<1>4. handled'[i] \subseteq 1 .. Len(log'[Inbound])
  BY <1>2
<1>5. \A t \in All : last'[i][t] # Off =>
        start'[i][t] # Off /\ last'[i][t] <= Len(log'[t]) /\ t <= Len(origin')
  <2> SUFFICES ASSUME NEW t \in All, last'[i][t] # Off
               PROVE  start'[i][t] # Off /\ last'[i][t] <= Len(log'[t]) /\ t <= Len(origin')
    OBVIOUS
  <2>1. last'[i][t] \in Nat
    BY DEF MemoryType
  <2> QED
    BY <1>2, <2>1
<1> QED
  BY <1>1, <1>3, <1>4, <1>5 DEF InstanceType

LEMMA TypeKeeps ==
  ASSUME TypeInv, ChainGrows, MemoryType', NEW j \in Instances, Same(j)
  PROVE  InstanceType(j)'
<1>1. CASE status[j] = "up"
  <2>1. InstanceType(j)
    BY DEF TypeInv
  <2> QED
    BY <1>1, <2>1, TypeMoves DEF InstanceType, Same, LoopSame
<1>2. CASE status[j] # "up"
  <2>1. InstanceType(j)
    BY DEF TypeInv
  <2>2. \A t \in All, k \in Slots : PollType(j, t, k)'
    BY PollKept DEF Same, LoopSame
  <2>3. queue'[j] = {} /\ \A t \in All : last'[j][t] = Off
    BY <1>2, <2>1 DEF InstanceType, Same, LoopSame
  <2>4. handled'[j] \subseteq 1 .. Len(log'[Inbound])
    <3>1. Inbound \in All /\ Len(log[Inbound]) \in Nat
      BY Lens DEF TypeInv
    <3>2. Len(log[Inbound]) <= Len(log'[Inbound]) /\ Len(log'[Inbound]) \in Nat
      <4>1. ChainType' => Len(log'[Inbound]) \in Nat
        BY <3>1, LenProperties DEF ChainType
      <4> QED
        BY <3>1, <4>1 DEF ChainGrows, LogGrows
    <3> QED
      BY <2>1, <3>1, <3>2 DEF InstanceType, Same, LoopSame
  <2> QED
    BY <2>2, <2>3, <2>4 DEF InstanceType
<1> QED
  BY <1>1, <1>2

LEMMA StepTypes ==
  ASSUME TypeInv, ChainGrows, MemoryType', NEW i \in Instances, InstanceType(i)',
         \A j \in Instances : j # i => Same(j)
  PROVE  TypeInv'
<1>1. \A j \in Instances : InstanceType(j)'
  BY TypeKeeps
<1> QED
  BY <1>1 DEF TypeInv, ChainGrows
-----------------------------------------------------------------------------
(* What a step does, with all that it leaves alone.                        *)
Alone(i) == \A j \in Instances : j # i => Same(j)
Unmoved(i) ==
  /\ status'[i] = status[i] /\ queue'[i] = queue[i] /\ start'[i] = start[i]
Kept(i) ==
  /\ Unmoved(i) /\ last'[i] = last[i] /\ handled'[i] = handled[i]
  /\ begun'[i] = begun[i] /\ lastTime'[i] = lastTime[i]
NoAnswers ==
  \A t \in Topics : \A n \in Len(log[t]) + 1 .. Len(log'[t]) :
    log'[t][n].kind \notin {"prompt", "reply"}

(* A user posts, or nothing happens.                                       *)
Speaks ==
  /\ \A j \in Instances : Same(j)
  /\ origin' = origin
  /\ \/ NoAnswers
     \/ \E t \in Topics : \E m \in Messages :
          /\ Appended(t, m) /\ m.kind = "prompt" /\ Len(log[t]) < MaxMessages

(* An instance is created, or starts to poll a topic on its list.          *)
Enters(i) ==
  /\ log' = log /\ origin' = origin /\ status[i] = "new" /\ status'[i] = "up"
  /\ LoopSame(i) /\ start'[i] = start[i] /\ Alone(i)
Begins(i, t) ==
  /\ last'[i][t] \in 0 .. Len(log[t]) /\ start'[i][t] = last'[i][t]
  /\ \A u \in All : u # t => last'[i][u] = last[i][u] /\ start'[i][u] = start[i][u]
  /\ status'[i] = status[i] /\ handled'[i] = handled[i] /\ begun'[i] = begun[i]
  /\ lastTime'[i] = lastTime[i]
Dequeues(i, t) ==
  /\ log' = log /\ origin' = origin /\ Alone(i) /\ Begins(i, t)
  /\ t \in queue[i] /\ queue'[i] = queue[i] \ {t} /\ polls'[i] = polls[i]

Crashes ==
  /\ log' = log /\ origin' = origin
  /\ \A i \in Instances :
       \/ status[i] # "up" /\ Same(i)
       \/ /\ status[i] = "up" /\ status'[i] = "dead" /\ queue'[i] = {}
          /\ last'[i] = OffAll /\ handled'[i] = {} /\ lastTime'[i] = 0
          /\ polls'[i] = PollNone /\ start'[i] = OffAll /\ begun'[i] = NoneOf

(* A poll reads, fails to read, or goes on.                                *)
Turns(i, t, k) ==
  /\ log' = log /\ origin' = origin /\ Alone(i) /\ Kept(i) /\ OnlyPoll(i, t, k)
  /\ \/ /\ polls[i][t][k].pc = "idle" /\ last[i][t] # Off
        /\ polls'[i][t][k].pc = "fetching" /\ polls'[i][t][k].from = last[i][t]
     \/ polls'[i][t][k] = Idle /\ polls[i][t][k].pc = "fetching"
(* It has passed message x and has todo before it.                         *)
GoesOn(i, t, k, x, todo) ==
  /\ todo \subseteq (x + 1) .. Len(log[t])
  /\ \/ /\ polls[i][t][k].pc = "fetching" /\ x = polls[i][t][k].from
        /\ \E n \in x .. Len(log[t]) : todo = Batch(t, x, n)
     \/ /\ polls[i][t][k].pc \in Working
        /\ x = polls[i][t][k].cur /\ todo = polls[i][t][k].todo
Resumes(i, t, k, x, todo) ==
  /\ Alone(i) /\ Unmoved(i) /\ OnlyPoll(i, t, k) /\ GoesOn(i, t, k, x, todo)
  /\ Stops(i, t, k, todo) \/ \E s \in todo : Takes(i, t, k, todo, s)
  /\ \/ origin' = origin
     \/ /\ polls[i][t][k].pc = "creating"
        /\ MadeTopic(i, polls[i][t][k].cur)
  /\ \/ NoAnswers
     \/ t \in Topics /\ polls[i][t][k].pc = "answering" /\ Responded(i, t, x)

(* A request is handled a step further.                                    *)
Moves(i, k) ==
  LET p == polls[i][Inbound][k]
      q == polls'[i][Inbound][k]
  IN /\ Alone(i) /\ Kept(i) /\ OnlyPoll(i, Inbound, k) /\ NoAnswers
     /\ q.cur = p.cur /\ q.todo = p.todo
     /\ \/ /\ p.pc \in {"creating", "recreating"} /\ q.pc = "confirming"
           /\ MadeTopic(i, p.cur) /\ q.topic = Len(origin) + 1
        \/ /\ p.pc = "creating" /\ q.pc = "recreating"
           /\ origin' = origin \/ MadeTopic(i, p.cur)
        \/ /\ p.pc = "confirming" /\ q.pc = "starting"
           /\ origin' = origin /\ q.topic = p.topic
Serves(i, k) ==
  LET p == polls[i][Inbound][k]
      q == polls'[i][Inbound][k]
  IN /\ log' = log /\ origin' = origin /\ Alone(i) /\ OnlyPoll(i, Inbound, k)
     /\ p.pc = "starting" /\ q.pc = "greeting"
     /\ q.cur = p.cur /\ q.todo = p.todo /\ q.topic = p.topic
     /\ Begins(i, p.topic) /\ queue'[i] = queue[i]

PollStep(i, t, k) ==
  \/ Turns(i, t, k)
  \/ \E x \in Nat, todo \in SUBSET Nat : Resumes(i, t, k, x, todo)
  \/ t = Inbound /\ Moves(i, k)
  \/ t = Inbound /\ Serves(i, k)
Step ==
  \/ Speaks \/ Crashes
  \/ \E i \in Instances :
       \/ Enters(i)
       \/ \E t \in All : Dequeues(i, t)
       \/ \E t \in All, k \in Slots : PollStep(i, t, k)
-----------------------------------------------------------------------------
(* Each action does one of these things, and keeps the types.              *)
LEMMA MemoryOf ==
  ASSUME TypeInv
  PROVE  /\ ChainType /\ LoopType /\ MemoryType
         /\ \A i \in Instances : InstanceType(i)
         /\ \A i \in Instances, t \in All, k \in Slots :
              PollType(i, t, k) /\ polls[i][t][k] \in Poller
  BY DEF TypeInv, MemoryType, LoopType, InstanceType

LEMMA NothingAdded ==
  ASSUME ChainType, log' = log
  PROVE  NoAnswers
<1>1. \A t \in Topics : Len(log[t]) \in Nat
  BY Lens
<1> QED
  BY <1>1 DEF NoAnswers

LEMMA OneAdded ==
  ASSUME ChainType, NEW t \in All, NEW m, Appended(t, m),
         m.kind \notin {"prompt", "reply"} \/ t \notin Topics
  PROVE  NoAnswers
<1>1. \A u \in All : Len(log[u]) \in Nat
  BY Lens
<1> SUFFICES ASSUME NEW u \in Topics, NEW n \in Len(log[u]) + 1 .. Len(log'[u])
             PROVE  log'[u][n].kind \notin {"prompt", "reply"}
  BY DEF NoAnswers
<1>2. u \in All
  BY Lens
<1>3. u = t
  BY <1>1, <1>2 DEF Appended
<1>4. n = Len(log[t]) + 1
  BY <1>1, <1>3 DEF Appended
<1> QED
  BY <1>3, <1>4 DEF Appended

LEMMA Speaking ==
  ASSUME TypeInv, ChainGrows, UNCHANGED <<status, queue, monVars, histVars>>
  PROVE  TypeInv' /\ \A j \in Instances : Same(j)
<1>1. \A j \in Instances : Same(j)
  BY DEF Same, LoopSame, monVars, histVars
<1>2. MemoryType'
  BY DEF TypeInv, MemoryType, monVars, histVars
<1>3. \A j \in Instances : InstanceType(j)'
  BY <1>1, <1>2, TypeKeeps
<1> QED
  BY <1>1, <1>2, <1>3 DEF TypeInv, ChainGrows

LEMMA SubmitStep ==
  ASSUME TypeInv, NEW u \in Users, NEW d \in BOOLEAN, NEW st \in Stamps,
         SubmitRequest(u, d, st)
  PROVE  TypeInv' /\ ChainGrows /\ Speaks
<1>1. ChainType /\ Inbound \in All /\ Inbound \notin Topics
  BY MemoryOf, Lens DEF Inbound, Topics
<1>2. ChainGrows /\ Appended(Inbound, Request(u, d, st))
  BY <1>1, SubmitChain
<1>3. TypeInv' /\ \A j \in Instances : Same(j)
  BY <1>2, Speaking DEF SubmitRequest
<1>4. NoAnswers
  BY <1>1, <1>2, OneAdded
<1> QED
  BY <1>2, <1>3, <1>4 DEF Speaks, SubmitRequest

LEMMA SendStep ==
  ASSUME TypeInv, NEW u \in Users, NEW t \in Topics, NEW kind \in Kinds,
         SendMessage(u, t, kind)
  PROVE  TypeInv' /\ ChainGrows /\ Speaks
<1>1. ChainType /\ t \in All
  BY MemoryOf, Lens
<1>2. ChainGrows /\ Appended(t, Post(kind, u, 0))
  BY <1>1, SendChain
<1>3. TypeInv' /\ \A j \in Instances : Same(j)
  BY <1>2, Speaking DEF SendMessage
<1>4. NoAnswers \/ Post(kind, u, 0).kind = "prompt"
  <2>1. Post(kind, u, 0).kind \in {"prompt", "other"}
    BY MonitorAssumption DEF Post
  <2> QED
    BY <1>1, <1>2, <2>1, OneAdded
<1>5. Post(kind, u, 0) \in Messages
  BY DEF Post, Messages, Posts
<1>6. origin' = origin /\ Len(log[t]) < MaxMessages
  BY DEF SendMessage
<1> QED
  BY <1>2, <1>3, <1>4, <1>5, <1>6 DEF Speaks

LEMMA IdleStep ==
  ASSUME TypeInv, UNCHANGED vars
  PROVE  TypeInv' /\ ChainGrows /\ Speaks
<1>1. ChainGrows /\ log' = log /\ origin' = origin
  BY MemoryOf, ChainSame DEF vars
<1>2. TypeInv' /\ \A j \in Instances : Same(j)
  BY <1>1, Speaking DEF vars
<1> QED
  BY <1>1, <1>2, MemoryOf, NothingAdded DEF Speaks

LEMMA PassStep ==
  ASSUME TypeInv, Pass \/ Reinitialize
  PROVE  TypeInv' /\ ChainGrows /\ Speaks
<1>1. UNCHANGED chainVars /\ UNCHANGED <<status, queue, monVars, histVars>>
  BY DEF Pass, Reinitialize
<1>2. clock' \in 1 .. MaxTime /\ record' \in Records /\ saved' \subseteq visible
  BY MonitorAssumption, MemoryOf DEF Pass, Reinitialize, ChainType
<1>3. ChainGrows
  <2>1. LogGrows /\ OriginGrows
    BY <1>1, MemoryOf, LogSame, OriginSame DEF chainVars
  <2> QED
    BY <1>1, <1>2, <2>1, MemoryOf DEF ChainGrows, ChainType, chainVars
<1>4. TypeInv' /\ \A j \in Instances : Same(j)
  BY <1>1, <1>3, Speaking
<1> QED
  BY <1>1, <1>3, <1>4, MemoryOf, NothingAdded DEF Speaks, chainVars

LEMMA Entering ==
  ASSUME TypeInv, NEW i \in Instances, status[i] = "new", UNCHANGED chainVars,
         UNCHANGED <<monVars, histVars>>, saved' \in SUBSET visible,
         UNCHANGED <<clock, record>>,
         status' = [status EXCEPT ![i] = "up"],
         NEW Q \in SUBSET All, Q \subseteq 0 .. Len(origin),
         queue' = [queue EXCEPT ![i] = Q]
  PROVE  TypeInv' /\ ChainGrows /\ Enters(i)
<1>1. ChainGrows
  <2>1. LogGrows /\ OriginGrows
    BY MemoryOf, LogSame, OriginSame DEF chainVars
  <2>2. ChainType'
    BY MemoryOf DEF ChainType, chainVars
  <2> QED
    BY <2>1, <2>2 DEF ChainGrows
<1>2. /\ status' \in [Instances -> {"new", "up", "dead"}] /\ status'[i] = "up"
      /\ queue' \in [Instances -> SUBSET All] /\ queue'[i] = Q
      /\ \A j \in Instances : j # i => status'[j] = status[j] /\ queue'[j] = queue[j]
  BY DEF TypeInv, MemoryType
<1>3. MemoryType'
  BY <1>2, MemoryOf DEF MemoryType, monVars, histVars
<1>4. Alone(i)
  BY <1>2 DEF Alone, Same, LoopSame, monVars, histVars
<1>5. InstanceType(i)'
  <2>1. InstanceType(i)
    BY MemoryOf
  <2> QED
    BY <1>1, <1>2, <1>3, <2>1, TypeMoves DEF InstanceType, monVars, histVars
<1>6. Enters(i)
  BY <1>2, <1>4 DEF Enters, LoopSame, chainVars, monVars, histVars
<1> QED
  BY <1>1, <1>3, <1>4, <1>5, <1>6, StepTypes DEF Alone

LEMMA EnterStep ==
  ASSUME TypeInv, NEW i \in Instances,
         \/ InitializeAgent(i) \/ StartAgentMonitor(i)
         \/ \E t \in Topics : ConnectToAgent(i, t)
  PROVE  TypeInv' /\ ChainGrows /\ Enters(i)
<1>0. /\ visible \subseteq 1 .. Len(origin) /\ saved \subseteq visible
      /\ Len(origin) \in Nat /\ Len(origin) <= MaxTopics /\ Inbound = 0
      /\ Inbound \in All /\ Topics \subseteq All
      /\ status \in [Instances -> {"new", "up", "dead"}]
  BY MemoryOf, Lens DEF ChainType, MemoryType, Inbound
<1>1. visible \subseteq Topics /\ 1 .. Len(origin) \subseteq 0 .. Len(origin)
  BY <1>0, Lens, MemoryOf DEF Topics
<1>2. CASE InitializeAgent(i)
  <2>1. status[i] = "new"
    BY <1>0, <1>2 DEF InitializeAgent, AgentExists
  <2>2. {Inbound} \in SUBSET All /\ {Inbound} \subseteq 0 .. Len(origin)
    BY <1>0
  <2> QED
    BY <1>0, <1>2, <2>1, <2>2, Entering DEF InitializeAgent, envVars
<1>3. CASE StartAgentMonitor(i)
  <2> DEFINE Q == saved \cup IF record = "replaced" THEN {} ELSE {Inbound}
  <2>1. Q \in SUBSET All /\ Q \subseteq 0 .. Len(origin)
    BY <1>0, <1>1
  <2>2. /\ status[i] = "new" /\ status' = [status EXCEPT ![i] = "up"]
        /\ queue' = [queue EXCEPT ![i] = Q]
        /\ UNCHANGED <<chainVars, envVars, monVars, histVars>>
    BY <1>3 DEF StartAgentMonitor
  <2> HIDE DEF Q
  <2> QED
    BY <1>0, <2>1, <2>2, Entering DEF envVars
<1>4. ASSUME NEW t \in Topics, ConnectToAgent(i, t)
      PROVE  TypeInv' /\ ChainGrows /\ Enters(i)
  <2>1. {t} \in SUBSET All /\ {t} \subseteq 0 .. Len(origin)
        /\ saved \cup {t} \in SUBSET visible
    BY <1>0, <1>1, <1>4 DEF ConnectToAgent
  <2> QED
    BY <1>4, <2>1, Entering DEF ConnectToAgent
<1> QED
  BY <1>2, <1>3, <1>4

LEMMA StartDoes ==
  ASSUME TypeInv, NEW i \in Instances, NEW t \in All, NEW n \in Shown(t),
         StartMonitoring(i, t, n)
  PROVE  /\ last' \in [Instances -> [All -> Nat \cup {Off}]]
         /\ start' \in [Instances -> [All -> Nat \cup {Off}]]
         /\ last'[i][t] = n /\ start'[i][t] = n /\ n \in 0 .. Len(log[t])
         /\ \A u \in All : u # t => last'[i][u] = last[i][u] /\ start'[i][u] = start[i][u]
         /\ \A j \in Instances : j # i => last'[j] = last[j] /\ start'[j] = start[j]
<1>1. /\ last' = [last EXCEPT ![i][t] = n] /\ start' = [start EXCEPT ![i][t] = n]
      /\ n \in 0 .. Len(log[t]) /\ Len(log[t]) \in Nat
  BY MemoryOf, Lens DEF StartMonitoring, Shown
<1>2. /\ last \in [Instances -> [All -> Nat \cup {Off}]]
      /\ start \in [Instances -> [All -> Nat \cup {Off}]]
      /\ n \in Nat \cup {Off}
  BY <1>1, MemoryOf DEF MemoryType
<1>3. /\ last' \in [Instances -> [All -> Nat \cup {Off}]] /\ last'[i][t] = n
      /\ \A u \in All : u # t => last'[i][u] = last[i][u]
      /\ \A j \in Instances : j # i => last'[j] = last[j]
  BY <1>1, <1>2, Update2
<1>4. /\ start' \in [Instances -> [All -> Nat \cup {Off}]] /\ start'[i][t] = n
      /\ \A u \in All : u # t => start'[i][u] = start[i][u]
      /\ \A j \in Instances : j # i => start'[j] = start[j]
  BY <1>1, <1>2, Update2
<1> QED
  BY <1>1, <1>3, <1>4

LEMMA DequeueStep ==
  ASSUME TypeInv, NEW i \in Instances, NEW t \in All, NEW n \in Shown(t),
         StartQueued(i, t, n)
  PROVE  TypeInv' /\ ChainGrows /\ Dequeues(i, t)
<1>1. ChainGrows /\ log' = log /\ origin' = origin
  BY MemoryOf, ChainSame DEF StartQueued
<1>2. /\ last' \in [Instances -> [All -> Nat \cup {Off}]]
      /\ start' \in [Instances -> [All -> Nat \cup {Off}]]
      /\ last'[i][t] = n /\ start'[i][t] = n /\ n \in 0 .. Len(log[t])
      /\ \A u \in All : u # t => last'[i][u] = last[i][u] /\ start'[i][u] = start[i][u]
      /\ \A j \in Instances : j # i => last'[j] = last[j] /\ start'[j] = start[j]
  BY StartDoes DEF StartQueued
<1>3. /\ queue' \in [Instances -> SUBSET All] /\ queue'[i] = queue[i] \ {t}
      /\ \A j \in Instances : j # i => queue'[j] = queue[j]
      /\ t \in queue[i]
  BY MemoryOf DEF MemoryType, StartQueued
<1>4. MemoryType'
  BY <1>2, <1>3, MemoryOf DEF MemoryType, StartQueued
<1>5. Alone(i)
  BY <1>2, <1>3 DEF Alone, Same, LoopSame, StartQueued
<1>6. Dequeues(i, t)
  BY <1>1, <1>2, <1>3, <1>5 DEF Dequeues, Begins, StartQueued
<1>7. InstanceType(i)'
  <2>1. /\ InstanceType(i) /\ Len(log[t]) \in Nat /\ Len(origin) \in Nat
        /\ status[i] \in {"new", "up", "dead"} /\ n \in Nat
    BY <1>2, MemoryOf, Lens DEF MemoryType
  <2>2. status[i] = "up" /\ t \in 0 .. Len(origin)
    BY <1>3, <2>1 DEF InstanceType
  <2>3. /\ status'[i] = "up" /\ queue'[i] \subseteq 0 .. Len(origin)
        /\ handled'[i] = handled[i] /\ handled[i] \subseteq 1 .. Len(log[Inbound])
        /\ \A u \in All, k \in Slots : polls'[i][u][k] = polls[i][u][k]
    BY <1>3, <2>1, <2>2 DEF InstanceType, StartQueued
  <2>4. \A u \in All : last[i][u] # Off => last'[i][u] # Off
    BY <1>2, <2>1 DEF Off
  <2>5. \A u \in All : last'[i][u] # Off =>
          start'[i][u] # Off /\ last'[i][u] <= Len(log[u]) /\ u <= Len(origin)
    <3>1. \A u \in All : last[i][u] # Off =>
            start[i][u] # Off /\ last[i][u] <= Len(log[u]) /\ u <= Len(origin)
      BY <2>1 DEF InstanceType
    <3>2. n # Off /\ n <= Len(log[t]) /\ t <= Len(origin)
      BY <1>2, <2>1, <2>2 DEF Off
    <3> QED
      BY <1>2, <3>1, <3>2
  <2> QED
    BY <1>1, <1>4, <2>3, <2>4, <2>5, TypeMoves
<1> QED
  BY <1>1, <1>4, <1>5, <1>6, <1>7, StepTypes DEF Alone

LEMMA CrashStep ==
  ASSUME TypeInv, Crash
  PROVE  TypeInv' /\ ChainGrows /\ Crashes
<1>1. ChainGrows /\ log' = log /\ origin' = origin
  BY MemoryOf, ChainSame DEF Crash
<1>2. /\ status' = [i \in Instances |-> IF status[i] = "up" THEN "dead" ELSE status[i]]
      /\ queue' = [i \in Instances |-> IF status[i] = "up" THEN {} ELSE queue[i]]
      /\ last' = [i \in Instances |-> IF status[i] = "up" THEN OffAll ELSE last[i]]
      /\ handled' = [i \in Instances |-> IF status[i] = "up" THEN {} ELSE handled[i]]
      /\ lastTime' = [i \in Instances |-> IF status[i] = "up" THEN 0 ELSE lastTime[i]]
      /\ polls' = [i \in Instances |-> IF status[i] = "up" THEN PollNone ELSE polls[i]]
      /\ start' = [i \in Instances |-> IF status[i] = "up" THEN OffAll ELSE start[i]]
      /\ begun' = [i \in Instances |-> IF status[i] = "up" THEN NoneOf ELSE begun[i]]
  BY DEF Crash
<1>3. /\ OffAll \in [All -> Nat \cup {Off}] /\ NoneOf \in [All -> SUBSET Nat]
      /\ PollNone \in [All -> [Slots -> Poller]]
      /\ \A t \in All : OffAll[t] = Off /\ \A k \in Slots : PollNone[t][k] = Idle
  BY IdleType DEF OffAll, NoneOf, PollNone, All
<1>4. MemoryType'
  <2>1. /\ status' \in [Instances -> {"new", "up", "dead"}]
        /\ queue' \in [Instances -> SUBSET All]
        /\ lastTime' \in [Instances -> Nat] /\ handled' \in [Instances -> SUBSET Nat]
    BY <1>2, MemoryOf DEF MemoryType
  <2>2. /\ last' \in [Instances -> [All -> Nat \cup {Off}]]
        /\ start' \in [Instances -> [All -> Nat \cup {Off}]]
        /\ begun' \in [Instances -> [All -> SUBSET Nat]]
        /\ polls' \in [Instances -> [All -> [Slots -> Poller]]]
    BY <1>2, <1>3, MemoryOf DEF MemoryType
  <2> QED
    BY <2>1, <2>2 DEF MemoryType
<1>5. Crashes
  BY <1>1, <1>2 DEF Crashes, Same, LoopSame
<1>6. ASSUME NEW i \in Instances
      PROVE  InstanceType(i)'
  <2>1. CASE Same(i)
    BY <1>1, <1>4, <2>1, TypeKeeps
  <2>2. CASE status[i] = "up"
    <3>1. /\ status'[i] = "dead" /\ queue'[i] = {} /\ handled'[i] = {}
          /\ \A t \in All : last'[i][t] = Off /\ \A k \in Slots : polls'[i][t][k] = Idle
      BY <1>2, <1>3, <2>2
    <3>2. \A t \in All, k \in Slots : PollType(i, t, k)'
      BY <3>1 DEF PollType, Idle, Creating, Working, Serving
    <3> QED
      BY <3>1, <3>2 DEF InstanceType
  <2> QED
    BY <1>5, <2>1, <2>2 DEF Crashes
<1> QED
  BY <1>1, <1>4, <1>5, <1>6 DEF TypeInv, ChainGrows

(* The callbacks.                                                          *)
PollBecomes(i, t, k, p) == polls' = [polls EXCEPT ![i][t][k] = p]

LEMMA PollChanges ==
  ASSUME TypeInv, NEW i \in Instances, NEW t \in All, NEW k \in Slots,
         NEW p \in Poller, PollBecomes(i, t, k, p)
  PROVE  /\ polls' \in [Instances -> [All -> [Slots -> Poller]]]
         /\ polls'[i][t][k] = p /\ OnlyPoll(i, t, k)
         /\ \A j \in Instances : j # i => polls'[j] = polls[j]
         /\ \A u \in All, l \in Slots :
              polls'[i][u][l] = polls[i][u][l] \/ (u = t /\ l = k)
<1>1. polls \in [Instances -> [All -> [Slots -> Poller]]]
  BY MemoryOf DEF MemoryType
<1>2. /\ polls' \in [Instances -> [All -> [Slots -> Poller]]]
      /\ polls'[i][t][k] = p /\ OnlyPoll(i, t, k)
      /\ \A j \in Instances : j # i => polls'[j] = polls[j]
  BY <1>1, Update3 DEF OnlyPoll, PollBecomes
<1> QED
  BY <1>2 DEF OnlyPoll

LEMMA UpWhile ==
  ASSUME TypeInv, NEW i \in Instances, NEW t \in All, last[i][t] # Off
  PROVE  status[i] = "up"
  BY MemoryOf DEF InstanceType

LEMMA PollUp ==
  ASSUME TypeInv, NEW i \in Instances, NEW t \in All, NEW k \in Slots,
         polls[i][t][k].pc # "idle"
  PROVE  status[i] = "up" /\ last[i][t] # Off
<1>1. PollType(i, t, k)
  BY MemoryOf
<1>2. last[i][t] # Off
  BY <1>1 DEF PollType
<1> QED
  BY <1>2, UpWhile

(* A poll changes, and the rest of the instance's memory does not.         *)
LEMMA PollOnly ==
  ASSUME TypeInv, ChainGrows, NEW i \in Instances, NEW t \in All, NEW k \in Slots,
         last[i][t] # Off, NEW p \in Poller, PollBecomes(i, t, k, p),
         PollType(i, t, k)',
         UNCHANGED <<status, queue, last, handled, lastTime, histVars>>
  PROVE  /\ TypeInv' /\ Alone(i) /\ Kept(i) /\ OnlyPoll(i, t, k)
         /\ polls'[i][t][k] = p
<1>1. /\ polls' \in [Instances -> [All -> [Slots -> Poller]]]
      /\ polls'[i][t][k] = p /\ OnlyPoll(i, t, k)
      /\ \A j \in Instances : j # i => polls'[j] = polls[j]
      /\ \A u \in All, l \in Slots :
           polls'[i][u][l] = polls[i][u][l] \/ (u = t /\ l = k)
  BY PollChanges
<1>2. MemoryType'
  BY <1>1, MemoryOf DEF MemoryType, histVars
<1>3. Alone(i) /\ Kept(i)
  BY <1>1 DEF Alone, Same, LoopSame, Kept, Unmoved, histVars
<1>4. InstanceType(i)'
  <2>1. InstanceType(i) /\ status[i] = "up"
    BY MemoryOf, UpWhile
  <2>2. \A u \in All, l \in Slots :
          polls'[i][u][l] = polls[i][u][l] \/ PollType(i, u, l)'
    BY <1>1
  <2>3. /\ status'[i] = "up" /\ queue'[i] \subseteq 0 .. Len(origin)
        /\ handled'[i] = handled[i] /\ handled'[i] \subseteq 1 .. Len(log[Inbound])
        /\ last'[i] = last[i] /\ start'[i] = start[i]
    BY <1>3, <2>1 DEF InstanceType, Kept, Unmoved
  <2>4. \A u \in All : last'[i][u] # Off =>
          start'[i][u] # Off /\ last'[i][u] <= Len(log[u]) /\ u <= Len(origin)
    BY <2>1, <2>3 DEF InstanceType
  <2> QED
    BY <1>2, <2>2, <2>3, <2>4, TypeMoves
<1> QED
  BY <1>1, <1>2, <1>3, <1>4, StepTypes DEF Alone

LEMMA TickStep ==
  ASSUME TypeInv, NEW i \in Instances, NEW t \in All, NEW k \in Slots, Tick(i, t, k)
  PROVE  TypeInv' /\ ChainGrows /\ Turns(i, t, k)
<1>1. ChainGrows /\ log' = log /\ origin' = origin
  BY MemoryOf, ChainSame DEF Tick
<1> DEFINE p == [Idle EXCEPT !.pc = "fetching", !.from = last[i][t]]
<1>2. last[i][t] \in Nat /\ last[i][t] # Off /\ last[i][t] <= Len(log[t])
  BY MemoryOf DEF Tick, MemoryType, InstanceType
<1>3. p \in Poller /\ p.pc = "fetching" /\ p.from = last[i][t] /\ p.cur = 0
  BY <1>2, IdleType DEF Idle, Poller
<1>4. PollBecomes(i, t, k, p)
  BY DEF Tick, PollBecomes
<1> HIDE DEF p
<1>5. polls'[i][t][k] = p
  BY <1>3, <1>4, PollChanges
<1>6. PollType(i, t, k)'
  BY <1>1, <1>2, <1>3, <1>5 DEF PollType, Working, Creating, Serving, Tick
<1>7. TypeInv' /\ Alone(i) /\ Kept(i) /\ OnlyPoll(i, t, k)
  BY <1>1, <1>2, <1>3, <1>4, <1>6, PollOnly DEF Tick
<1> QED
  BY <1>1, <1>2, <1>3, <1>5, <1>7 DEF Turns, Tick

LEMMA FetchFailsStep ==
  ASSUME TypeInv, NEW i \in Instances, NEW t \in All, NEW k \in Slots,
         FetchFails(i, t, k)
  PROVE  TypeInv' /\ ChainGrows /\ Turns(i, t, k)
<1>1. ChainGrows /\ log' = log /\ origin' = origin
  BY MemoryOf, ChainSame DEF FetchFails
<1>2. PollBecomes(i, t, k, Idle) /\ polls[i][t][k].pc = "fetching"
  BY DEF FetchFails, PollBecomes
<1>3. last[i][t] # Off
  BY <1>2, PollUp
<1>4. polls'[i][t][k] = Idle
  BY <1>2, IdleType, PollChanges
<1>5. PollType(i, t, k)'
  BY <1>4 DEF PollType, Idle, Working, Creating, Serving
<1>6. TypeInv' /\ Alone(i) /\ Kept(i) /\ OnlyPoll(i, t, k)
  BY <1>1, <1>2, <1>3, <1>5, IdleType, PollOnly DEF FetchFails
<1> QED
  BY <1>1, <1>2, <1>4, <1>6 DEF Turns

(* A request is handled a step further: the poll holds on to its message.  *)
LEMMA GoToDoes ==
  ASSUME TypeInv, NEW i \in Instances, NEW k \in Slots, NEW pc \in Creating,
         NEW t \in {0} \cup Topics, GoTo(i, k, pc, t)
  PROVE  LET q == polls'[i][Inbound][k]
             p == polls[i][Inbound][k]
         IN /\ PollBecomes(i, Inbound, k, q) /\ q \in Poller
            /\ q.pc = pc /\ q.topic = t /\ q.cur = p.cur /\ q.todo = p.todo
<1> DEFINE p == polls[i][Inbound][k]
           q == [p EXCEPT !.pc = pc, !.topic = t]
<1>0. Inbound \in All
  BY Lens, MemoryOf
<1>1. p \in Poller /\ polls \in [Instances -> [All -> [Slots -> Poller]]]
  BY <1>0, MemoryOf DEF MemoryType
<1>2. /\ q \in Poller /\ q.pc = pc /\ q.topic = t /\ q.cur = p.cur /\ q.todo = p.todo
  BY <1>1 DEF Poller, Creating
<1>3. PollBecomes(i, Inbound, k, q)
  <2> DEFINE v == [p EXCEPT !.pc = pc]
             g == [polls EXCEPT ![i][Inbound][k].pc = pc]
             h == [polls EXCEPT ![i][Inbound][k] = v]
  <2>1. g = h
    BY <1>0, <1>1
  <2>2. polls' = [g EXCEPT ![i][Inbound][k].topic = t]
    BY DEF GoTo
  <2>3. [h EXCEPT ![i][Inbound][k].topic = t] = [h EXCEPT ![i][Inbound][k] = q]
    <3>1. h[i][Inbound][k] = v
      BY <1>0, <1>1
    <3> QED
      BY <3>1
  <2>4. [h EXCEPT ![i][Inbound][k] = q] = [polls EXCEPT ![i][Inbound][k] = q]
    <3> HIDE DEF p, v, q
    <3> QED
      BY <1>0, <1>1
  <2> HIDE DEF g, h, q
  <2> QED
    BY <2>1, <2>2, <2>3, <2>4 DEF PollBecomes
<1> HIDE DEF q
<1>4. polls'[i][Inbound][k] = q
  BY <1>0, <1>2, <1>3, PollChanges
<1> QED
  BY <1>2, <1>3, <1>4

LEMMA HandlerType ==
  ASSUME TypeInv, ChainGrows, NEW i \in Instances, NEW k \in Slots,
         polls[i][Inbound][k].pc \in Creating,
         polls'[i][Inbound][k].cur = polls[i][Inbound][k].cur,
         polls'[i][Inbound][k].todo = polls[i][Inbound][k].todo,
         polls'[i][Inbound][k].pc \in Creating,
         polls'[i][Inbound][k].pc \in Serving =>
           /\ polls'[i][Inbound][k].topic \in 1 .. Len(origin')
           /\ origin'[polls'[i][Inbound][k].topic] =
                [request |-> polls[i][Inbound][k].cur, by |-> i],
         last'[i][Inbound] # Off, handled'[i] = handled[i]
  PROVE  PollType(i, Inbound, k)'
<1> DEFINE p == polls[i][Inbound][k]
<1>0. Inbound \in All /\ Len(log[Inbound]) \in Nat /\ Len(log'[Inbound]) \in Nat
      /\ Len(log[Inbound]) <= Len(log'[Inbound])
  <2>1. Inbound \in All /\ Len(log[Inbound]) \in Nat
    BY Lens, MemoryOf
  <2>2. ChainType' => Len(log'[Inbound]) \in Nat
    BY <2>1, LenProperties DEF ChainType
  <2> QED
    BY <2>1, <2>2 DEF ChainGrows, LogGrows
<1>1. PollType(i, Inbound, k) /\ p \in Poller
  BY <1>0, MemoryOf
<1>2. /\ p.cur \in 1 .. Len(log[Inbound]) /\ p.cur \in handled[i]
      /\ p.todo \subseteq (p.cur + 1) .. Len(log[Inbound]) /\ p.cur \in Nat
  BY <1>1 DEF PollType, Working, Poller
<1>3. /\ p.cur \in 1 .. Len(log'[Inbound])
      /\ p.todo \subseteq (p.cur + 1) .. Len(log'[Inbound])
  BY <1>0, <1>2
<1>4. polls'[i][Inbound][k].pc \notin {"idle", "fetching", "answering"}
  BY DEF Creating
<1> QED
  BY <1>2, <1>3, <1>4 DEF PollType

LEMMA Handles ==
  ASSUME TypeInv, NEW i \in Instances, NEW k \in Slots,
         polls[i][Inbound][k].pc \in Creating
  PROVE  /\ Inbound \in All /\ last[i][Inbound] # Off /\ status[i] = "up"
         /\ polls[i][Inbound][k] \in Poller
         /\ polls[i][Inbound][k].cur \in Nat \ {0}
         /\ polls[i][Inbound][k].cur \in handled[i]
         /\ polls[i][Inbound][k].pc \in Serving =>
              /\ polls[i][Inbound][k].topic \in 1 .. Len(origin)
              /\ polls[i][Inbound][k].topic \in Topics
              /\ origin[polls[i][Inbound][k].topic] =
                   [request |-> polls[i][Inbound][k].cur, by |-> i]
<1>0. /\ Inbound \in All /\ Len(log[Inbound]) \in Nat /\ Len(origin) \in Nat
      /\ Len(origin) <= MaxTopics /\ MaxTopics \in Nat
  BY Lens, MemoryOf DEF ChainType
<1>1. PollType(i, Inbound, k) /\ polls[i][Inbound][k] \in Poller
  BY <1>0, MemoryOf
<1>2. last[i][Inbound] # Off /\ status[i] = "up"
  BY <1>0, PollUp DEF Creating
<1>3. /\ polls[i][Inbound][k].cur \in 1 .. Len(log[Inbound])
      /\ polls[i][Inbound][k].cur \in handled[i]
  BY <1>1 DEF PollType, Working
<1>4. polls[i][Inbound][k].pc \in Serving =>
        /\ polls[i][Inbound][k].topic \in 1 .. Len(origin)
        /\ origin[polls[i][Inbound][k].topic] =
             [request |-> polls[i][Inbound][k].cur, by |-> i]
  BY <1>1 DEF PollType
<1>5. 1 .. Len(origin) \subseteq Topics
  BY <1>0 DEF Topics
<1>6. polls[i][Inbound][k].cur \in Nat \ {0}
  BY <1>0, <1>3
<1> QED
  BY <1>0, <1>1, <1>2, <1>3, <1>4, <1>5, <1>6

(* What the four steps before a topic is served have in common.            *)
LEMMA Moving ==
  ASSUME TypeInv, ChainGrows, NEW i \in Instances, NEW k \in Slots,
         polls[i][Inbound][k].pc \in Creating,
         NEW pc \in Creating, NEW t \in {0} \cup Topics, GoTo(i, k, pc, t),
         pc \in Serving =>
           /\ t \in 1 .. Len(origin')
           /\ origin'[t] = [request |-> polls[i][Inbound][k].cur, by |-> i],
         UNCHANGED <<status, queue, last, handled, lastTime, histVars>>
  PROVE  /\ TypeInv' /\ Alone(i) /\ Kept(i) /\ OnlyPoll(i, Inbound, k)
         /\ polls'[i][Inbound][k].pc = pc /\ polls'[i][Inbound][k].topic = t
         /\ polls'[i][Inbound][k].cur = polls[i][Inbound][k].cur
         /\ polls'[i][Inbound][k].todo = polls[i][Inbound][k].todo
<1> DEFINE q == polls'[i][Inbound][k]
<1>1. /\ PollBecomes(i, Inbound, k, q) /\ q \in Poller
      /\ q.pc = pc /\ q.topic = t /\ q.cur = polls[i][Inbound][k].cur
      /\ q.todo = polls[i][Inbound][k].todo
  BY GoToDoes
<1>2. Inbound \in All /\ last[i][Inbound] # Off
  BY Handles
<1>3. PollType(i, Inbound, k)'
  BY <1>1, <1>2, HandlerType
<1>4. TypeInv' /\ Alone(i) /\ Kept(i) /\ OnlyPoll(i, Inbound, k)
  BY <1>1, <1>2, <1>3, PollOnly
<1> QED
  BY <1>1, <1>4

LEMMA NextLens ==
  ASSUME TypeInv, ChainGrows
  PROVE  /\ \A t \in All : /\ Len(log[t]) \in Nat /\ Len(log'[t]) \in Nat
                           /\ Len(log[t]) <= Len(log'[t]) /\ t \in Nat
         /\ Len(origin) \in Nat /\ Len(origin') \in Nat /\ Len(origin) <= Len(origin')
         /\ Inbound \in All /\ Topics \subseteq All
<1>1. ChainType /\ ChainType' /\ LogGrows /\ OriginGrows
  BY DEF ChainGrows, TypeInv
<1>2. ChainType' => (\A u \in All : Len(log'[u]) \in Nat) /\ Len(origin') \in Nat
  BY MonitorAssumption, LenProperties DEF ChainType
<1> QED
  BY <1>1, <1>2, Lens DEF LogGrows, OriginGrows

LEMMA BatchRange ==
  ASSUME NEW t, NEW x \in Nat, NEW n \in Nat
  PROVE  Batch(t, x, n) \subseteq (x + 1) .. n
  BY DEF Batch

(* Where a poll goes on.                                                   *)
LEMMA GoingOn ==
  ASSUME TypeInv, NEW i \in Instances, NEW t \in All, NEW k \in Slots,
         polls[i][t][k].pc \in Working
  PROVE  /\ polls[i][t][k].cur \in Nat /\ polls[i][t][k].todo \in SUBSET Nat
         /\ GoesOn(i, t, k, polls[i][t][k].cur, polls[i][t][k].todo)
<1>1. PollType(i, t, k) /\ polls[i][t][k] \in Poller
  BY MemoryOf
<1>2. polls[i][t][k].todo \subseteq (polls[i][t][k].cur + 1) .. Len(log[t])
  BY <1>1 DEF PollType
<1>3. polls[i][t][k].cur \in Nat /\ polls[i][t][k].todo \in SUBSET Nat
  BY <1>1 DEF Poller
<1> QED
  BY <1>2, <1>3 DEF GoesOn

LEMMA TakenType ==
  ASSUME TypeInv, ChainGrows, NEW i \in Instances, NEW t \in All, NEW k \in Slots,
         NEW todo, todo \subseteq 1 .. Len(log[t]), NEW s \in todo,
         Takes(i, t, k, todo, s), LoopType'
  PROVE  PollType(i, t, k)'
<1> DEFINE q == polls'[i][t][k]
<1>1. /\ q.pc = IF t = Inbound THEN "creating" ELSE "answering"
      /\ q.cur = s /\ q.todo = {n \in todo : n > s} /\ last'[i][t] = s
      /\ t = Inbound => s \in handled'[i]
      /\ Processed(i, t, s)
  BY DEF Takes
<1>2. /\ Len(log[t]) \in Nat /\ Len(log'[t]) \in Nat /\ Len(log[t]) <= Len(log'[t])
  BY NextLens
<1>3. s \in 1 .. Len(log[t]) /\ s \in 1 .. Len(log'[t]) /\ s \in Nat
  BY <1>2
<1>4. q.todo \subseteq (s + 1) .. Len(log'[t])
  <2>1. \A n \in todo : n \in Nat /\ n <= Len(log'[t])
    BY <1>2
  <2> QED
    BY <1>1, <1>2, <1>3, <2>1
<1>5. log'[t][s] = log[t][s]
  BY <1>3 DEF ChainGrows, LogGrows
<1>6. t # Inbound => log'[t][s].kind = "prompt"
  BY <1>1, <1>5 DEF Processed
<1>7. s # Off
  BY <1>3 DEF Off
<1> QED
  BY <1>1, <1>3, <1>4, <1>6, <1>7 DEF PollType, Working, Creating, Serving

LEMMA Resuming ==
  ASSUME TypeInv, ChainGrows, NEW i \in Instances, NEW t \in All, NEW k \in Slots,
         NEW x \in Nat, NEW todo \in SUBSET Nat, GoesOn(i, t, k, x, todo),
         Resume(i, t, k, todo), UNCHANGED <<status, queue, start>>
  PROVE  /\ TypeInv' /\ Alone(i) /\ Unmoved(i) /\ OnlyPoll(i, t, k)
         /\ Stops(i, t, k, todo) \/ \E s \in todo : Takes(i, t, k, todo, s)
<1>1. polls[i][t][k].pc # "idle"
  BY DEF GoesOn, Working, Creating
<1>2. status[i] = "up" /\ last[i][t] # Off /\ InstanceType(i)
  BY <1>1, PollUp, MemoryOf
<1>3. todo \subseteq 1 .. Len(log[t])
  BY NextLens DEF GoesOn
<1>4. ChainType /\ LoopType /\ handled[i] \subseteq 1 .. Len(log[Inbound])
  BY <1>2, MemoryOf DEF InstanceType
<1>5. /\ LoopType' /\ \A j \in Instances : j # i => LoopSame(j)
      /\ OnlyPoll(i, t, k)
      /\ Stops(i, t, k, todo) \/ \E s \in todo : Takes(i, t, k, todo, s)
  BY <1>2, <1>3, <1>4, ResumeDoes
<1>6. Alone(i) /\ Unmoved(i)
  BY <1>5 DEF Alone, Same, Unmoved
<1>7. MemoryType'
  BY <1>5, MemoryOf DEF MemoryType, LoopType
<1>8. PollType(i, t, k)'
  <2>1. CASE Stops(i, t, k, todo)
    BY <2>1 DEF Stops, PollType, Idle, Working, Creating, Serving
  <2>2. ASSUME NEW s \in todo, Takes(i, t, k, todo, s)
        PROVE  PollType(i, t, k)'
    BY <1>3, <1>5, <2>2, TakenType
  <2> QED
    BY <1>5, <2>1, <2>2
<1>9. /\ last'[i][t] \in Nat /\ last'[i][t] <= Len(log[t])
      /\ \A u \in All : u # t => last'[i][u] = last[i][u]
      /\ handled[i] \subseteq handled'[i]
      /\ handled'[i] \subseteq 1 .. Len(log[Inbound])
  <2>0. last[i][t] \in Nat /\ last[i][t] <= Len(log[t])
    BY <1>2, MemoryOf DEF InstanceType, MemoryType
  <2>1. Len(log[t]) \in Nat /\ \A s \in todo : s <= Len(log[t])
    BY <1>3, NextLens
  <2>2. CASE Stops(i, t, k, todo)
    BY <1>4, <2>0, <2>1, <2>2 DEF Stops
  <2>3. ASSUME NEW s \in todo, Takes(i, t, k, todo, s)
        PROVE  /\ last'[i][t] \in Nat /\ last'[i][t] <= Len(log[t])
               /\ \A u \in All : u # t => last'[i][u] = last[i][u]
               /\ handled[i] \subseteq handled'[i]
               /\ handled'[i] \subseteq 1 .. Len(log[Inbound])
    BY <1>3, <1>4, <2>1, <2>3 DEF Takes
  <2> QED
    BY <1>5, <2>2, <2>3
<1>10. InstanceType(i)'
  <2>1. /\ \A u \in All, l \in Slots :
             polls'[i][u][l] = polls[i][u][l] \/ PollType(i, u, l)'
    BY <1>5, <1>8 DEF OnlyPoll
  <2>2. /\ status'[i] = "up" /\ queue'[i] \subseteq 0 .. Len(origin)
        /\ start'[i] = start[i]
    BY <1>2, <1>6 DEF InstanceType, Unmoved
  <2>3. \A u \in All : last[i][u] # Off => last'[i][u] # Off
    BY <1>9 DEF Off
  <2>4. \A u \in All : last'[i][u] # Off =>
          start'[i][u] # Off /\ last'[i][u] <= Len(log[u]) /\ u <= Len(origin)
    <3>1. \A u \in All : last[i][u] # Off =>
            start[i][u] # Off /\ last[i][u] <= Len(log[u]) /\ u <= Len(origin)
      BY <1>2 DEF InstanceType
    <3> QED
      BY <1>2, <1>9, <2>2, <3>1
  <2> QED
    BY <1>7, <1>9, <2>1, <2>2, <2>3, <2>4, TypeMoves
<1> QED
  BY <1>5, <1>6, <1>7, <1>10, StepTypes DEF Alone

(* The steps of a callback that ends or takes up its next message.         *)
LEMMA FetchedStep ==
  ASSUME TypeInv, NEW i \in Instances, NEW t \in All, NEW k \in Slots,
         NEW n \in Shown(t), Fetched(i, t, k, n)
  PROVE  TypeInv' /\ ChainGrows /\ PollStep(i, t, k)
<1> DEFINE x == polls[i][t][k].from
           todo == Batch(t, x, n)
<1>1. ChainGrows /\ log' = log /\ origin' = origin
  BY MemoryOf, ChainSame DEF Fetched
<1>2. /\ polls[i][t][k].pc = "fetching" /\ n >= x
      /\ Resume(i, t, k, todo) /\ UNCHANGED <<status, queue, start>>
  BY DEF Fetched
<1>3. x \in Nat /\ n \in 0 .. Len(log[t]) /\ Len(log[t]) \in Nat
  BY MemoryOf, Lens DEF Poller, Shown
<1>4. n \in Nat /\ n \in x .. Len(log[t]) /\ n <= Len(log[t])
  BY <1>2, <1>3
<1>5. todo \subseteq (x + 1) .. Len(log[t]) /\ todo \in SUBSET Nat
  <2>1. todo \subseteq (x + 1) .. n
    BY <1>3, <1>4, BatchRange
  <2>2. (x + 1) .. n \subseteq (x + 1) .. Len(log[t]) /\ (x + 1) .. n \subseteq Nat
    BY <1>3, <1>4
  <2> QED
    BY <2>1, <2>2
<1>6. GoesOn(i, t, k, x, todo)
  BY <1>2, <1>4, <1>5 DEF GoesOn
<1>7. NoAnswers
  BY <1>1, MemoryOf, NothingAdded
<1> HIDE DEF x, todo
<1>8. /\ TypeInv' /\ Alone(i) /\ Unmoved(i) /\ OnlyPoll(i, t, k)
      /\ Stops(i, t, k, todo) \/ \E s \in todo : Takes(i, t, k, todo, s)
  BY <1>1, <1>2, <1>3, <1>5, <1>6, Resuming
<1>9. Resumes(i, t, k, x, todo)
  BY <1>1, <1>6, <1>7, <1>8 DEF Resumes
<1> QED
  BY <1>1, <1>3, <1>5, <1>8, <1>9 DEF PollStep

LEMMA RespondStep ==
  ASSUME TypeInv, NEW i \in Instances, NEW t \in Topics, NEW k \in Slots,
         NEW o \in Outcomes, Respond(i, t, k, o)
  PROVE  TypeInv' /\ ChainGrows /\ PollStep(i, t, k)
<1> DEFINE p == polls[i][t][k]
<1>1. /\ p.pc = "answering" /\ Resume(i, t, k, p.todo)
      /\ log' = [log EXCEPT ![t] = @ \o [n \in DOMAIN o |-> Post(o[n], i, p.cur)]]
      /\ UNCHANGED <<origin, visible, envVars, status, queue, start>>
  BY DEF Respond
<1>2. p.pc \in Working /\ t \in All
  BY <1>1, MemoryOf, Lens DEF Working
<1>3. p.cur \in Nat /\ p.todo \in SUBSET Nat /\ GoesOn(i, t, k, p.cur, p.todo)
  BY <1>2, GoingOn
<1>4. log' \in [All -> Seq(Messages)] /\ LogGrows /\ Responded(i, t, p.cur)
  BY <1>1, <1>2, <1>3, MemoryOf, LogRespond
<1>5. ChainGrows
  BY <1>1, <1>4, MemoryOf, OriginSame DEF ChainGrows, ChainType, envVars
<1> HIDE DEF p
<1>6. /\ TypeInv' /\ Alone(i) /\ Unmoved(i) /\ OnlyPoll(i, t, k)
      /\ Stops(i, t, k, p.todo) \/ \E s \in p.todo : Takes(i, t, k, p.todo, s)
  BY <1>1, <1>2, <1>3, <1>5, Resuming, SMTT(30)
<1>7. Resumes(i, t, k, p.cur, p.todo)
  BY <1>1, <1>3, <1>4, <1>6 DEF Resumes, p
<1> QED
  BY <1>3, <1>5, <1>6, <1>7 DEF PollStep

(* What they have in common when a request has been handled.               *)
LEMMA GivingUp ==
  ASSUME TypeInv, ChainGrows, NEW i \in Instances, NEW k \in Slots,
         polls[i][Inbound][k].pc \in Creating, GiveUp(i, k), NoAnswers,
         \/ origin' = origin
         \/ /\ polls[i][Inbound][k].pc = "creating"
            /\ MadeTopic(i, polls[i][Inbound][k].cur),
         UNCHANGED <<status, queue, start>>
  PROVE  TypeInv' /\ PollStep(i, Inbound, k)
<1> DEFINE p == polls[i][Inbound][k]
<1>1. p.pc \in Working /\ Inbound \in All
  BY MemoryOf, Lens DEF Working
<1>2. /\ p.cur \in Nat /\ p.todo \in SUBSET Nat
      /\ GoesOn(i, Inbound, k, p.cur, p.todo)
  BY <1>1, GoingOn
<1>3. Resume(i, Inbound, k, p.todo)
  BY DEF GiveUp
<1> HIDE DEF p
<1>4. /\ TypeInv' /\ Alone(i) /\ Unmoved(i) /\ OnlyPoll(i, Inbound, k)
      /\ \/ Stops(i, Inbound, k, p.todo)
         \/ \E s \in p.todo : Takes(i, Inbound, k, p.todo, s)
  BY <1>1, <1>2, <1>3, Resuming
<1>5. Resumes(i, Inbound, k, p.cur, p.todo)
  BY <1>2, <1>4 DEF Resumes, p
<1> QED
  BY <1>2, <1>4, <1>5 DEF PollStep

LEMMA CreateTopicStep ==
  ASSUME TypeInv, NEW i \in Instances, NEW k \in Slots, CreateTopic(i, k)
  PROVE  TypeInv' /\ ChainGrows /\ PollStep(i, Inbound, k)
<1>1. /\ polls[i][Inbound][k].pc = "creating" /\ MakeTopic(i, k) /\ Announce(NewTopic)
      /\ GoTo(i, k, "confirming", NewTopic) /\ UNCHANGED envVars
      /\ UNCHANGED <<status, queue, last, handled, lastTime, histVars>>
      /\ NewTopic \in Topics
  BY DEF CreateTopic, At, MakeTopic
<1>2. polls[i][Inbound][k].cur \in Nat
  BY <1>1, Handles DEF Creating
<1>3. /\ ChainGrows /\ Appended(Inbound, Post("other", "agent", NewTopic))
      /\ MadeTopic(i, polls[i][Inbound][k].cur)
  BY <1>1, <1>2, MemoryOf, MakeChain
<1>4. NoAnswers
  BY <1>3, MemoryOf, Lens, OneAdded DEF Inbound, Topics
<1>5. /\ NewTopic \in 1 .. Len(origin') /\ NewTopic = Len(origin) + 1
      /\ origin'[NewTopic] = [request |-> polls[i][Inbound][k].cur, by |-> i]
  BY <1>3, MemoryOf, Lens DEF MadeTopic
<1>6. /\ TypeInv' /\ Alone(i) /\ Kept(i) /\ OnlyPoll(i, Inbound, k)
      /\ polls'[i][Inbound][k].pc = "confirming"
      /\ polls'[i][Inbound][k].topic = NewTopic
      /\ polls'[i][Inbound][k].cur = polls[i][Inbound][k].cur
      /\ polls'[i][Inbound][k].todo = polls[i][Inbound][k].todo
  BY <1>1, <1>3, <1>5, Moving DEF Creating
<1>7. Moves(i, k)
  BY <1>1, <1>3, <1>4, <1>5, <1>6 DEF Moves
<1> QED
  BY <1>3, <1>6, <1>7 DEF PollStep

LEMMA CreateDirectStep ==
  ASSUME TypeInv, NEW i \in Instances, NEW k \in Slots, CreateDirect(i, k)
  PROVE  TypeInv' /\ ChainGrows /\ PollStep(i, Inbound, k)
<1>1. /\ polls[i][Inbound][k].pc = "recreating" /\ MakeTopic(i, k)
      /\ GoTo(i, k, "confirming", NewTopic) /\ UNCHANGED <<log, visible, envVars>>
      /\ UNCHANGED <<status, queue, last, handled, lastTime, histVars>>
      /\ NewTopic \in Topics
  BY DEF CreateDirect, At, MakeTopic
<1>2. polls[i][Inbound][k].cur \in Nat
  BY <1>1, Handles DEF Creating
<1>3. ChainGrows /\ MadeTopic(i, polls[i][Inbound][k].cur)
  BY <1>1, <1>2, MemoryOf, MakeChain
<1>4. NoAnswers
  BY <1>1, MemoryOf, NothingAdded
<1>5. /\ NewTopic \in 1 .. Len(origin') /\ NewTopic = Len(origin) + 1
      /\ origin'[NewTopic] = [request |-> polls[i][Inbound][k].cur, by |-> i]
  BY <1>3, MemoryOf, Lens DEF MadeTopic
<1>6. /\ TypeInv' /\ Alone(i) /\ Kept(i) /\ OnlyPoll(i, Inbound, k)
      /\ polls'[i][Inbound][k].pc = "confirming"
      /\ polls'[i][Inbound][k].topic = NewTopic
      /\ polls'[i][Inbound][k].cur = polls[i][Inbound][k].cur
      /\ polls'[i][Inbound][k].todo = polls[i][Inbound][k].todo
  BY <1>1, <1>3, <1>5, Moving DEF Creating
<1>7. Moves(i, k)
  BY <1>1, <1>3, <1>4, <1>5, <1>6 DEF Moves
<1> QED
  BY <1>3, <1>6, <1>7 DEF PollStep

LEMMA CreateFailsStep ==
  ASSUME TypeInv, NEW i \in Instances, NEW k \in Slots,
         NEW made \in BOOLEAN, NEW profile \in BOOLEAN, CreateFails(i, k, made, profile)
  PROVE  TypeInv' /\ ChainGrows /\ PollStep(i, Inbound, k)
<1>1. /\ polls[i][Inbound][k].pc = "creating" /\ UNCHANGED envVars
      /\ IF made THEN MakeTopic(i, k) /\ Announce(NewTopic) ELSE UNCHANGED chainVars
      /\ IF profile THEN /\ GoTo(i, k, "recreating", 0)
                         /\ UNCHANGED <<last, handled, lastTime, begun>>
                    ELSE GiveUp(i, k)
      /\ UNCHANGED <<status, queue, start>>
  BY DEF CreateFails, At
<1>2. polls[i][Inbound][k].cur \in Nat
  BY <1>1, Handles DEF Creating
<1>3. /\ ChainGrows /\ NoAnswers
      /\ origin' = origin \/ MadeTopic(i, polls[i][Inbound][k].cur)
  <2>1. CASE made
    <3>1. /\ ChainGrows /\ Appended(Inbound, Post("other", "agent", NewTopic))
          /\ MadeTopic(i, polls[i][Inbound][k].cur)
      BY <1>1, <1>2, <2>1, MemoryOf, MakeChain
    <3> QED
      BY <3>1, MemoryOf, Lens, OneAdded DEF Inbound, Topics
  <2>2. CASE ~made
    BY <1>1, <2>2, MemoryOf, ChainSame, NothingAdded
  <2> QED
    BY <2>1, <2>2
<1>4. CASE profile
  <2>1. /\ TypeInv' /\ Alone(i) /\ Kept(i) /\ OnlyPoll(i, Inbound, k)
        /\ polls'[i][Inbound][k].pc = "recreating"
        /\ polls'[i][Inbound][k].cur = polls[i][Inbound][k].cur
        /\ polls'[i][Inbound][k].todo = polls[i][Inbound][k].todo
    BY <1>1, <1>3, <1>4, Moving DEF Creating, Serving, histVars
  <2>2. Moves(i, k)
    BY <1>1, <1>3, <2>1 DEF Moves
  <2> QED
    BY <1>3, <2>1, <2>2 DEF PollStep
<1>5. CASE ~profile
  BY <1>1, <1>3, <1>5, GivingUp DEF Creating
<1> QED
  BY <1>4, <1>5

LEMMA ConfirmStep ==
  ASSUME TypeInv, NEW i \in Instances, NEW k \in Slots, Confirm(i, k)
  PROVE  TypeInv' /\ ChainGrows /\ PollStep(i, Inbound, k)
<1> DEFINE t == polls[i][Inbound][k].topic
<1>1. /\ polls[i][Inbound][k].pc = "confirming" /\ visible' = visible \cup {t}
      /\ GoTo(i, k, "starting", t) /\ UNCHANGED <<log, origin, envVars>>
      /\ UNCHANGED <<status, queue, last, handled, lastTime, histVars>>
  BY DEF Confirm, At
<1>2. /\ t \in 1 .. Len(origin) /\ t \in Topics
      /\ origin[t] = [request |-> polls[i][Inbound][k].cur, by |-> i]
  BY <1>1, Handles DEF Creating, Serving
<1> HIDE DEF t
<1>3. ChainGrows
  <2>1. log' \in [All -> Seq(Messages)] /\ LogGrows /\ OriginGrows
    BY <1>1, MemoryOf, LogSame, OriginSame
  <2>2. ChainType
    BY MemoryOf
  <2> QED
    BY <1>1, <1>2, <2>1, <2>2 DEF ChainGrows, ChainType, envVars
<1>4. NoAnswers
  BY <1>1, MemoryOf, NothingAdded
<1>5. /\ TypeInv' /\ Alone(i) /\ Kept(i) /\ OnlyPoll(i, Inbound, k)
      /\ polls'[i][Inbound][k].pc = "starting"
      /\ polls'[i][Inbound][k].topic = t
      /\ polls'[i][Inbound][k].cur = polls[i][Inbound][k].cur
      /\ polls'[i][Inbound][k].todo = polls[i][Inbound][k].todo
  BY <1>1, <1>2, <1>3, Moving DEF Creating
<1>6. Moves(i, k)
  BY <1>1, <1>4, <1>5 DEF Moves, t
<1> QED
  BY <1>3, <1>5, <1>6 DEF PollStep

LEMMA FailsStep ==
  ASSUME TypeInv, NEW i \in Instances, NEW k \in Slots,
         CreateDirectFails(i, k) \/ ConfirmFails(i, k)
  PROVE  TypeInv' /\ ChainGrows /\ PollStep(i, Inbound, k)
<1>1. /\ polls[i][Inbound][k].pc \in Creating /\ GiveUp(i, k)
      /\ UNCHANGED chainVars /\ UNCHANGED envVars /\ UNCHANGED <<status, queue, start>>
  BY DEF CreateDirectFails, ConfirmFails, At, Creating
<1>2. ChainGrows /\ log' = log /\ origin' = origin
  BY <1>1, MemoryOf, ChainSame
<1>3. NoAnswers
  BY <1>2, MemoryOf, NothingAdded
<1> QED
  BY <1>1, <1>2, <1>3, GivingUp

LEMMA GreetStep ==
  ASSUME TypeInv, NEW i \in Instances, NEW k \in Slots, NEW ok \in BOOLEAN,
         Greet(i, k, ok)
  PROVE  TypeInv' /\ ChainGrows /\ PollStep(i, Inbound, k)
<1> DEFINE t == polls[i][Inbound][k].topic
           m == Post("greeting", i, 0)
<1>1. /\ polls[i][Inbound][k].pc = "greeting" /\ GiveUp(i, k)
      /\ log' = IF ok THEN [log EXCEPT ![t] = Append(@, m)] ELSE log
      /\ UNCHANGED <<origin, visible, envVars>> /\ UNCHANGED <<status, queue, start>>
  BY DEF Greet, At
<1>2. t \in Topics /\ t \in All
  BY <1>1, Handles, MemoryOf, Lens DEF Creating, Serving
<1>3. m \in Messages /\ m.kind = "greeting"
  BY DEF Post, Messages, Posts
<1> HIDE DEF t, m
<1>4. ChainGrows /\ NoAnswers
  <2>1. CASE ok
    <3>1. ChainGrows /\ Appended(t, m)
      BY <1>1, <1>2, <1>3, <2>1, MemoryOf, ChainAppends
    <3> QED
      BY <1>2, <1>3, <3>1, MemoryOf, OneAdded
  <2>2. CASE ~ok
    BY <1>1, <2>2, MemoryOf, ChainSame, NothingAdded DEF chainVars
  <2> QED
    BY <2>1, <2>2
<1> QED
  BY <1>1, <1>4, GivingUp DEF Creating

(* The topic that was made for a request is polled.                        *)
LEMMA StartConnectionStep ==
  ASSUME TypeInv, NEW i \in Instances, NEW k \in Slots,
         NEW n \in Shown(polls[i][Inbound][k].topic), StartConnection(i, k, n)
  PROVE  TypeInv' /\ ChainGrows /\ PollStep(i, Inbound, k)
<1> DEFINE t == polls[i][Inbound][k].topic
           q == polls'[i][Inbound][k]
<1>1. /\ polls[i][Inbound][k].pc = "starting" /\ StartMonitoring(i, t, n)
      /\ GoTo(i, k, "greeting", t) /\ UNCHANGED chainVars /\ UNCHANGED envVars
      /\ UNCHANGED <<status, queue, handled, lastTime, begun>>
  BY DEF StartConnection, At
<1>2. /\ t \in 1 .. Len(origin) /\ t \in Topics /\ t \in All
      /\ origin[t] = [request |-> polls[i][Inbound][k].cur, by |-> i]
      /\ status[i] = "up" /\ last[i][Inbound] # Off /\ Inbound \in All
      /\ t <= Len(origin) /\ t # Inbound
  BY <1>1, Handles, MemoryOf, Lens DEF Creating, Serving, Topics, Inbound
<1>3. ChainGrows /\ log' = log /\ origin' = origin
  BY <1>1, MemoryOf, ChainSame, SMTT(30)
<1>4. /\ PollBecomes(i, Inbound, k, q) /\ q \in Poller
      /\ q.pc = "greeting" /\ q.topic = t /\ q.cur = polls[i][Inbound][k].cur
      /\ q.todo = polls[i][Inbound][k].todo
  BY <1>1, <1>2, GoToDoes DEF Creating
<1> HIDE DEF t, q
<1>5. /\ polls' \in [Instances -> [All -> [Slots -> Poller]]]
      /\ OnlyPoll(i, Inbound, k)
      /\ \A j \in Instances : j # i => polls'[j] = polls[j]
      /\ \A u \in All, l \in Slots :
           polls'[i][u][l] = polls[i][u][l] \/ (u = Inbound /\ l = k)
  BY <1>2, <1>4, PollChanges
<1>6. /\ last' \in [Instances -> [All -> Nat \cup {Off}]]
      /\ start' \in [Instances -> [All -> Nat \cup {Off}]]
      /\ last'[i][t] = n /\ start'[i][t] = n /\ n \in 0 .. Len(log[t])
      /\ \A u \in All : u # t => last'[i][u] = last[i][u] /\ start'[i][u] = start[i][u]
      /\ \A j \in Instances : j # i => last'[j] = last[j] /\ start'[j] = start[j]
  BY <1>1, <1>2, StartDoes DEF t
<1>7. MemoryType'
  BY <1>1, <1>5, <1>6, MemoryOf, SMTT(30) DEF MemoryType
<1>8. Alone(i)
  BY <1>1, <1>5, <1>6 DEF Alone, Same, LoopSame
<1>9. PollType(i, Inbound, k)'
  <2>1. last'[i][Inbound] # Off /\ handled'[i] = handled[i]
    BY <1>1, <1>2, <1>6
  <2> QED
    BY <1>1, <1>2, <1>3, <1>4, <2>1, HandlerType DEF q, Creating
<1>10. InstanceType(i)'
  <2>1. InstanceType(i) /\ Len(log[t]) \in Nat
    BY <1>2, MemoryOf, Lens
  <2>2. /\ status'[i] = "up" /\ queue'[i] \subseteq 0 .. Len(origin)
        /\ handled'[i] = handled[i] /\ handled'[i] \subseteq 1 .. Len(log[Inbound])
    BY <1>1, <1>2, <2>1 DEF InstanceType
  <2>3. n \in Nat /\ n # Off /\ n <= Len(log[t])
    BY <1>6, <2>1 DEF Off
  <2>4. \A u \in All : last[i][u] # Off => last'[i][u] # Off
    BY <1>6, <2>3
  <2>5. \A u \in All : last'[i][u] # Off =>
          start'[i][u] # Off /\ last'[i][u] <= Len(log[u]) /\ u <= Len(origin)
    <3>1. \A u \in All : last[i][u] # Off =>
            start[i][u] # Off /\ last[i][u] <= Len(log[u]) /\ u <= Len(origin)
      BY <2>1 DEF InstanceType
    <3> QED
      BY <1>2, <1>6, <2>3, <3>1
  <2>6. \A u \in All, l \in Slots :
          polls'[i][u][l] = polls[i][u][l] \/ PollType(i, u, l)'
    BY <1>5, <1>9
  <2> QED
    BY <1>3, <1>7, <2>2, <2>4, <2>5, <2>6, TypeMoves
<1>11. Begins(i, t)
  BY <1>1, <1>6 DEF Begins
<1>12. Serves(i, k)
  BY <1>1, <1>3, <1>4, <1>5, <1>8, <1>11 DEF Serves, t, q
<1> QED
  BY <1>3, <1>7, <1>8, <1>10, <1>12, <1>2, StepTypes DEF PollStep, Alone
-----------------------------------------------------------------------------
LEMMA CallbackSteps ==
  ASSUME TypeInv, NEW i \in Instances, NEW t \in All, NEW k \in Slots,
         Tick(i, t, k) \/ Settle(i, t, k)
  PROVE  TypeInv' /\ ChainGrows /\ PollStep(i, t, k)
<1>1. CASE Tick(i, t, k)
  BY <1>1, TickStep DEF PollStep
<1>2. CASE \E n \in Shown(t) : Fetched(i, t, k, n)
  BY <1>2, FetchedStep
<1>3. CASE FetchFails(i, t, k)
  BY <1>3, FetchFailsStep DEF PollStep
<1>4. CASE t # Inbound /\ \E o \in Outcomes : Respond(i, t, k, o)
  BY <1>4, RespondStep DEF All
<1>5. CASE t = Inbound /\ InboundStep(i, k)
  BY <1>5, CreateTopicStep, CreateFailsStep, CreateDirectStep, FailsStep, ConfirmStep,
     StartConnectionStep, GreetStep DEF InboundStep
<1> QED
  BY <1>1, <1>2, <1>3, <1>4, <1>5 DEF Settle

LEMMA Steps ==
  ASSUME TypeInv, [Next]_vars
  PROVE  TypeInv' /\ ChainGrows /\ Step
<1>1. CASE UNCHANGED vars
  BY <1>1, IdleStep DEF Step
<1>2. CASE \E u \in Users, d \in BOOLEAN, st \in Stamps : SubmitRequest(u, d, st)
  BY <1>2, SubmitStep DEF Step
<1>3. CASE \E u \in Users, t \in Topics, kind \in Kinds : SendMessage(u, t, kind)
  BY <1>3, SendStep DEF Step
<1>4. CASE \E i \in Instances : \/ InitializeAgent(i) \/ StartAgentMonitor(i)
                                \/ \E t \in Topics : ConnectToAgent(i, t)
  BY <1>4, EnterStep DEF Step
<1>5. CASE \E i \in Instances : \E t \in All : \E n \in Shown(t) : StartQueued(i, t, n)
  BY <1>5, DequeueStep DEF Step
<1>6. CASE \E i \in Instances : Poll(i)
  BY <1>6, CallbackSteps DEF Step, Poll, All
<1>7. CASE Crash
  BY <1>7, CrashStep DEF Step
<1>8. CASE Pass \/ Reinitialize
  BY <1>8, PassStep DEF Step
<1> QED
  BY <1>1, <1>2, <1>3, <1>4, <1>5, <1>6, <1>7, <1>8 DEF Next, All

LEMMA InitTypes == Init => TypeInv
<1> SUFFICES ASSUME Init
             PROVE  TypeInv
  OBVIOUS
<1>1. ChainType
  <2>1. log \in [All -> Seq(Messages)]
    BY DEF Init, All
  <2>2. Earlier \in Nat /\ Earlier <= MaxTopics
    BY MonitorAssumption
  <2>3. origin \in [1 .. Earlier -> Origins]
    BY DEF Init, Origins
  <2>4. origin \in Seq(Origins) /\ Len(origin) = Earlier
    BY <2>2, <2>3, SeqDef, LenProperties
  <2>5. clock \in 1 .. MaxTime /\ record \in Records
    BY MonitorAssumption DEF Init
  <2> QED
    BY <2>1, <2>2, <2>4, <2>5 DEF Init, ChainType
<1>2. /\ OffAll \in [All -> Nat \cup {Off}] /\ NoneOf \in [All -> SUBSET Nat]
      /\ PollNone \in [All -> [Slots -> Poller]]
      /\ \A t \in All : OffAll[t] = Off /\ \A k \in Slots : PollNone[t][k] = Idle
  BY IdleType DEF OffAll, NoneOf, PollNone, All
<1>3. MemoryType
  BY <1>2 DEF Init, MemoryType
<1>4. ASSUME NEW i \in Instances
      PROVE  InstanceType(i)
  <2>1. /\ status[i] = "new" /\ queue[i] = {} /\ handled[i] = {}
        /\ \A t \in All : last[i][t] = Off /\ \A k \in Slots : polls[i][t][k] = Idle
    BY <1>2 DEF Init
  <2>2. \A t \in All, k \in Slots : PollType(i, t, k)
    BY <2>1 DEF PollType, Idle, Creating, Working, Serving
  <2> QED
    BY <2>1, <2>2 DEF InstanceType
<1> QED
  BY <1>1, <1>3, <1>4 DEF TypeInv

LEMMA TypesHold == Spec => []TypeInv
  BY InitTypes, Steps, PTL DEF Spec

LEMMA TypesSuffice == TypeInv => TypeOK
<1> SUFFICES ASSUME TypeInv
             PROVE  TypeOK
  OBVIOUS
<1>1. /\ DOMAIN log = {Inbound} \cup Topics
      /\ origin \in Seq([request : Nat, by : Instances \cup {"earlier"}])
      /\ visible \subseteq 1 .. Len(origin) /\ saved \subseteq visible
      /\ clock \in 1 .. MaxTime /\ record \in Records
  BY DEF TypeInv, ChainType, Origins, All
<1>2. /\ status \in [Instances -> {"new", "up", "dead"}]
      /\ queue \in [Instances -> SUBSET ({Inbound} \cup Topics)]
      /\ last \in [Instances -> [{Inbound} \cup Topics -> Nat \cup {Off}]]
      /\ lastTime \in [Instances -> Nat]
      /\ polls \in [Instances -> [{Inbound} \cup Topics -> [Slots -> Poller]]]
  BY DEF TypeInv, MemoryType, All
<1>3. handled \in [Instances -> SUBSET (1 .. Len(log[Inbound]))]
  BY DEF TypeInv, MemoryType, InstanceType
<1>4. ASSUME NEW i \in Instances, NEW t \in {Inbound} \cup Topics, NEW k \in Slots
      PROVE  /\ polls[i][t][k].pc = "answering" =>
                  t # Inbound /\ log[t][polls[i][t][k].cur].kind = "prompt"
             /\ polls[i][t][k].pc \notin {"idle", "fetching", "answering"} => t = Inbound
             /\ polls[i][t][k].pc = "idle" => polls[i][t][k] = Idle
  <2>1. PollType(i, t, k) /\ polls[i][t][k] \in Poller
    BY MemoryOf DEF All
  <2> QED
    BY <2>1 DEF PollType, Creating, Poller
<1> QED
  BY <1>1, <1>2, <1>3, <1>4 DEF TypeOK

(* Types, for any number of instances, polls and messages: a poll that      *)
(* answers answers a prompt, only one of the inbound topic makes topics,    *)
(* and one that waits for nothing holds nothing.                            *)
THEOREM MonitorTypes == Spec => []TypeOK
  BY TypesHold, TypesSuffice, PTL
-----------------------------------------------------------------------------
(* One topic for each request: what a step does to the topics made for it. *)
LEMMA MadeSame ==
  ASSUME TypeInv, ChainGrows, NEW i \in Instances, NEW r,
         \/ origin' = origin
         \/ \E j \in Instances : \E s : MadeTopic(j, s) /\ (j # i \/ s # r)
  PROVE  Made(i, r)' = Made(i, r)
<1>1. Len(origin) \in Nat
  BY NextLens
<1>2. CASE origin' = origin
  BY <1>2 DEF Made
<1>3. ASSUME NEW j \in Instances, NEW s, MadeTopic(j, s), j # i \/ s # r
      PROVE  Made(i, r)' = Made(i, r)
  <2>1. /\ Len(origin') = Len(origin) + 1
        /\ origin'[Len(origin) + 1] = [request |-> s, by |-> j]
        /\ \A t \in 1 .. Len(origin) : origin'[t] = origin[t]
    BY <1>3 DEF MadeTopic, ChainGrows, OriginGrows
  <2>2. [request |-> s, by |-> j] # [request |-> r, by |-> i]
    <3>1. /\ [request |-> s, by |-> j].by = j /\ [request |-> r, by |-> i].by = i
          /\ [request |-> s, by |-> j].request = s /\ [request |-> r, by |-> i].request = r
      OBVIOUS
    <3> QED
      BY <1>3, <3>1
  <2>3. 1 .. Len(origin') = (1 .. Len(origin)) \cup {Len(origin) + 1}
    BY <1>1, <2>1
  <2> QED
    BY <2>1, <2>2, <2>3 DEF Made
<1> QED
  BY <1>2, <1>3

LEMMA MadeGrows ==
  ASSUME TypeInv, ChainGrows, NEW i \in Instances, NEW r, MadeTopic(i, r)
  PROVE  Made(i, r)' = Made(i, r) \cup {Len(origin) + 1}
<1>1. Len(origin) \in Nat
  BY NextLens
<1>2. /\ Len(origin') = Len(origin) + 1
      /\ origin'[Len(origin) + 1] = [request |-> r, by |-> i]
      /\ \A t \in 1 .. Len(origin) : origin'[t] = origin[t]
  BY DEF MadeTopic, ChainGrows, OriginGrows
<1>3. 1 .. Len(origin') = (1 .. Len(origin)) \cup {Len(origin) + 1}
  BY <1>1, <1>2
<1> QED
  BY <1>2, <1>3 DEF Made

LEMMA MadeTopics ==
  ASSUME TypeInv, NEW i \in Instances, NEW r
  PROVE  \A t \in Made(i, r) : t \in 1 .. Len(origin) /\ t \in Topics /\ t # Inbound
<1>1. Len(origin) \in Nat /\ Len(origin) <= MaxTopics /\ MaxTopics \in Nat
  BY MemoryOf, Lens DEF ChainType
<1> QED
  BY <1>1 DEF Made, Topics, Inbound

LEMMA ServedSame ==
  ASSUME NEW i, NEW r, Made(i, r)' = Made(i, r),
         \A t \in Made(i, r) : last'[i][t] # Off <=> last[i][t] # Off
  PROVE  Served(i, r)' = Served(i, r)
  BY DEF Served

(* Poll l goes on with a request other than r, which no other poll has.     *)
Untouched(i, l, r) ==
  /\ polls'[i][Inbound][l] = polls[i][Inbound][l]
  /\ polls[i][Inbound][l].pc \in Creating =>
       /\ polls[i][Inbound][l].cur # r
       /\ \A j \in Slots : j # l =>
            ~(/\ polls'[i][Inbound][j].pc \in Creating
              /\ polls'[i][Inbound][j].cur = polls[i][Inbound][l].cur)

LEMMA TopicMoves ==
  ASSUME TypeInv, NEW i \in Instances, TopicInv(i),
         status'[i] = status[i], queue'[i] \subseteq queue[i],
         handled[i] \subseteq handled'[i],
         \A t \in queue'[i] : last'[i][t] = Off, NEW r,
         \A s \in Nat \ {0} : s # r =>
           Made(i, s)' = Made(i, s) /\ Served(i, s)' = Served(i, s),
         r \in Nat \ {0} => RequestInv(i, r)',
         \A l \in Slots : HandlerInv(i, l)' \/ Untouched(i, l, r)
  PROVE  TopicInv(i)'
<1>1. ASSUME NEW s \in Nat \ {0}
      PROVE  RequestInv(i, s)'
  <2>1. CASE s = r
    BY <2>1
  <2>2. CASE s # r
    <3>1. RequestInv(i, s)
      BY DEF TopicInv
    <3>2. Made(i, s)' = Made(i, s) /\ Served(i, s)' = Served(i, s)
      BY <2>2
    <3> QED
      BY <3>1, <3>2 DEF RequestInv, AtMostOne, AtMostTwo
  <2> QED
    BY <2>1, <2>2
<1>2. ASSUME NEW l \in Slots, Untouched(i, l, r)
      PROVE  HandlerInv(i, l)'
  <2>0. PICK p : p = polls[i][Inbound][l]
    OBVIOUS
  <2>1. /\ HandlerInv(i, l) /\ polls'[i][Inbound][l] = p
        /\ p.pc \in Creating => p.cur # r
        /\ p.pc \in Creating => \A j \in Slots : j # l =>
             ~(polls'[i][Inbound][j].pc \in Creating /\ polls'[i][Inbound][j].cur = p.cur)
    BY <1>2, <2>0 DEF TopicInv, Untouched
  <2>2. p.pc \in Creating => p.cur \in Nat \ {0}
    BY <2>0, Handles
  <2>3. p.pc \in Creating =>
          Made(i, p.cur)' = Made(i, p.cur) /\ Served(i, p.cur)' = Served(i, p.cur)
    BY <2>1, <2>2
  <2>4. \A q : q \in {"creating", "recreating"} => q \in Creating
    BY DEF Creating
  <2>5. /\ p.pc = "creating" => Made(i, p.cur)' = {}
        /\ p.pc = "recreating" => AtMostOne(Made(i, p.cur))'
        /\ p.pc \in Creating \ {"greeting"} => Served(i, p.cur)' = {}
    BY <2>0, <2>1, <2>3, <2>4 DEF HandlerInv, AtMostOne
  <2> QED
    BY <2>1, <2>5 DEF HandlerInv
<1> QED
  BY <1>1, <1>2 DEF TopicInv

(* The same for a step that makes no topic and serves none.                *)
LEMMA TopicStays ==
  ASSUME TypeInv, NEW i \in Instances, TopicInv(i),
         status'[i] = status[i], queue'[i] \subseteq queue[i],
         handled[i] \subseteq handled'[i],
         \A t \in queue'[i] : last'[i][t] = Off,
         \A s \in Nat \ {0} : Made(i, s)' = Made(i, s) /\ Served(i, s)' = Served(i, s),
         \A l \in Slots : \/ polls'[i][Inbound][l] = polls[i][Inbound][l]
                          \/ polls'[i][Inbound][l].pc \notin Creating
  PROVE  TopicInv(i)'
<1>1. ASSUME NEW l \in Slots
      PROVE  HandlerInv(i, l)' \/ Untouched(i, l, 0)
  <2>1. CASE polls'[i][Inbound][l].pc \notin Creating
    BY <2>1 DEF HandlerInv, Creating
  <2>2. CASE polls'[i][Inbound][l] = polls[i][Inbound][l]
    <3>1. polls[i][Inbound][l].pc \in Creating => polls[i][Inbound][l].cur # 0
      <4> SUFFICES ASSUME polls[i][Inbound][l].pc \in Creating
                   PROVE  polls[i][Inbound][l].cur # 0
        OBVIOUS
      <4>1. polls[i][Inbound][l].cur \in Nat \ {0}
        BY Handles
      <4> QED
        BY <4>1
    <3>2. HandlerInv(i, l)
      BY DEF TopicInv
    <3>3. polls[i][Inbound][l].pc \in Creating => \A j \in Slots : j # l =>
            ~(/\ polls'[i][Inbound][j].pc \in Creating
              /\ polls'[i][Inbound][j].cur = polls[i][Inbound][l].cur)
      BY <3>2 DEF HandlerInv
    <3> QED
      BY <2>2, <3>1, <3>3 DEF Untouched
  <2> QED
    BY <2>1, <2>2
<1>2. 0 \notin Nat \ {0}
  OBVIOUS
<1> QED
  BY <1>1, <1>2, TopicMoves

LEMMA TopicKeeps ==
  ASSUME TypeInv, ChainGrows, NEW j \in Instances, TopicInv(j), Same(j),
         \/ origin' = origin
         \/ \E i \in Instances : \E s : i # j /\ MadeTopic(i, s)
  PROVE  TopicInv(j)'
<1>1. \A s : Made(j, s)' = Made(j, s)
  BY MadeSame
<1>2. /\ status'[j] = status[j] /\ queue'[j] = queue[j] /\ last'[j] = last[j]
      /\ handled'[j] = handled[j] /\ polls'[j] = polls[j]
  BY DEF Same, LoopSame
<1>3. \A s : Served(j, s)' = Served(j, s)
  BY <1>1, <1>2, ServedSame
<1>4. \A t \in queue'[j] : last'[j][t] = Off
  BY <1>2 DEF TopicInv
<1> QED
  BY <1>1, <1>2, <1>3, <1>4, TopicStays

LEMMA TopicEnters ==
  ASSUME TypeInv, TypeInv', ChainGrows, NEW i \in Instances, TopicInv(i), Enters(i)
  PROVE  TopicInv(i)'
<1>1. /\ origin' = origin /\ status[i] = "new" /\ status'[i] = "up"
      /\ last'[i] = last[i] /\ polls'[i] = polls[i]
  BY DEF Enters, LoopSame
<1>2. \A t \in All : last[i][t] = Off
  BY <1>1, MemoryOf DEF InstanceType
<1>3. ASSUME NEW s \in Nat \ {0}
      PROVE  RequestInv(i, s)'
  <2>1. RequestInv(i, s)
    BY DEF TopicInv
  <2>2. Made(i, s) = {}
    BY <1>1, <2>1 DEF RequestInv
  <2>3. Made(i, s)' = {}
    BY <1>1, <2>2 DEF Made
  <2> QED
    BY <2>3 DEF RequestInv, AtMostOne, AtMostTwo, Served
<1>4. ASSUME NEW k \in Slots
      PROVE  HandlerInv(i, k)'
  <2>1. polls[i][Inbound][k].pc = "idle"
    BY <1>2, MemoryOf, Lens, PollUp
  <2> QED
    BY <1>1, <2>1 DEF HandlerInv, Creating
<1>5. \A t \in queue'[i] : last'[i][t] = Off
  <2>1. queue'[i] \subseteq All
    BY DEF TypeInv, MemoryType
  <2> QED
    BY <1>1, <1>2, <2>1
<1> QED
  BY <1>3, <1>4, <1>5 DEF TopicInv

LEMMA TopicDequeues ==
  ASSUME TypeInv, ChainGrows, NEW i \in Instances, NEW t \in All, TopicInv(i),
         Dequeues(i, t)
  PROVE  TopicInv(i)'
<1>1. /\ origin' = origin /\ t \in queue[i] /\ queue'[i] = queue[i] \ {t}
      /\ \A u \in All : u # t => last'[i][u] = last[i][u]
      /\ status'[i] = status[i] /\ handled'[i] = handled[i] /\ polls'[i] = polls[i]
  BY DEF Dequeues, Begins
<1>2. \A s : Made(i, s)' = Made(i, s)
  BY <1>1, MadeSame
<1>3. ASSUME NEW s \in Nat \ {0}
      PROVE  Made(i, s)' = Made(i, s) /\ Served(i, s)' = Served(i, s)
  <2>1. RequestInv(i, s)
    BY DEF TopicInv
  <2>2. t \notin Made(i, s)
    BY <1>1, <2>1 DEF RequestInv
  <2>3. \A u \in Made(i, s) : last'[i][u] = last[i][u]
    BY <1>1, <2>2, MadeTopics DEF All
  <2> QED
    BY <1>2, <2>3, ServedSame
<1>4. \A u \in queue'[i] : last'[i][u] = Off
  <2>1. queue[i] \subseteq All
    BY DEF TypeInv, MemoryType
  <2> QED
    BY <1>1, <2>1 DEF TopicInv
<1> QED
  BY <1>1, <1>3, <1>4, TopicStays

LEMMA TopicCrashes ==
  ASSUME TypeInv, TypeInv', ChainGrows, NEW i \in Instances, TopicInv(i), Crashes
  PROVE  TopicInv(i)'
<1>1. origin' = origin
  BY DEF Crashes
<1>2. CASE Same(i)
  BY <1>1, <1>2, TopicKeeps
<1>3. CASE ~Same(i)
  <2>1. /\ status[i] = "up" /\ status'[i] = "dead" /\ queue'[i] = {}
        /\ last'[i] = OffAll /\ polls'[i] = PollNone
    BY <1>3 DEF Crashes
  <2>2. ASSUME NEW s \in Nat \ {0}
        PROVE  RequestInv(i, s)'
    <3>1. RequestInv(i, s)
      BY DEF TopicInv
    <3>2. Made(i, s)' = Made(i, s)
      BY <1>1, MadeSame
    <3>3. \A t \in Made(i, s) : last'[i][t] = Off
      BY <2>1, MadeTopics DEF OffAll
    <3>4. Served(i, s)' = {}
      BY <3>2, <3>3 DEF Served
    <3> QED
      BY <2>1, <3>1, <3>2, <3>4 DEF RequestInv, AtMostOne, AtMostTwo
  <2>3. ASSUME NEW k \in Slots
        PROVE  HandlerInv(i, k)'
    <3>1. polls'[i][Inbound][k].pc = "idle"
      BY <2>1 DEF PollNone, Idle
    <3> QED
      BY <3>1 DEF HandlerInv, Creating
  <2> QED
    BY <2>1, <2>2, <2>3 DEF TopicInv
<1> QED
  BY <1>2, <1>3

(* A poll of a connection topic, or one that only reads.                   *)
LEMMA TopicTurns ==
  ASSUME TypeInv, ChainGrows, NEW i \in Instances, NEW t \in All, NEW k \in Slots,
         TopicInv(i), Turns(i, t, k)
  PROVE  TopicInv(i)'
<1>1. /\ origin' = origin /\ status'[i] = status[i] /\ queue'[i] = queue[i]
      /\ last'[i] = last[i] /\ handled'[i] = handled[i] /\ OnlyPoll(i, t, k)
      /\ polls'[i][t][k].pc \in {"fetching", "idle"}
      /\ polls[i][t][k].pc \in {"fetching", "idle"}
  BY DEF Turns, Kept, Unmoved, Idle
<1>2. \A s : Made(i, s)' = Made(i, s)
  BY <1>1, MadeSame
<1>3. \A s : Served(i, s)' = Served(i, s)
  BY <1>1, <1>2, ServedSame
<1>4. \A u \in queue'[i] : last'[i][u] = Off
  BY <1>1 DEF TopicInv
<1>5. \A l \in Slots : \/ polls'[i][Inbound][l] = polls[i][Inbound][l]
                       \/ polls'[i][Inbound][l].pc \notin Creating
  <2>1. Inbound \in All
    BY Lens, MemoryOf
  <2> QED
    BY <1>1, <2>1 DEF OnlyPoll, Creating
<1> QED
  BY <1>1, <1>2, <1>3, <1>4, <1>5, TopicStays

(* A topic is made for request r, which has at most one so far.            *)
LEMMA TopicAdded ==
  ASSUME TypeInv, TypeInv', ChainGrows, NEW i \in Instances, TopicInv(i),
         NEW r \in Nat \ {0}, MadeTopic(i, r), status'[i] = "up",
         r \in handled'[i], queue'[i] \subseteq queue[i],
         \A u \in All : last'[i][u] # Off <=> last[i][u] # Off,
         AtMostOne(Made(i, r)), Served(i, r) = {}
  PROVE  RequestInv(i, r)' /\ Served(i, r)' = {} /\ (Made(i, r) = {} => AtMostOne(Made(i, r))')
<1>1. Made(i, r)' = Made(i, r) \cup {Len(origin) + 1}
  BY MadeGrows
<1>2. Len(origin) \in Nat /\ Topics \subseteq All
  BY NextLens
<1>3. \A t \in Made(i, r)' : t \in All
  <2>1. Len(origin') <= MaxTopics /\ Len(origin') \in Nat /\ MaxTopics \in Nat
    BY NextLens, MonitorAssumption DEF TypeInv, ChainType
  <2>2. 1 .. Len(origin') \subseteq Topics
    BY <2>1 DEF Topics
  <2>3. Made(i, r)' \subseteq 1 .. Len(origin')
    BY DEF Made
  <2> QED
    BY <1>2, <2>2, <2>3
<1>4. \A u \in All : last[i][u] # Off => u <= Len(origin)
  BY MemoryOf DEF InstanceType
<1>5. last'[i][Len(origin) + 1] = Off
  <2>1. Len(origin) + 1 \in All
    BY <1>1, <1>3
  <2>2. ~(Len(origin) + 1 <= Len(origin))
    BY <1>2
  <2> QED
    BY <1>4, <2>1, <2>2
<1>6. \A t \in Made(i, r) : last[i][t] = Off /\ t \in All
  BY <1>1, <1>3 DEF Served
<1>7. Served(i, r)' = {}
  BY <1>1, <1>5, <1>6 DEF Served
<1>8. Made(i, r)' \cap queue'[i] = {}
  <2>1. Made(i, r) \cap queue[i] = {}
    <3>1. RequestInv(i, r)
      BY DEF TopicInv
    <3> QED
      BY <3>1 DEF RequestInv
  <2>2. Len(origin) + 1 \notin queue[i]
    <3>1. queue[i] \subseteq 0 .. Len(origin)
      BY MemoryOf DEF InstanceType
    <3> QED
      BY <1>2, <3>1
  <2> QED
    BY <1>1, <2>1, <2>2
<1>9. AtMostTwo(Made(i, r))' /\ AtMostOne(Served(i, r))'
  BY <1>1, <1>7 DEF AtMostOne, AtMostTwo
<1>10. Made(i, r) = {} => AtMostOne(Made(i, r))'
  BY <1>1 DEF AtMostOne
<1> QED
  BY <1>7, <1>8, <1>9, <1>10 DEF RequestInv

LEMMA ResumeLast ==
  ASSUME TypeInv, NEW i \in Instances, NEW t \in All, NEW k \in Slots,
         NEW x \in Nat, NEW todo \in SUBSET Nat, Resumes(i, t, k, x, todo)
  PROVE  /\ \A u \in All : last'[i][u] # Off <=> last[i][u] # Off
         /\ status[i] = "up" /\ handled[i] \subseteq handled'[i]
<1>1. polls[i][t][k].pc # "idle"
  BY DEF Resumes, GoesOn, Working, Creating
<1>2. status[i] = "up" /\ last[i][t] # Off
  BY <1>1, PollUp
<1>3. \A s \in todo : s # Off
  BY DEF Off
<1>4. CASE Stops(i, t, k, todo)
  BY <1>2, <1>3, <1>4 DEF Stops
<1>5. ASSUME NEW s \in todo, Takes(i, t, k, todo, s)
      PROVE  /\ \A u \in All : last'[i][u] # Off <=> last[i][u] # Off
             /\ handled[i] \subseteq handled'[i]
  BY <1>2, <1>3, <1>5 DEF Takes
<1> QED
  BY <1>2, <1>4, <1>5 DEF Resumes

LEMMA TopicResumes ==
  ASSUME TypeInv, TypeInv', ChainGrows, NEW i \in Instances, NEW t \in All,
         NEW k \in Slots, NEW x \in Nat, NEW todo \in SUBSET Nat, TopicInv(i),
         Resumes(i, t, k, x, todo)
  PROVE  TopicInv(i)'
<1>0. PICK c : c = polls[i][Inbound][k].cur
  OBVIOUS
<1>1. /\ \A u \in All : last'[i][u] # Off <=> last[i][u] # Off
      /\ status[i] = "up" /\ handled[i] \subseteq handled'[i]
  BY ResumeLast
<1>2. /\ status'[i] = status[i] /\ queue'[i] = queue[i] /\ OnlyPoll(i, t, k)
      /\ polls[i][t][k].pc \in {"fetching"} \cup Working
      /\ origin' = origin \/ (polls[i][t][k].pc = "creating" /\ MadeTopic(i, polls[i][t][k].cur))
      /\ Stops(i, t, k, todo) \/ \E s \in todo : Takes(i, t, k, todo, s)
  BY DEF Resumes, Unmoved, GoesOn
<1>3. PollType(i, t, k) /\ Inbound \in All /\ Topics \subseteq All
  BY MemoryOf, NextLens
<1>4. \A u \in queue'[i] : last'[i][u] = Off
  <2>1. queue[i] \subseteq All
    BY DEF TypeInv, MemoryType
  <2> QED
    BY <1>1, <1>2, <2>1 DEF TopicInv
<1>5. \A s \in Nat \ {0} : Made(i, s)' = Made(i, s) => Served(i, s)' = Served(i, s)
  BY <1>1, <1>3, MadeTopics, ServedSame
<1>6. CASE t # Inbound
  <2>1. origin' = origin
    BY <1>2, <1>3, <1>6 DEF PollType, Creating
  <2>2. \A s : Made(i, s)' = Made(i, s)
    BY <2>1, MadeSame
  <2>3. \A l \in Slots : polls'[i][Inbound][l] = polls[i][Inbound][l]
    BY <1>2, <1>3, <1>6 DEF OnlyPoll
  <2> QED
    BY <1>1, <1>2, <1>4, <1>5, <2>2, <2>3, TopicStays
<1>7. CASE t = Inbound
  <2>1. \/ c = 0 /\ polls[i][Inbound][k].pc = "fetching"
        \/ polls[i][Inbound][k].pc \in Creating /\ c \in Nat \ {0} /\ c \in handled[i]
    BY <1>0, <1>2, <1>3, <1>7, Handles DEF PollType, Working
  <2>2. origin' = origin \/ (polls[i][Inbound][k].pc = "creating" /\ MadeTopic(i, c))
    BY <1>0, <1>2, <1>7
  <2>3. ASSUME NEW s \in Nat \ {0}, s # c
        PROVE  Made(i, s)' = Made(i, s) /\ Served(i, s)' = Served(i, s)
    <3>1. Made(i, s)' = Made(i, s)
      BY <2>2, <2>3, MadeSame
    <3> QED
      BY <1>5, <3>1
  <2>4. HandlerInv(i, k) /\ \A s \in Nat \ {0} : RequestInv(i, s)
    BY DEF TopicInv
  <2>5. ASSUME c \in Nat \ {0}
        PROVE  RequestInv(i, c)'
    <3>1. CASE origin' = origin
      <4>1. Made(i, c)' = Made(i, c)
        BY <3>1, MadeSame
      <4>2. Served(i, c)' = Served(i, c)
        BY <1>5, <2>5, <4>1
      <4> QED
        BY <1>1, <1>2, <2>4, <2>5, <4>1, <4>2 DEF RequestInv, AtMostOne, AtMostTwo
    <3>2. CASE polls[i][Inbound][k].pc = "creating" /\ MadeTopic(i, c)
      <4>1. Made(i, c) = {} /\ Served(i, c) = {} /\ AtMostOne(Made(i, c))
        BY <1>0, <2>4, <3>2 DEF HandlerInv, Served, AtMostOne
      <4>2. c \in handled'[i] /\ status'[i] = "up" /\ queue'[i] \subseteq queue[i]
        BY <1>1, <1>2, <2>1, <2>5
      <4> QED
        BY <1>1, <2>5, <3>2, <4>1, <4>2, TopicAdded
    <3> QED
      BY <2>2, <3>1, <3>2
  <2>6. ASSUME NEW s \in todo, Takes(i, t, k, todo, s)
        PROVE  s \in Nat \ {0} /\ s \notin handled[i]
    <3>1. s \notin handled[i]
      BY <1>7, <2>6 DEF Takes, Processed, Acceptable
    <3>2. todo \subseteq (x + 1) .. Len(log[t])
      BY DEF Resumes, GoesOn
    <3>3. s \in (x + 1) .. Len(log[t]) /\ Len(log[t]) \in Nat
      BY <3>2, NextLens
    <3>4. s \in Nat \ {0}
      BY <3>3
    <3> QED
      BY <3>1, <3>4
  <2>7. ASSUME NEW l \in Slots, l # k
        PROVE  Untouched(i, l, c)
    <3>0. PICK d : d = polls[i][Inbound][l].cur
      OBVIOUS
    <3>1. \A j \in Slots : j # k => polls'[i][Inbound][j] = polls[i][Inbound][j]
      BY <1>2, <1>7 DEF OnlyPoll
    <3>2. ASSUME polls[i][Inbound][l].pc \in Creating
          PROVE  /\ d # c
                 /\ \A j \in Slots : j # l =>
                      ~(polls'[i][Inbound][j].pc \in Creating /\ polls'[i][Inbound][j].cur = d)
      <4>1. d \in Nat \ {0} /\ d \in handled[i]
        BY <3>0, <3>2, Handles
      <4>2. \A j \in Slots : j # l =>
              ~(polls[i][Inbound][j].pc \in Creating /\ polls[i][Inbound][j].cur = d)
        BY <3>0, <3>2 DEF TopicInv, HandlerInv
      <4>3. d # c
        BY <1>0, <2>1, <2>7, <4>1, <4>2
      <4>4. ~(polls'[i][Inbound][k].pc \in Creating /\ polls'[i][Inbound][k].cur = d)
        <5>1. CASE Stops(i, t, k, todo)
          BY <1>7, <5>1 DEF Stops, Idle, Creating
        <5>2. ASSUME NEW s \in todo, Takes(i, t, k, todo, s)
              PROVE  polls'[i][Inbound][k].cur # d
          BY <1>7, <2>6, <4>1, <5>2 DEF Takes
        <5> QED
          BY <1>2, <5>1, <5>2
      <4> QED
        BY <3>1, <4>2, <4>3, <4>4
    <3> QED
      BY <2>7, <3>0, <3>1, <3>2 DEF Untouched
  <2>8. HandlerInv(i, k)'
    <3>1. CASE Stops(i, t, k, todo)
      BY <1>7, <3>1 DEF Stops, HandlerInv, Idle, Creating
    <3>2. ASSUME NEW s \in todo, Takes(i, t, k, todo, s)
          PROVE  HandlerInv(i, k)'
      <4>1. s \in Nat \ {0} /\ s \notin handled[i] /\ s # c
        BY <2>1, <2>6, <3>2
      <4>2. Made(i, s) = {} /\ Served(i, s) = {}
        BY <1>1, <2>4, <4>1 DEF RequestInv, Served
      <4>3. Made(i, s)' = {} /\ Served(i, s)' = {}
        BY <2>3, <4>1, <4>2
      <4>4. /\ polls'[i][Inbound][k].pc = "creating" /\ polls'[i][Inbound][k].cur = s
        BY <1>7, <3>2 DEF Takes
      <4>5. \A j \in Slots : j # k =>
              ~(polls'[i][Inbound][j].pc \in Creating /\ polls'[i][Inbound][j].cur = s)
        <5>1. \A j \in Slots : j # k => polls'[i][Inbound][j] = polls[i][Inbound][j]
          BY <1>2, <1>7 DEF OnlyPoll
        <5>2. \A j \in Slots : polls[i][Inbound][j].pc \in Creating =>
                                 polls[i][Inbound][j].cur \in handled[i]
          BY Handles
        <5> QED
          BY <4>1, <5>1, <5>2
      <4> QED
        BY <4>3, <4>4, <4>5 DEF HandlerInv
    <3> QED
      BY <1>2, <3>1, <3>2
  <2>9. \A l \in Slots : HandlerInv(i, l)' \/ Untouched(i, l, c)
    BY <2>7, <2>8
  <2>10. \A s \in Nat \ {0} : s # c =>
           Made(i, s)' = Made(i, s) /\ Served(i, s)' = Served(i, s)
    BY <2>3
  <2>11. status'[i] = status[i] /\ queue'[i] \subseteq queue[i]
    BY <1>2
  <2> HIDE DEF Untouched, HandlerInv, RequestInv
  <2> QED
    BY <1>1, <1>4, <2>5, <2>9, <2>10, <2>11, TopicMoves
<1> QED
  BY <1>6, <1>7

(* The other polls, while poll k stays with its request.                   *)
LEMMA OthersUntouched ==
  ASSUME TypeInv, NEW i \in Instances, TopicInv(i), NEW k \in Slots,
         OnlyPoll(i, Inbound, k), polls[i][Inbound][k].pc \in Creating,
         polls'[i][Inbound][k].cur = polls[i][Inbound][k].cur, NEW c,
         c = polls[i][Inbound][k].cur
  PROVE  /\ \A l \in Slots : l # k => Untouched(i, l, c)
         /\ \A j \in Slots : j # k =>
              ~(polls'[i][Inbound][j].pc \in Creating /\ polls'[i][Inbound][j].cur = c)
<1>1. \A j \in Slots : j # k => polls'[i][Inbound][j] = polls[i][Inbound][j]
  BY DEF OnlyPoll
<1>2. \A j \in Slots : j # k =>
        ~(polls[i][Inbound][j].pc \in Creating /\ polls[i][Inbound][j].cur = c)
  BY DEF TopicInv, HandlerInv
<1>3. ASSUME NEW l \in Slots, l # k
      PROVE  Untouched(i, l, c)
  <2>0. PICK d : d = polls[i][Inbound][l].cur
    OBVIOUS
  <2>1. ASSUME polls[i][Inbound][l].pc \in Creating
        PROVE  /\ d # c
               /\ \A j \in Slots : j # l =>
                    ~(polls'[i][Inbound][j].pc \in Creating /\ polls'[i][Inbound][j].cur = d)
    <3>1. d # c
      BY <1>2, <1>3, <2>0, <2>1
    <3>2. \A j \in Slots : j # l =>
            ~(polls[i][Inbound][j].pc \in Creating /\ polls[i][Inbound][j].cur = d)
      BY <2>0, <2>1 DEF TopicInv, HandlerInv
    <3> QED
      BY <1>1, <3>1, <3>2
  <2> QED
    BY <1>1, <1>3, <2>0, <2>1 DEF Untouched
<1> QED
  BY <1>1, <1>2, <1>3

LEMMA TopicWorks ==
  ASSUME TypeInv, TypeInv', ChainGrows, NEW i \in Instances, NEW k \in Slots,
         TopicInv(i), Moves(i, k)
  PROVE  TopicInv(i)'
<1>0. PICK c : c = polls[i][Inbound][k].cur
  OBVIOUS
<1>1. /\ polls[i][Inbound][k].pc \in {"creating", "recreating", "confirming"}
      /\ OnlyPoll(i, Inbound, k) /\ polls'[i][Inbound][k].cur = c
      /\ status'[i] = status[i] /\ queue'[i] = queue[i] /\ handled'[i] = handled[i]
      /\ last'[i] = last[i]
  BY <1>0 DEF Moves, Kept, Unmoved
<1>2. /\ polls[i][Inbound][k].pc \in Creating
      /\ c \in Nat \ {0} /\ c \in handled[i] /\ status[i] = "up"
  <2>1. polls[i][Inbound][k].pc \in Creating
    BY <1>1 DEF Creating
  <2> QED
    BY <1>0, <2>1, Handles
<1>3. /\ \A l \in Slots : l # k => Untouched(i, l, c)
      /\ \A j \in Slots : j # k =>
           ~(polls'[i][Inbound][j].pc \in Creating /\ polls'[i][Inbound][j].cur = c)
  BY <1>0, <1>1, <1>2, OthersUntouched
<1>4. /\ RequestInv(i, c) /\ Served(i, c) = {}
      /\ polls[i][Inbound][k].pc = "creating" => Made(i, c) = {}
      /\ AtMostOne(Made(i, c)) \/ polls[i][Inbound][k].pc = "confirming"
  BY <1>0, <1>1, <1>2 DEF TopicInv, HandlerInv, Creating, AtMostOne
<1>5. \/ origin' = origin
      \/ /\ MadeTopic(i, c) /\ polls[i][Inbound][k].pc \in {"creating", "recreating"}
         /\ polls'[i][Inbound][k].pc = "recreating" => polls[i][Inbound][k].pc = "creating"
  BY <1>0 DEF Moves
<1>6. /\ polls'[i][Inbound][k].pc \in {"recreating", "confirming", "starting"}
      /\ polls'[i][Inbound][k].pc = "recreating" => polls[i][Inbound][k].pc = "creating"
  BY DEF Moves
<1>7. /\ RequestInv(i, c)' /\ Served(i, c)' = {}
      /\ polls'[i][Inbound][k].pc = "recreating" => AtMostOne(Made(i, c))'
  <2>1. CASE origin' = origin
    <3>1. Made(i, c)' = Made(i, c)
      BY <2>1, MadeSame
    <3>2. Served(i, c)' = Served(i, c)
      BY <1>1, <3>1, ServedSame
    <3>3. RequestInv(i, c)'
      BY <1>1, <1>4, <3>1, <3>2 DEF RequestInv, AtMostOne, AtMostTwo
    <3> QED
      BY <1>4, <1>6, <3>1, <3>2, <3>3 DEF AtMostOne
  <2>2. CASE MadeTopic(i, c) /\ polls[i][Inbound][k].pc \in {"creating", "recreating"}
    <3>1. AtMostOne(Made(i, c)) /\ c \in handled'[i] /\ status'[i] = "up"
      BY <1>1, <1>2, <1>4, <2>2
    <3>2. queue'[i] \subseteq queue[i] /\ \A u \in All : last'[i][u] # Off <=> last[i][u] # Off
      BY <1>1
    <3>3. /\ RequestInv(i, c)' /\ Served(i, c)' = {}
          /\ Made(i, c) = {} => AtMostOne(Made(i, c))'
      BY <1>2, <1>4, <2>2, <3>1, <3>2, TopicAdded
    <3> QED
      BY <1>4, <1>6, <3>3
  <2> QED
    BY <1>5, <2>1, <2>2
<1>8. HandlerInv(i, k)'
  BY <1>1, <1>3, <1>6, <1>7 DEF HandlerInv
<1>9. \A s \in Nat \ {0} : s # c =>
        Made(i, s)' = Made(i, s) /\ Served(i, s)' = Served(i, s)
  <2> SUFFICES ASSUME NEW s \in Nat \ {0}, s # c
               PROVE  Made(i, s)' = Made(i, s) /\ Served(i, s)' = Served(i, s)
    OBVIOUS
  <2>1. Made(i, s)' = Made(i, s)
    BY <1>5, MadeSame
  <2> QED
    BY <1>1, <2>1, ServedSame
<1>10. \A t \in queue'[i] : last'[i][t] = Off
  BY <1>1 DEF TopicInv
<1>11. \A l \in Slots : HandlerInv(i, l)' \/ Untouched(i, l, c)
  BY <1>3, <1>8
<1>12. /\ status'[i] = status[i] /\ queue'[i] \subseteq queue[i]
       /\ handled[i] \subseteq handled'[i]
  BY <1>1
<1> QED
  BY <1>7, <1>9, <1>10, <1>11, <1>12, TopicMoves

LEMMA TopicServes ==
  ASSUME TypeInv, ChainGrows, NEW i \in Instances, NEW k \in Slots,
         TopicInv(i), Serves(i, k)
  PROVE  TopicInv(i)'
<1>0. PICK c, t : c = polls[i][Inbound][k].cur /\ t = polls[i][Inbound][k].topic
  OBVIOUS
<1>1. /\ polls[i][Inbound][k].pc = "starting" /\ polls'[i][Inbound][k].pc = "greeting"
      /\ OnlyPoll(i, Inbound, k) /\ polls'[i][Inbound][k].cur = c
      /\ status'[i] = status[i] /\ queue'[i] = queue[i] /\ handled'[i] = handled[i]
      /\ \A u \in All : u # t => last'[i][u] = last[i][u]
      /\ origin' = origin
  BY <1>0 DEF Serves, Begins
<1>2. /\ polls[i][Inbound][k].pc \in Creating
      /\ c \in Nat \ {0} /\ c \in handled[i] /\ status[i] = "up" /\ t \in Made(i, c)
  BY <1>0, <1>1, Handles DEF Creating, Serving, Made
<1>3. /\ \A l \in Slots : l # k => Untouched(i, l, c)
      /\ \A j \in Slots : j # k =>
           ~(polls'[i][Inbound][j].pc \in Creating /\ polls'[i][Inbound][j].cur = c)
  BY <1>0, <1>1, <1>2, OthersUntouched
<1>4. RequestInv(i, c) /\ Served(i, c) = {}
  BY <1>0, <1>1, <1>2 DEF TopicInv, HandlerInv, Creating
<1>5. \A s : Made(i, s)' = Made(i, s)
  BY <1>1, MadeSame
<1>6. \A s : \A u \in Made(i, s) : u \in All
  BY MadeTopics DEF All
<1>7. Served(i, c)' \subseteq {t}
  BY <1>1, <1>4, <1>5, <1>6 DEF Served
<1>8. RequestInv(i, c)'
  BY <1>1, <1>4, <1>5, <1>7 DEF RequestInv, AtMostOne, AtMostTwo
<1>9. ASSUME NEW s \in Nat \ {0}, s # c
      PROVE  Made(i, s)' = Made(i, s) /\ Served(i, s)' = Served(i, s)
  <2>1. t \notin Made(i, s)
    <3>1. /\ origin[t] = [request |-> c, by |-> i]
          /\ [request |-> c, by |-> i].request = c /\ [request |-> s, by |-> i].request = s
      BY <1>2 DEF Made
    <3> QED
      BY <1>9, <3>1 DEF Made
  <2>2. \A u \in Made(i, s) : last'[i][u] = last[i][u]
    BY <1>1, <1>6, <2>1
  <2> QED
    BY <1>5, <2>2, ServedSame
<1>10. \A u \in queue'[i] : last'[i][u] = Off
  <2>1. t \notin queue[i]
    BY <1>2, <1>4 DEF RequestInv
  <2>2. queue[i] \subseteq All
    BY DEF TypeInv, MemoryType
  <2> QED
    BY <1>1, <2>1, <2>2 DEF TopicInv
<1>11. HandlerInv(i, k)'
  BY <1>1, <1>3 DEF HandlerInv
<1>12. \A l \in Slots : HandlerInv(i, l)' \/ Untouched(i, l, c)
  BY <1>3, <1>11
<1>13. /\ status'[i] = status[i] /\ queue'[i] \subseteq queue[i]
       /\ handled[i] \subseteq handled'[i]
  BY <1>1
<1> QED
  BY <1>8, <1>9, <1>10, <1>12, <1>13, TopicMoves

LEMMA TopicSteps ==
  ASSUME TypeInv, TypeInv', ChainGrows, Step, \A j \in Instances : TopicInv(j)
  PROVE  \A j \in Instances : TopicInv(j)'
<1>1. CASE Speaks
  BY <1>1, TopicKeeps DEF Speaks
<1>2. CASE Crashes
  BY <1>2, TopicCrashes
<1>3. ASSUME NEW i \in Instances, Enters(i)
      PROVE  \A j \in Instances : TopicInv(j)'
  <2>1. TopicInv(i)'
    BY <1>3, TopicEnters
  <2> QED
    BY <1>3, <2>1, TopicKeeps DEF Enters, Alone
<1>4. ASSUME NEW i \in Instances, NEW t \in All, Dequeues(i, t)
      PROVE  \A j \in Instances : TopicInv(j)'
  <2>1. TopicInv(i)'
    BY <1>4, TopicDequeues
  <2> QED
    BY <1>4, <2>1, TopicKeeps DEF Dequeues, Alone
<1>5. ASSUME NEW i \in Instances, NEW t \in All, NEW k \in Slots, PollStep(i, t, k)
      PROVE  \A j \in Instances : TopicInv(j)'
  <2>1. TopicInv(i)'
    BY <1>5, TopicTurns, TopicResumes, TopicWorks, TopicServes DEF PollStep
  <2>2. /\ Alone(i)
        /\ origin' = origin \/ \E s : MadeTopic(i, s)
    BY <1>5 DEF PollStep, Turns, Resumes, Moves, Serves
  <2> QED
    BY <2>1, <2>2, TopicKeeps DEF Alone
<1> QED
  BY <1>1, <1>2, <1>3, <1>4, <1>5 DEF Step

LEMMA InitTopics == Init => \A i \in Instances : TopicInv(i)
<1> SUFFICES ASSUME Init, NEW i \in Instances
             PROVE  TopicInv(i)
  OBVIOUS
<1>1. TypeInv
  BY InitTypes
<1>2. queue[i] = {} /\ polls[i] = PollNone
  BY DEF Init
<1>3. \A s \in Nat \ {0} : Made(i, s) = {} /\ Served(i, s) = {}
  <2>1. \A t \in 1 .. Len(origin) : origin[t].request = 0
    <3>1. origin \in Seq(Origins)
      BY <1>1, MemoryOf DEF ChainType
    <3>2. \A t \in 1 .. Len(origin) : t \in DOMAIN origin
      BY <3>1, LenProperties
    <3>3. DOMAIN origin = 1 .. Earlier
          /\ \A t \in 1 .. Earlier : origin[t] = [request |-> 0, by |-> "earlier"]
      BY DEF Init
    <3>4. \A t \in 1 .. Earlier : origin[t].request = 0
      BY <3>3
    <3> QED
      BY <3>2, <3>3, <3>4
  <2> QED
    BY <2>1 DEF Made, Served
<1>4. \A k \in Slots : polls[i][Inbound][k].pc = "idle"
  BY <1>2 DEF PollNone, Idle
<1> QED
  BY <1>2, <1>3, <1>4 DEF TopicInv, RequestInv, HandlerInv, Creating, AtMostOne, AtMostTwo

LEMMA TopicsHold == Spec => [](TypeInv /\ \A i \in Instances : TopicInv(i))
<1> DEFINE Inv == TypeInv /\ \A i \in Instances : TopicInv(i)
<1>1. Init => Inv
  BY InitTypes, InitTopics
<1>2. Inv /\ [Next]_vars => Inv'
  BY Steps, TopicSteps
<1> QED
  BY <1>1, <1>2, PTL DEF Spec

LEMMA OneAtMost ==
  ASSUME NEW S, AtMostOne(S)
  PROVE  Cardinality(S) <= 1
<1>1. CASE S = {}
  BY <1>1, FS_EmptySet
<1>2. CASE S # {}
  <2>1. PICK a \in S : TRUE
    BY <1>2
  <2>2. S = {a}
    BY <2>1 DEF AtMostOne
  <2>3. Cardinality({a}) = 1
    BY FS_Singleton
  <2> QED
    BY <2>2, <2>3
<1> QED
  BY <1>1, <1>2

LEMMA TwoAtMost ==
  ASSUME NEW S, AtMostTwo(S)
  PROVE  Cardinality(S) <= 2
<1>1. CASE S = {}
  BY <1>1, FS_EmptySet
<1>2. CASE S # {}
  <2>1. PICK a \in S : TRUE
    BY <1>2
  <2>2. AtMostOne(S \ {a})
    BY <2>1 DEF AtMostOne, AtMostTwo
  <2>3. \E T : IsFiniteSet(T) /\ Cardinality(T) \in 0 .. 1 /\ T = S \ {a}
    <3>1. CASE S \ {a} = {}
      BY <3>1, FS_EmptySet
    <3>2. CASE S \ {a} # {}
      <4>1. PICK b \in S \ {a} : TRUE
        BY <3>2
      <4>2. S \ {a} = {b}
        BY <2>2, <4>1 DEF AtMostOne
      <4>3. IsFiniteSet({b}) /\ Cardinality({b}) = 1
        BY FS_Singleton
      <4> QED
        BY <4>2, <4>3
    <3> QED
      BY <3>1, <3>2
  <2>4. PICK T : IsFiniteSet(T) /\ Cardinality(T) \in 0 .. 1 /\ T = S \ {a}
    BY <2>3
  <2>5. S = T \cup {a}
    BY <2>1, <2>4
  <2>6. Cardinality(T \cup {a}) = IF a \in T THEN Cardinality(T) ELSE Cardinality(T) + 1
    BY <2>4, FS_AddElement
  <2> QED
    BY <2>4, <2>5, <2>6
<1> QED
  BY <1>1, <1>2

LEMMA TopicsSuffice ==
  TypeInv /\ (\A i \in Instances : TopicInv(i)) => OneTopicPerRequest
<1> SUFFICES ASSUME TypeInv, \A i \in Instances : TopicInv(i),
                    NEW i \in Instances, NEW s \in 1 .. Len(log[Inbound])
             PROVE  /\ Cardinality(Made(i, s)) <= 2
                    /\ Cardinality({t \in Made(i, s) : last[i][t] # Off}) <= 1
  BY DEF OneTopicPerRequest, Made
<1>1. s \in Nat \ {0}
  BY MemoryOf, Lens
<1>2. RequestInv(i, s)
  BY <1>1 DEF TopicInv
<1>3. Cardinality(Made(i, s)) <= 2
  <2>1. AtMostTwo(Made(i, s))
    BY <1>2 DEF RequestInv
  <2> QED
    BY <2>1, TwoAtMost
<1>4. Cardinality(Served(i, s)) <= 1
  <2>1. AtMostOne(Served(i, s))
    BY <1>2 DEF RequestInv
  <2> QED
    BY <2>1, OneAtMost
<1> QED
  BY <1>3, <1>4 DEF Served

(* However many polls of the inbound topic overlap and whatever fails, an   *)
(* instance makes at most two topics for a request and serves at most one.  *)
THEOREM MonitorRequestsGetOneTopic == Spec => []OneTopicPerRequest
  BY TopicsHold, TopicsSuffice, PTL
-----------------------------------------------------------------------------
(* The clock and the agent's file.                                         *)
Later ==
  /\ ClockInv /\ clock <= clock'
  /\ record' = "good" => record = "good"

LEMMA ClockSame ==
  ASSUME ClockInv, ChainType, log'[Inbound] = log[Inbound], UNCHANGED envVars
  PROVE  ClockInv' /\ Later
<1>1. clock' = clock /\ record' = record /\ clock \in Nat
  BY MonitorAssumption DEF envVars, ChainType
<1> QED
  BY <1>1 DEF ClockInv, Later

LEMMA ClockAdds ==
  ASSUME ClockInv, ChainType, NEW m \in Messages, Appended(Inbound, m),
         m.kind = "request" => m.at <= clock, ChainGrows, UNCHANGED envVars
  PROVE  ClockInv' /\ Later
<1>1. clock' = clock /\ record' = record /\ clock \in Nat
  BY MonitorAssumption DEF envVars, ChainType
<1>2. Inbound \in All /\ Len(log[Inbound]) \in Nat
  BY Lens
<1>3. ASSUME NEW n \in 1 .. Len(log'[Inbound]), log'[Inbound][n].kind = "request"
      PROVE  log'[Inbound][n].at <= clock'
  <2>1. CASE n \in 1 .. Len(log[Inbound])
    <3>1. log'[Inbound][n] = log[Inbound][n]
      BY <1>2, <2>1 DEF ChainGrows, LogGrows
    <3> QED
      BY <1>1, <1>3, <2>1, <3>1 DEF ClockInv
  <2>2. CASE n \notin 1 .. Len(log[Inbound])
    <3>1. n = Len(log[Inbound]) + 1
      BY <1>2, <2>2 DEF Appended
    <3>2. log'[Inbound][n] = m
      BY <3>1 DEF Appended
    <3> QED
      BY <1>1, <1>3, <3>2
  <2> QED
    BY <2>1, <2>2
<1> QED
  BY <1>1, <1>3 DEF ClockInv, Later

LEMMA ClockPosts ==
  ASSUME TypeInv, ClockInv,
         \/ \E u \in Users, d \in BOOLEAN, st \in Stamps : SubmitRequest(u, d, st)
         \/ \E u \in Users, t \in Topics, kind \in Kinds : SendMessage(u, t, kind)
  PROVE  ClockInv' /\ Later
<1>1. ChainType /\ Inbound \in All /\ Inbound \notin Topics /\ clock \in Nat
  BY MonitorAssumption, MemoryOf, Lens DEF Inbound, Topics, ChainType
<1>2. ASSUME NEW u \in Users, NEW d \in BOOLEAN, NEW st \in Stamps,
             SubmitRequest(u, d, st)
      PROVE  ClockInv' /\ Later
  <2>1. ChainGrows /\ Appended(Inbound, Request(u, d, st)) /\ UNCHANGED envVars
    BY <1>1, <1>2, SubmitChain DEF SubmitRequest
  <2>2. Request(u, d, st) \in Messages /\ Request(u, d, st).at <= clock
    BY <1>1 DEF Request, Messages, Requests
  <2> QED
    BY <1>1, <2>1, <2>2, ClockAdds
<1>3. ASSUME NEW u \in Users, NEW t \in Topics, NEW kind \in Kinds,
             SendMessage(u, t, kind)
      PROVE  ClockInv' /\ Later
  <2>1. Appended(t, Post(kind, u, 0)) /\ UNCHANGED envVars
    BY <1>1, <1>3, SendChain DEF SendMessage
  <2>2. log'[Inbound] = log[Inbound]
    BY <1>1, <2>1 DEF Appended
  <2> QED
    BY <1>1, <2>1, <2>2, ClockSame
<1> QED
  BY <1>2, <1>3

(* Of the handler's steps only the announcement writes to the inbound topic. *)
LEMMA ClockMakes ==
  ASSUME TypeInv, ClockInv, NEW i \in Instances, NEW k \in Slots, InboundStep(i, k)
  PROVE  ClockInv' /\ Later
<1>1. ChainType /\ Inbound \in All /\ Inbound \notin Topics
  BY MemoryOf, Lens DEF Inbound, Topics
<1>2. ASSUME At(i, k, "creating"), MakeTopic(i, k), Announce(NewTopic), UNCHANGED envVars
      PROVE  ClockInv' /\ Later
  <2> polls[i][Inbound][k].pc \in Creating
    BY <1>2 DEF At, Creating
  <2> polls[i][Inbound][k].cur \in Nat
    BY Handles
  <2>1. polls[i][Inbound][k].cur \in Nat /\ NewTopic \in Nat
    BY <1>1, <1>2, Lens DEF MakeTopic, Topics
  <2>2. ChainGrows /\ Appended(Inbound, Post("other", "agent", NewTopic))
    BY <1>1, <1>2, <2>1, MakeChain
  <2>3. /\ Post("other", "agent", NewTopic) \in Messages
        /\ Post("other", "agent", NewTopic).kind # "request"
    BY <2>1 DEF Post, Messages, Posts
  <2> QED
    BY <1>1, <1>2, <2>2, <2>3, ClockAdds
<1>3. CASE CreateTopic(i, k)
  BY <1>2, <1>3 DEF CreateTopic
<1>4. ASSUME NEW made \in BOOLEAN, NEW profile \in BOOLEAN, CreateFails(i, k, made, profile)
      PROVE  ClockInv' /\ Later
  <2>1. At(i, k, "creating") /\ UNCHANGED envVars
    BY <1>4 DEF CreateFails
  <2>2. CASE made
    BY <1>2, <1>4, <2>1, <2>2 DEF CreateFails
  <2>3. CASE ~made
    BY <1>1, <1>4, <2>1, <2>3, ClockSame DEF CreateFails, chainVars
  <2> QED
    BY <2>2, <2>3
<1>5. ASSUME NEW ok \in BOOLEAN, Greet(i, k, ok)
      PROVE  ClockInv' /\ Later
  <2>1. PICK t : t = polls[i][Inbound][k].topic
    OBVIOUS
  <2>2. t \in Topics
    BY <1>5, <2>1, Handles DEF Greet, At, Creating, Serving
  <2>3. log' = log \/ \E l : log' = [log EXCEPT ![t] = l]
    BY <1>5, <2>1 DEF Greet
  <2>4. log'[Inbound] = log[Inbound] /\ UNCHANGED envVars
    BY <1>1, <1>5, <2>2, <2>3 DEF Greet, ChainType
  <2> QED
    BY <1>1, <2>4, ClockSame
<1>6. CASE \/ CreateDirect(i, k) \/ CreateDirectFails(i, k)
           \/ Confirm(i, k) \/ ConfirmFails(i, k)
           \/ \E n \in Shown(polls[i][Inbound][k].topic) : StartConnection(i, k, n)
  BY <1>1, <1>6, ClockSame DEF CreateDirect, CreateDirectFails, Confirm, ConfirmFails,
     StartConnection, chainVars
<1> QED
  BY <1>3, <1>4, <1>5, <1>6 DEF InboundStep

LEMMA ClockPolls ==
  ASSUME TypeInv, ClockInv, NEW i \in Instances, NEW t \in All, NEW k \in Slots,
         Tick(i, t, k) \/ Settle(i, t, k)
  PROVE  ClockInv' /\ Later
<1>1. ChainType /\ Inbound \in All
  BY MemoryOf, Lens
<1>2. CASE Tick(i, t, k) \/ FetchFails(i, t, k)
  BY <1>1, <1>2, ClockSame DEF Tick, FetchFails, chainVars
<1>3. CASE \E n \in Shown(t) : Fetched(i, t, k, n)
  BY <1>1, <1>3, ClockSame DEF Fetched, chainVars
<1>4. ASSUME t # Inbound, NEW o \in Outcomes, Respond(i, t, k, o)
      PROVE  ClockInv' /\ Later
  <2>1. (\E l : log' = [log EXCEPT ![t] = l]) /\ UNCHANGED envVars
    BY <1>4 DEF Respond
  <2>2. log'[Inbound] = log[Inbound]
    BY <1>1, <1>4, <2>1 DEF ChainType
  <2> QED
    BY <1>1, <2>1, <2>2, ClockSame
<1>5. CASE t = Inbound /\ InboundStep(i, k)
  BY <1>5, ClockMakes
<1> QED
  BY <1>2, <1>3, <1>4, <1>5 DEF Settle

LEMMA ClockSteps ==
  ASSUME TypeInv, ClockInv, [Next]_vars
  PROVE  ClockInv' /\ Later
<1>1. ChainType /\ clock \in Nat
  BY MonitorAssumption, MemoryOf DEF ChainType
<1>2. CASE UNCHANGED vars
  BY <1>1, <1>2, ClockSame DEF vars, chainVars
<1>3. CASE \/ \E u \in Users, d \in BOOLEAN, st \in Stamps : SubmitRequest(u, d, st)
           \/ \E u \in Users, t \in Topics, kind \in Kinds : SendMessage(u, t, kind)
  BY <1>3, ClockPosts
<1>4. CASE \E i \in Instances :
             \/ InitializeAgent(i) \/ StartAgentMonitor(i)
             \/ \E t \in All : \E n \in Shown(t) : StartQueued(i, t, n)
  BY <1>1, <1>4, ClockSame DEF InitializeAgent, StartAgentMonitor, StartQueued, chainVars
<1>5. ASSUME NEW i \in Instances, NEW t \in Topics, ConnectToAgent(i, t)
      PROVE  ClockInv' /\ Later
  BY <1>1, <1>5 DEF ConnectToAgent, chainVars, ClockInv, Later
<1>6. CASE \E i \in Instances : Poll(i)
  BY <1>6, ClockPolls DEF Poll, All
<1>7. CASE Crash
  BY <1>1, <1>7, ClockSame DEF Crash, chainVars
<1>8. CASE Reinitialize
  BY <1>1, <1>8 DEF Reinitialize, chainVars, ClockInv, Later
<1>9. CASE Pass
  <2>1. log' = log /\ clock' = clock + 1 /\ record' = record
    BY <1>9 DEF Pass, chainVars
  <2>2. ASSUME NEW n \in 1 .. Len(log[Inbound]), log[Inbound][n].kind = "request"
        PROVE  log[Inbound][n].at <= clock'
    <3>1. log[Inbound][n].at \in Nat /\ log[Inbound][n].at <= clock
      BY <1>1, <2>2, LogStamps DEF ClockInv
    <3> QED
      BY <1>1, <2>1, <3>1
  <2> QED
    BY <1>1, <2>1, <2>2 DEF ClockInv, Later
<1> QED
  BY <1>2, <1>3, <1>4, <1>5, <1>6, <1>7, <1>8, <1>9 DEF Next, All
-----------------------------------------------------------------------------
(* The cursors: what a message is accounted for by does not go away.        *)
Growing(i, t) ==
  /\ begun[i][t] \subseteq begun'[i][t] /\ handled[i] \subseteq handled'[i]
  /\ lastTime[i] <= lastTime'[i]

LEMMA SinceType ==
  ASSUME TypeInv, NEW s \in 1 .. Len(log[Inbound]), log[Inbound][s].kind = "request"
  PROVE  Since(log[Inbound][s]) \in Nat
  BY MemoryOf, LogStamps DEF Since

LEMMA AccountKept ==
  ASSUME TypeInv, TypeInv', ChainGrows, Later, NEW i \in Instances, NEW t \in All,
         Growing(i, t), NEW x \in Nat, x <= Len(log[t]), NEW s \in 1 .. x,
         NEW y \in Nat, x <= y, Account(i, t, s, x)
  PROVE  Account(i, t, s, y)'
<1>1. Len(log[t]) \in Nat
  BY NextLens
<1>2. \A n \in 1 .. x : log'[t][n] = log[t][n]
  BY <1>1 DEF ChainGrows, LogGrows
<1>3. CASE t # Inbound
  BY <1>2, <1>3 DEF Account, Growing
<1>4. CASE t = Inbound
  <2>1. SUFFICES ASSUME record' = "good", log'[t][s].kind = "request", log'[t][s].complete
                 PROVE  \/ s \in begun'[i][t]
                        \/ \E r \in (s + 1) .. y : log'[t][r].kind = "request"
                        \/ Since(log'[t][s]) <= lastTime'[i]
    BY <1>4 DEF Account, Asks
  <2>2. log'[t][s] = log[t][s] /\ record = "good"
    BY <1>2, <2>1 DEF Later
  <2>3. CASE s \in begun[i][t]
    BY <2>3 DEF Growing
  <2>4. ASSUME NEW r \in (s + 1) .. x, log[t][r].kind = "request"
        PROVE  \E q \in (s + 1) .. y : log'[t][q].kind = "request"
    <3>1. r \in 1 .. x /\ r \in (s + 1) .. y
      OBVIOUS
    <3> QED
      BY <1>2, <2>4, <3>1
  <2>5. CASE Since(log[t][s]) <= lastTime[i]
    <3>1. lastTime[i] \in Nat /\ lastTime'[i] \in Nat /\ lastTime[i] <= lastTime'[i]
      BY DEF TypeInv, MemoryType, Growing
    <3>2. Since(log[t][s]) \in Nat
      BY <1>1, <1>4, <2>1, <2>2, SinceType
    <3> QED
      BY <2>2, <2>5, <3>1, <3>2
  <2> QED
    BY <1>4, <2>1, <2>2, <2>3, <2>4, <2>5 DEF Account, Asks
<1> QED
  BY <1>3, <1>4

LEMMA PassedKept ==
  ASSUME TypeInv, TypeInv', ChainGrows, Later, NEW i \in Instances, NEW t \in All,
         Growing(i, t), start'[i][t] = start[i][t], start[i][t] # Off,
         NEW x \in Nat, x <= Len(log[t]), Passed(i, t, x)
  PROVE  Passed(i, t, x)'
<1>1. start[i][t] \in Nat
  BY MemoryOf DEF MemoryType
<1>2. ASSUME NEW s \in (start[i][t] + 1) .. x
      PROVE  Account(i, t, s, x)'
  <2>1. s \in 1 .. x
    BY <1>1
  <2>2. Account(i, t, s, x)
    BY DEF Passed
  <2> QED
    BY <2>1, <2>2, AccountKept
<1> QED
  BY <1>2 DEF Passed

LEMMA CoveredKept ==
  ASSUME TypeInv, ChainGrows, NEW t \in All, NEW x \in Nat, NEW todo \in SUBSET Nat,
         todo \subseteq (x + 1) .. Len(log[t]), Covered(t, x, todo)
  PROVE  Covered(t, x, todo)'
<1>1. \A r \in todo : log'[t][r] = log[t][r]
  <2>1. Len(log[t]) \in Nat /\ \A r \in todo : r \in 1 .. Len(log[t])
    BY MemoryOf, Lens
  <2> QED
    BY <2>1 DEF ChainGrows, LogGrows
<1> QED
  BY <1>1 DEF Covered, Asks

(* Where a poll stands.                                                    *)
LEMMA PollStands ==
  ASSUME TypeInv, NEW i \in Instances, NEW t \in All, NEW k \in Slots
  PROVE  /\ polls[i][t][k].pc # "idle" => last[i][t] # Off
         /\ last[i][t] # Off => start[i][t] # Off /\ start[i][t] \in Nat
                                /\ last[i][t] \in Nat /\ last[i][t] <= Len(log[t])
         /\ polls[i][t][k].from \in Nat /\ polls[i][t][k].cur \in Nat
         /\ polls[i][t][k].todo \in SUBSET Nat
         /\ polls[i][t][k].pc = "fetching" => polls[i][t][k].from <= Len(log[t])
         /\ polls[i][t][k].pc \in Working =>
              /\ polls[i][t][k].cur \in 1 .. Len(log[t])
              /\ polls[i][t][k].cur <= Len(log[t])
              /\ polls[i][t][k].todo \subseteq (polls[i][t][k].cur + 1) .. Len(log[t])
<1>1. PollType(i, t, k) /\ polls[i][t][k] \in Poller /\ InstanceType(i) /\ MemoryType
  BY MemoryOf
<1>2. /\ polls[i][t][k].from \in Nat /\ polls[i][t][k].cur \in Nat
      /\ polls[i][t][k].todo \in SUBSET Nat
  BY <1>1 DEF Poller
<1>3. last[i][t] # Off => start[i][t] # Off /\ start[i][t] \in Nat
                          /\ last[i][t] \in Nat /\ last[i][t] <= Len(log[t])
  BY <1>1 DEF InstanceType, MemoryType
<1>4. /\ polls[i][t][k].pc # "idle" => last[i][t] # Off
      /\ polls[i][t][k].pc = "fetching" => polls[i][t][k].from <= Len(log[t])
      /\ polls[i][t][k].pc \in Working =>
           /\ polls[i][t][k].cur \in 1 .. Len(log[t])
           /\ polls[i][t][k].todo \subseteq (polls[i][t][k].cur + 1) .. Len(log[t])
  BY <1>1 DEF PollType
<1>5. \A n \in 1 .. Len(log[t]) : n <= Len(log[t])
  BY MemoryOf, Lens
<1> QED
  BY <1>2, <1>3, <1>4, <1>5

LEMMA CursorMoves ==
  ASSUME TypeInv, TypeInv', ChainGrows, Later, NEW i \in Instances, NEW t \in All,
         CursorInv(i, t), Growing(i, t), start'[i][t] = start[i][t],
         last'[i][t] = last[i][t] \/ Passed(i, t, last[i][t])',
         \A k \in Slots : polls'[i][t][k] = polls[i][t][k] \/ PollCursor(i, t, k)'
  PROVE  CursorInv(i, t)'
<1>1. ASSUME NEW k \in Slots, polls'[i][t][k] = polls[i][t][k]
      PROVE  PollCursor(i, t, k)'
  <2>1. PICK p : p = polls[i][t][k]
    OBVIOUS
  <2>2. PollCursor(i, t, k)
    BY DEF CursorInv
  <2>3. p.pc = "fetching" => Passed(i, t, p.from)'
    <3>1. p.pc = "fetching" => p.from \in Nat /\ p.from <= Len(log[t]) /\ start[i][t] # Off
      BY <2>1, PollStands
    <3>2. p.pc = "fetching" => Passed(i, t, p.from)
      BY <2>1, <2>2 DEF PollCursor
    <3> QED
      BY <3>1, <3>2, PassedKept
  <2>4. p.pc \in Working => Passed(i, t, p.cur)' /\ Covered(t, p.cur, p.todo)'
    <3>1. p.pc \in Working =>
            /\ p.cur \in Nat /\ p.cur <= Len(log[t]) /\ start[i][t] # Off
            /\ p.todo \in SUBSET Nat /\ p.todo \subseteq (p.cur + 1) .. Len(log[t])
      BY <2>1, PollStands DEF Working, Creating
    <3>2. p.pc \in Working => Passed(i, t, p.cur) /\ Covered(t, p.cur, p.todo)
      BY <2>1, <2>2 DEF PollCursor
    <3> QED
      BY <3>1, <3>2, PassedKept, CoveredKept
  <2>5. polls'[i][t][k] = p
    BY <1>1, <2>1
  <2> QED
    BY <2>3, <2>4, <2>5 DEF PollCursor
<1>2. ASSUME last'[i][t] = last[i][t], last'[i][t] # Off
      PROVE  Passed(i, t, last[i][t])'
  <2>1. PICK x : x = last[i][t]
    OBVIOUS
  <2>2. x \in Nat /\ x <= Len(log[t]) /\ start[i][t] # Off /\ Passed(i, t, x)
    <3>1. 1 \in Slots
      BY MonitorAssumption DEF Slots
    <3> QED
      BY <1>2, <2>1, <3>1, PollStands DEF CursorInv
  <2>3. Passed(i, t, x)'
    BY <2>2, PassedKept
  <2>4. last'[i][t] = x
    BY <1>2, <2>1
  <2> QED
    BY <2>3, <2>4
<1> QED
  BY <1>1, <1>2 DEF CursorInv

(* A message that is not processed is accounted for.                       *)
LEMMA Unprocessed ==
  ASSUME TypeInv, ClockInv, NEW i \in Instances, HandledInv(i), NEW t \in All,
         NEW s \in 1 .. Len(log[t]), ~Processed(i, t, s), NEW x \in Nat
  PROVE  Account(i, t, s, x)
<1>1. CASE t # Inbound
  BY <1>1 DEF Processed, Account
<1>2. CASE t = Inbound
  <2>1. SUFFICES ASSUME record = "good", log[t][s].kind = "request", log[t][s].complete
                 PROVE  s \in begun[i][t] \/ Since(log[t][s]) <= lastTime[i]
    BY <1>2 DEF Account, Asks
  <2>2. s \in handled[i] \/ ~(Time(i, s) > lastTime[i])
    BY <1>2, <2>1 DEF Processed, Acceptable
  <2>3. CASE s \in handled[i]
    BY <1>2, <2>3 DEF HandledInv
  <2>4. CASE ~(Time(i, s) > lastTime[i])
    <3>1. /\ Time(i, s) \in Nat /\ lastTime[i] \in Nat /\ clock \in Nat
          /\ log[t][s].stamp \in Nat /\ log[t][s].at \in Nat
      BY <1>2, <2>1, MonitorAssumption, MemoryOf, TimeType, LogStamps
         DEF MemoryType, ChainType
    <3>2. log[t][s].at <= clock
      BY <1>2, <2>1 DEF ClockInv
    <3> QED
      BY <1>2, <2>4, <3>1, <3>2 DEF Time, Since
  <2> QED
    BY <2>2, <2>3, <2>4
<1> QED
  BY <1>1, <1>2

(* What an instance has taken up, and the latest time.                     *)
LEMMA HandledTaken ==
  ASSUME TypeInv, NEW i \in Instances, HandledInv(i), NEW k \in Slots,
         NEW todo, NEW s \in todo, todo \subseteq 1 .. Len(log[Inbound]),
         Takes(i, Inbound, k, todo, s)
  PROVE  HandledInv(i)' /\ lastTime[i] <= lastTime'[i]
<1>1. /\ handled'[i] = handled[i] \cup {s} /\ lastTime'[i] = Time(i, s)
      /\ begun'[i][Inbound] = begun[i][Inbound] \cup {s}
      /\ log[Inbound][s].kind = "request" /\ Time(i, s) > lastTime[i]
  BY DEF Takes, Processed, Acceptable
<1>2. Time(i, s) \in Nat /\ lastTime[i] \in Nat
  BY <1>1, MemoryOf, TimeType DEF MemoryType
<1> QED
  BY <1>1, <1>2 DEF HandledInv

Cursors(i) == HandledInv(i) /\ \A t \in All : CursorInv(i, t)

LEMMA CursorsKeep ==
  ASSUME TypeInv, TypeInv', ChainGrows, Later, NEW j \in Instances, Cursors(j),
         LoopSame(j), start'[j] = start[j]
  PROVE  Cursors(j)'
<1>1. lastTime[j] \in Nat
  BY MemoryOf DEF MemoryType
<1>2. \A t \in All : Growing(j, t)
  BY <1>1 DEF Growing, LoopSame
<1>3. HandledInv(j)'
  BY DEF HandledInv, Cursors, LoopSame
<1>4. \A t \in All : CursorInv(j, t)'
  BY <1>2, CursorMoves DEF Cursors, LoopSame
<1> QED
  BY <1>3, <1>4 DEF Cursors

(* A topic that is not polled yet is polled from where it stands.          *)
LEMMA CursorBegins ==
  ASSUME TypeInv, TypeInv', NEW i \in Instances, NEW t \in All, last[i][t] = Off,
         Begins(i, t), polls'[i][t] = polls[i][t]
  PROVE  CursorInv(i, t)'
<1>1. PICK x : x = last'[i][t]
  OBVIOUS
<1>2. x \in 0 .. Len(log[t]) /\ start'[i][t] = x /\ Len(log[t]) \in Nat
  BY <1>1, MemoryOf, Lens DEF Begins
<1>3. Passed(i, t, x)'
  <2>1. (x + 1) .. x = {}
    BY <1>2
  <2> QED
    BY <1>2, <2>1 DEF Passed
<1>4. \A k \in Slots : polls'[i][t][k].pc = "idle"
  BY PollStands
<1>5. \A k \in Slots : PollCursor(i, t, k)'
  BY <1>4 DEF PollCursor, Working, Creating
<1> QED
  BY <1>1, <1>3, <1>5 DEF CursorInv

LEMMA CursorsDequeue ==
  ASSUME TypeInv, TypeInv', ChainGrows, Later, NEW i \in Instances, NEW t \in All,
         TopicInv(i), Cursors(i), Dequeues(i, t)
  PROVE  Cursors(i)'
<1>1. /\ t \in queue[i] /\ Begins(i, t) /\ polls'[i] = polls[i]
      /\ handled'[i] = handled[i] /\ begun'[i] = begun[i] /\ lastTime'[i] = lastTime[i]
      /\ \A u \in All : u # t => last'[i][u] = last[i][u] /\ start'[i][u] = start[i][u]
  BY DEF Dequeues, Begins
<1>2. last[i][t] = Off
  BY <1>1 DEF TopicInv
<1>3. lastTime[i] \in Nat
  BY MemoryOf DEF MemoryType
<1>4. HandledInv(i)'
  BY <1>1 DEF HandledInv, Cursors
<1>5. ASSUME NEW u \in All
      PROVE  CursorInv(i, u)'
  <2>1. CASE u = t
    BY <1>1, <1>2, <2>1, CursorBegins
  <2>2. CASE u # t
    <3>1. Growing(i, u)
      BY <1>1, <1>3 DEF Growing
    <3> QED
      BY <1>1, <2>2, <3>1, CursorMoves DEF Cursors
  <2> QED
    BY <2>1, <2>2
<1> QED
  BY <1>4, <1>5 DEF Cursors

LEMMA CursorsCrash ==
  ASSUME TypeInv, TypeInv', ChainGrows, Later, NEW i \in Instances, Cursors(i), Crashes
  PROVE  Cursors(i)'
<1>1. CASE Same(i)
  BY <1>1, CursorsKeep DEF Same
<1>2. CASE ~Same(i)
  <2>1. /\ last'[i] = OffAll /\ polls'[i] = PollNone /\ handled'[i] = {}
        /\ lastTime'[i] = 0
    BY <1>2 DEF Crashes
  <2>2. \A t \in All : last'[i][t] = Off /\ \A k \in Slots : polls'[i][t][k].pc = "idle"
    BY <2>1 DEF OffAll, PollNone, Idle, All
  <2>3. HandledInv(i)'
    BY <2>1 DEF HandledInv
  <2>4. \A t \in All : CursorInv(i, t)'
    BY <2>2 DEF CursorInv, PollCursor, Working, Creating
  <2> QED
    BY <2>3, <2>4 DEF Cursors
<1> QED
  BY <1>1, <1>2

LEMMA CursorsTurn ==
  ASSUME TypeInv, TypeInv', ChainGrows, Later, NEW i \in Instances, NEW t \in All,
         NEW k \in Slots, Cursors(i), Turns(i, t, k)
  PROVE  Cursors(i)'
<1>1. /\ last'[i] = last[i] /\ start'[i] = start[i] /\ handled'[i] = handled[i]
      /\ begun'[i] = begun[i] /\ lastTime'[i] = lastTime[i] /\ OnlyPoll(i, t, k)
  BY DEF Turns, Kept, Unmoved
<1>2. lastTime[i] \in Nat
  BY MemoryOf DEF MemoryType
<1>3. HandledInv(i)' /\ \A u \in All : Growing(i, u)
  BY <1>1, <1>2 DEF HandledInv, Cursors, Growing
<1>4. PollCursor(i, t, k)'
  <2>1. CASE polls'[i][t][k] = Idle
    BY <2>1 DEF PollCursor, Idle, Working, Creating
  <2>2. CASE /\ last[i][t] # Off /\ polls'[i][t][k].pc = "fetching"
             /\ polls'[i][t][k].from = last[i][t]
    <3>1. PICK x : x = last[i][t]
      OBVIOUS
    <3>2. /\ x \in Nat /\ x <= Len(log[t]) /\ start[i][t] # Off /\ Passed(i, t, x)
      BY <2>2, <3>1, PollStands DEF Cursors, CursorInv
    <3>3. Passed(i, t, x)'
      BY <1>1, <1>3, <3>2, PassedKept
    <3>4. polls'[i][t][k].pc = "fetching" /\ polls'[i][t][k].from = x
      BY <2>2, <3>1
    <3> QED
      BY <3>3, <3>4 DEF PollCursor, Working, Creating
  <2> QED
    BY <2>1, <2>2 DEF Turns
<1>5. \A u \in All, l \in Slots :
        polls'[i][u][l] = polls[i][u][l] \/ PollCursor(i, u, l)'
  BY <1>1, <1>4 DEF OnlyPoll
<1>6. \A u \in All : CursorInv(i, u)'
  BY <1>1, <1>3, <1>5, CursorMoves DEF Cursors
<1> QED
  BY <1>3, <1>6 DEF Cursors

(* What a poll has passed and has before it when it goes on.               *)
LEMMA BatchCovers ==
  ASSUME TypeInv, NEW t \in All, NEW x \in Nat, NEW n \in x .. Len(log[t])
  PROVE  Covered(t, x, Batch(t, x, n))
<1>1. Len(log[t]) \in Nat
  BY MemoryOf, Lens
<1>2. CASE t # Inbound
  BY <1>1, <1>2 DEF Batch, Covered, Asks
<1>3. CASE t = Inbound
  <2> DEFINE R == {r \in (x + 1) .. n : Asks(t, r)}
             todo == Batch(t, x, n)
  <2>1. \A s \in (x + 1) .. n : s \in todo <=> (Asks(t, s) => \A r \in R : r <= s)
    BY <1>3 DEF Batch, Asks
  <2>2. todo \subseteq (x + 1) .. n /\ R \in SUBSET Nat /\ n \in Nat /\ \A r \in R : r <= n
    BY <1>1, <1>3 DEF Batch
  <2>3. \A r \in R : r \in (x + 1) .. n /\ Asks(t, r) /\ r \in Nat
    BY <2>2
  <2> HIDE DEF R, todo
  <2>4. ASSUME NEW m \in todo, NEW s \in (x + 1) .. m, s \notin todo
        PROVE  \E r \in todo : r > s /\ Asks(t, r)
    <3>1. s \in (x + 1) .. n
      BY <2>2
    <3>2. PICK q \in R : ~(q <= s)
      BY <2>1, <2>4, <3>1
    <3>3. PICK r \in R : \A p \in R : p <= r
      BY <2>2, <3>2, GreatestExists
    <3>4. r \in todo /\ Asks(t, r)
      BY <2>1, <2>3, <3>3
    <3>5. r > s
      BY <2>3, <3>1, <3>2, <3>3
    <3> QED
      BY <3>4, <3>5
  <2>5. ASSUME NEW q \in todo, NEW r \in todo, Asks(t, q), Asks(t, r)
        PROVE  q = r
    <3>1. q \in R /\ r \in R
      BY <2>2, <2>5 DEF R
    <3>2. q <= r /\ r <= q
      BY <2>1, <2>2, <2>5, <3>1
    <3> QED
      BY <2>3, <3>1, <3>2
  <2> QED
    BY <2>4, <2>5 DEF Covered, todo
<1> QED
  BY <1>2, <1>3

LEMMA PassedSoFar ==
  ASSUME TypeInv, NEW i \in Instances, NEW t \in All, NEW k \in Slots,
         Cursors(i), NEW x \in Nat, NEW todo \in SUBSET Nat, GoesOn(i, t, k, x, todo)
  PROVE  /\ Passed(i, t, x) /\ Covered(t, x, todo) /\ x <= Len(log[t])
         /\ start[i][t] # Off /\ start[i][t] \in Nat /\ last[i][t] # Off
<1>1. PollCursor(i, t, k)
  BY DEF Cursors, CursorInv
<1>2. CASE polls[i][t][k].pc = "fetching"
  <2>1. x = polls[i][t][k].from /\ \E n \in x .. Len(log[t]) : todo = Batch(t, x, n)
    BY <1>2 DEF GoesOn, Working, Creating
  <2> QED
    BY <1>1, <1>2, <2>1, BatchCovers, PollStands DEF PollCursor
<1>3. CASE polls[i][t][k].pc \in Working
  <2>1. x = polls[i][t][k].cur /\ todo = polls[i][t][k].todo
    BY <1>3 DEF GoesOn, Working, Creating
  <2>2. polls[i][t][k].pc # "idle"
    BY <1>3 DEF Working, Creating
  <2> QED
    BY <1>1, <1>3, <2>1, <2>2, PollStands DEF PollCursor
<1> QED
  BY <1>2, <1>3 DEF GoesOn

LEMMA CursorsResume ==
  ASSUME TypeInv, TypeInv', ChainGrows, Later, NEW i \in Instances, NEW t \in All,
         NEW k \in Slots, NEW x \in Nat, NEW todo \in SUBSET Nat, Cursors(i),
         Resumes(i, t, k, x, todo)
  PROVE  Cursors(i)'
<1>1. /\ start'[i] = start[i] /\ OnlyPoll(i, t, k) /\ GoesOn(i, t, k, x, todo)
      /\ todo \subseteq (x + 1) .. Len(log[t])
      /\ Stops(i, t, k, todo) \/ \E s \in todo : Takes(i, t, k, todo, s)
  BY DEF Resumes, Unmoved, GoesOn
<1>2. /\ Passed(i, t, x) /\ Covered(t, x, todo) /\ x <= Len(log[t])
      /\ start[i][t] # Off /\ start[i][t] \in Nat
  BY <1>1, PassedSoFar
<1>3. /\ Len(log[t]) \in Nat /\ todo \subseteq 1 .. Len(log[t]) /\ HandledInv(i)
      /\ lastTime[i] \in Nat
  BY <1>1, MemoryOf, Lens DEF Cursors, MemoryType
<1>4. /\ \A u \in All : u # t => last'[i][u] = last[i][u]
      /\ \A u \in All : Growing(i, u)
      /\ HandledInv(i)'
  <2>1. CASE Stops(i, t, k, todo)
    <3>1. /\ handled'[i] = handled[i] /\ begun'[i] = begun[i] /\ lastTime'[i] = lastTime[i]
          /\ \A u \in All : u # t => last'[i][u] = last[i][u]
      BY <2>1 DEF Stops
    <3> QED
      BY <1>3, <3>1 DEF HandledInv, Growing
  <2>2. ASSUME NEW s \in todo, Takes(i, t, k, todo, s), t = Inbound
        PROVE  /\ \A u \in All : u # t => last'[i][u] = last[i][u]
               /\ \A u \in All : Growing(i, u)
               /\ HandledInv(i)'
    <3>1. HandledInv(i)' /\ lastTime[i] <= lastTime'[i]
      BY <1>3, <2>2, HandledTaken
    <3>2. /\ handled'[i] = handled[i] \cup {s} /\ begun'[i][t] = begun[i][t] \cup {s}
          /\ \A u \in All : u # t => begun'[i][u] = begun[i][u] /\ last'[i][u] = last[i][u]
      BY <2>2 DEF Takes
    <3> QED
      BY <3>1, <3>2 DEF Growing
  <2>3. ASSUME NEW s \in todo, Takes(i, t, k, todo, s), t # Inbound
        PROVE  /\ \A u \in All : u # t => last'[i][u] = last[i][u]
               /\ \A u \in All : Growing(i, u)
               /\ HandledInv(i)'
    <3>1. /\ handled'[i] = handled[i] /\ lastTime'[i] = lastTime[i]
          /\ begun'[i][t] = begun[i][t] \cup {s}
          /\ \A u \in All : u # t => begun'[i][u] = begun[i][u] /\ last'[i][u] = last[i][u]
      BY <2>3 DEF Takes
    <3>2. begun'[i][Inbound] = begun[i][Inbound]
      BY <2>3, <3>1, Lens, MemoryOf
    <3> QED
      BY <1>3, <3>1, <3>2 DEF HandledInv, Growing
  <2> QED
    BY <1>1, <2>1, <2>2, <2>3
<1>5. Passed(i, t, x)' /\ Covered(t, x, todo)'
  BY <1>1, <1>2, <1>4, PassedKept, CoveredKept
<1>6. ASSUME NEW s \in todo, ~Processed(i, t, s), NEW m \in Nat, s <= m
      PROVE  Account(i, t, s, m)'
  <2>1. s \in 1 .. Len(log[t]) /\ s \in Nat /\ s \in 1 .. s /\ s <= Len(log[t])
    BY <1>3
  <2>2. Account(i, t, s, s)
    BY <1>3, <1>6, <2>1, Unprocessed DEF Later
  <2> QED
    BY <1>4, <1>6, <2>1, <2>2, AccountKept
(* Between x and a message of the list, all is accounted for or on it, or   *)
(* gives way to the one request that is on it.                             *)
<1>7. ASSUME NEW m \in todo, \A n \in todo : n <= m => Account(i, t, n, m)',
             \A n \in todo : Asks(t, n) => n <= m
      PROVE  Passed(i, t, m)'
  <2>0. m \in Nat /\ x < m /\ m <= Len(log[t])
    BY <1>1, <1>3
  <2>1. ASSUME NEW s \in (start[i][t] + 1) .. m
        PROVE  Account(i, t, s, m)'
    <3>2. CASE s <= x
      <4>1. s \in (start[i][t] + 1) .. x /\ s \in 1 .. x
        BY <1>2, <2>0, <3>2
      <4>2. Account(i, t, s, x)
        BY <1>2, <4>1 DEF Passed
      <4> QED
        BY <1>2, <1>4, <2>0, <4>1, <4>2, AccountKept
    <3>3. CASE ~(s <= x)
      <4>1. s \in (x + 1) .. m /\ s <= m /\ s \in 1 .. Len(log[t])
        BY <1>2, <1>3, <2>0, <3>3
      <4>2. CASE s \in todo
        BY <1>7, <4>1, <4>2
      <4>3. CASE s \notin todo
        <5>1. PICK r \in todo : r > s /\ Asks(t, r)
          BY <1>2, <4>1, <4>3 DEF Covered
        <5>2. r \in (s + 1) .. m /\ r \in 1 .. Len(log[t])
          BY <1>3, <1>7, <2>0, <5>1
        <5>3. Asks(t, r)'
          BY <5>1, <5>2 DEF ChainGrows, LogGrows, Asks
        <5> QED
          BY <5>1, <5>2, <5>3 DEF Account, Asks
      <4> QED
        BY <4>2, <4>3
    <3> QED
      BY <3>2, <3>3
  <2>2. start'[i][t] = start[i][t]
    BY <1>1
  <2> QED
    BY <2>1, <2>2 DEF Passed
<1>8. /\ last'[i][t] = last[i][t] \/ Passed(i, t, last[i][t])'
      /\ PollCursor(i, t, k)'
  <2>1. CASE Stops(i, t, k, todo)
    <3>1. PollCursor(i, t, k)'
      BY <2>1 DEF Stops, PollCursor, Idle, Working, Creating
    <3>2. last'[i][t] = last[i][t] \/ last'[i][t] \in todo
      BY <2>1 DEF Stops
    <3>3. \A n \in todo, m \in Nat : n <= m => Account(i, t, n, m)'
      BY <1>6, <2>1 DEF Stops
    <3>4. PICK e : e = last'[i][t]
      OBVIOUS
    <3>5. todo # {} => e \in todo /\ \A n \in todo : n <= e
      BY <2>1, <3>4 DEF Stops
    <3>6. last'[i][t] = last[i][t] \/ Passed(i, t, e)'
      BY <1>7, <3>2, <3>3, <3>4, <3>5
    <3> QED
      BY <3>1, <3>4, <3>6
  <2>2. ASSUME NEW s \in todo, Takes(i, t, k, todo, s)
        PROVE  Passed(i, t, last[i][t])' /\ PollCursor(i, t, k)'
    <3> DEFINE rest == {n \in todo : n > s}
    <3>1. /\ \A m \in todo : m < s => ~Processed(i, t, m)
          /\ last'[i][t] = s /\ begun'[i][t] = begun[i][t] \cup {s}
          /\ polls'[i][t][k].pc # "fetching"
          /\ polls'[i][t][k].cur = s /\ polls'[i][t][k].todo = rest
      BY <2>2 DEF Takes
    <3>2. Account(i, t, s, s)'
      BY <3>1 DEF Account
    <3>3. \A n \in todo : n <= s => Account(i, t, n, s)'
      <4> SUFFICES ASSUME NEW n \in todo, n <= s
                   PROVE  Account(i, t, n, s)'
        OBVIOUS
      <4>1. n = s \/ n < s
        OBVIOUS
      <4> QED
        BY <1>6, <3>1, <3>2, <4>1
    <3>7. \A n \in todo : Asks(t, n) => n <= s
      <4>1. t = Inbound => Asks(t, s)
        BY <2>2 DEF Takes, Processed, Acceptable, Asks
      <4>2. \A n \in todo : Asks(t, n) => n = s
        BY <1>2, <4>1 DEF Covered, Asks
      <4> QED
        BY <4>2
    <3>4. Passed(i, t, s)'
      BY <1>7, <3>3, <3>7
    <3>5. Covered(t, s, rest)'
      <4>0. \A q, r \in rest : Asks(t, q)' /\ Asks(t, r)' => q = r
        BY <1>5 DEF Covered
      <4> SUFFICES ASSUME NEW m \in todo, m > s, NEW n \in (s + 1) .. m, n \notin rest
                   PROVE  \E r \in rest : r > n /\ Asks(t, r)'
        BY <4>0 DEF Covered
      <4>1. s \in (x + 1) .. Len(log[t]) /\ m \in Nat
        BY <1>1
      <4>2. n \in (x + 1) .. m /\ n > s
        BY <1>3, <4>1
      <4>3. n \notin todo
        BY <4>2
      <4>4. PICK r \in todo : r > n /\ Asks(t, r)'
        BY <1>5, <4>2, <4>3 DEF Covered
      <4> QED
        BY <4>2, <4>4
    <3> HIDE DEF rest
    <3>6. PollCursor(i, t, k)'
      BY <3>1, <3>4, <3>5 DEF PollCursor
    <3> QED
      BY <3>1, <3>4, <3>6
  <2> QED
    BY <1>1, <2>1, <2>2
<1>9. \A u \in All, l \in Slots :
        polls'[i][u][l] = polls[i][u][l] \/ PollCursor(i, u, l)'
  BY <1>1, <1>8 DEF OnlyPoll
<1>10. ASSUME NEW u \in All
       PROVE  CursorInv(i, u)'
  <2>1. last'[i][u] = last[i][u] \/ Passed(i, u, last[i][u])'
    BY <1>4, <1>8
  <2>2. Growing(i, u) /\ CursorInv(i, u) /\ start'[i][u] = start[i][u]
    BY <1>1, <1>4 DEF Cursors
  <2> QED
    BY <1>9, <2>1, <2>2, CursorMoves
<1> QED
  BY <1>4, <1>10 DEF Cursors

(* A poll that stays with its request.                                     *)
LEMMA CursorStays ==
  ASSUME TypeInv, TypeInv', ChainGrows, Later, NEW i \in Instances, NEW k \in Slots,
         Cursors(i), polls[i][Inbound][k].pc \in Creating,
         polls'[i][Inbound][k].pc \in Creating,
         polls'[i][Inbound][k].cur = polls[i][Inbound][k].cur,
         polls'[i][Inbound][k].todo = polls[i][Inbound][k].todo,
         start'[i][Inbound] = start[i][Inbound], Growing(i, Inbound)
  PROVE  PollCursor(i, Inbound, k)'
<1>1. PICK x, todo : x = polls[i][Inbound][k].cur /\ todo = polls[i][Inbound][k].todo
  OBVIOUS
<1>2. Inbound \in All /\ polls[i][Inbound][k].pc \in Working
  BY MemoryOf, Lens DEF Working
<1>3. x \in Nat /\ todo \in SUBSET Nat /\ GoesOn(i, Inbound, k, x, todo)
  BY <1>1, <1>2, GoingOn
<1>4. /\ Passed(i, Inbound, x) /\ Covered(Inbound, x, todo) /\ x <= Len(log[Inbound])
      /\ start[i][Inbound] # Off
  BY <1>2, <1>3, PassedSoFar
<1>5. todo \subseteq (x + 1) .. Len(log[Inbound])
  BY <1>3 DEF GoesOn
<1>6. Passed(i, Inbound, x)' /\ Covered(Inbound, x, todo)'
  BY <1>2, <1>3, <1>4, <1>5, PassedKept, CoveredKept
<1>7. /\ polls'[i][Inbound][k].pc # "fetching" /\ polls'[i][Inbound][k].cur = x
      /\ polls'[i][Inbound][k].todo = todo
  BY <1>1 DEF Creating
<1> QED
  BY <1>6, <1>7 DEF PollCursor

LEMMA CursorsWork ==
  ASSUME TypeInv, TypeInv', ChainGrows, Later, NEW i \in Instances, NEW k \in Slots,
         Cursors(i), Moves(i, k)
  PROVE  Cursors(i)'
<1>1. /\ last'[i] = last[i] /\ start'[i] = start[i] /\ handled'[i] = handled[i]
      /\ begun'[i] = begun[i] /\ lastTime'[i] = lastTime[i] /\ OnlyPoll(i, Inbound, k)
      /\ polls'[i][Inbound][k].cur = polls[i][Inbound][k].cur
      /\ polls'[i][Inbound][k].todo = polls[i][Inbound][k].todo
      /\ polls[i][Inbound][k].pc \in Creating /\ polls'[i][Inbound][k].pc \in Creating
  BY DEF Moves, Kept, Unmoved, Creating
<1>2. lastTime[i] \in Nat /\ Inbound \in All
  BY MemoryOf, Lens DEF MemoryType
<1>3. HandledInv(i)' /\ \A u \in All : Growing(i, u)
  BY <1>1, <1>2 DEF HandledInv, Cursors, Growing
<1>4. PollCursor(i, Inbound, k)'
  BY <1>1, <1>2, <1>3, CursorStays
<1>5. \A u \in All, l \in Slots :
        polls'[i][u][l] = polls[i][u][l] \/ PollCursor(i, u, l)'
  BY <1>1, <1>4 DEF OnlyPoll
<1>6. \A u \in All : CursorInv(i, u)'
  BY <1>1, <1>3, <1>5, CursorMoves DEF Cursors
<1> QED
  BY <1>3, <1>6 DEF Cursors

LEMMA CursorsServe ==
  ASSUME TypeInv, TypeInv', ChainGrows, Later, NEW i \in Instances, NEW k \in Slots,
         TopicInv(i), Cursors(i), Serves(i, k)
  PROVE  Cursors(i)'
<1>0. PICK c, t : c = polls[i][Inbound][k].cur /\ t = polls[i][Inbound][k].topic
  OBVIOUS
<1>1. /\ polls[i][Inbound][k].pc = "starting" /\ polls'[i][Inbound][k].pc = "greeting"
      /\ polls'[i][Inbound][k].cur = polls[i][Inbound][k].cur
      /\ polls'[i][Inbound][k].todo = polls[i][Inbound][k].todo
      /\ OnlyPoll(i, Inbound, k) /\ Begins(i, t)
  BY <1>0 DEF Serves
<1>2. /\ polls[i][Inbound][k].pc \in Creating /\ polls'[i][Inbound][k].pc \in Creating
      /\ polls[i][Inbound][k].pc \in Serving
  BY <1>1 DEF Creating, Serving
<1>3. /\ c \in Nat \ {0} /\ t \in Made(i, c) /\ t \in Topics
  BY <1>0, <1>2, Handles DEF Made
<1>4. Served(i, c) = {}
  BY <1>0, <1>1 DEF TopicInv, HandlerInv, Creating
<1>5. last[i][t] = Off /\ t \in All /\ t # Inbound /\ Inbound \in All
  BY <1>3, <1>4, MemoryOf, Lens DEF Served, Topics, Inbound
<1>6. /\ handled'[i] = handled[i] /\ begun'[i] = begun[i] /\ lastTime'[i] = lastTime[i]
      /\ \A u \in All : u # t => last'[i][u] = last[i][u] /\ start'[i][u] = start[i][u]
  BY <1>1 DEF Begins
<1>7. lastTime[i] \in Nat
  BY MemoryOf DEF MemoryType
<1>8. HandledInv(i)' /\ \A u \in All : Growing(i, u)
  BY <1>6, <1>7 DEF HandledInv, Cursors, Growing
<1>9. PollCursor(i, Inbound, k)'
  BY <1>1, <1>2, <1>5, <1>6, <1>8, CursorStays
<1>10. \A u \in All, l \in Slots :
         polls'[i][u][l] = polls[i][u][l] \/ PollCursor(i, u, l)'
  BY <1>1, <1>9 DEF OnlyPoll
<1>11. ASSUME NEW u \in All
       PROVE  CursorInv(i, u)'
  <2>1. CASE u = t
    <3>1. polls'[i][t] = polls[i][t]
      BY <1>1, <1>5 DEF OnlyPoll
    <3> QED
      BY <1>1, <1>5, <2>1, <3>1, CursorBegins
  <2>2. CASE u # t
    BY <1>6, <1>8, <1>10, <2>2, CursorMoves DEF Cursors
  <2> QED
    BY <2>1, <2>2
<1> QED
  BY <1>8, <1>11 DEF Cursors

LEMMA CursorSteps ==
  ASSUME TypeInv, TypeInv', ChainGrows, Later, Step, \A j \in Instances : TopicInv(j),
         \A j \in Instances : Cursors(j)
  PROVE  \A j \in Instances : Cursors(j)'
<1>1. CASE Speaks
  BY <1>1, CursorsKeep DEF Speaks, Same
<1>2. CASE Crashes
  BY <1>2, CursorsCrash
<1>3. ASSUME NEW i \in Instances, Alone(i), Cursors(i)'
      PROVE  \A j \in Instances : Cursors(j)'
  BY <1>3, CursorsKeep DEF Alone, Same
<1>4. ASSUME NEW i \in Instances, Enters(i)
      PROVE  \A j \in Instances : Cursors(j)'
  BY <1>3, <1>4, CursorsKeep DEF Enters
<1>5. ASSUME NEW i \in Instances, NEW t \in All, Dequeues(i, t)
      PROVE  \A j \in Instances : Cursors(j)'
  <2>1. Cursors(i)'
    BY <1>5, CursorsDequeue
  <2> QED
    BY <1>3, <1>5, <2>1 DEF Dequeues
<1>6. ASSUME NEW i \in Instances, NEW t \in All, NEW k \in Slots, PollStep(i, t, k)
      PROVE  \A j \in Instances : Cursors(j)'
  <2>1. Cursors(i)'
    BY <1>6, CursorsTurn, CursorsResume, CursorsWork, CursorsServe DEF PollStep
  <2>2. Alone(i)
    BY <1>6 DEF PollStep, Turns, Resumes, Moves, Serves
  <2> QED
    BY <1>3, <2>1, <2>2
<1> QED
  BY <1>1, <1>2, <1>4, <1>5, <1>6 DEF Step

LEMMA InitCursors == Init => \A i \in Instances : Cursors(i)
<1> SUFFICES ASSUME Init, NEW i \in Instances
             PROVE  Cursors(i)
  OBVIOUS
<1>1. handled[i] = {} /\ lastTime[i] = 0 /\ last[i] = OffAll /\ polls[i] = PollNone
  BY DEF Init
<1>2. \A t \in All : last[i][t] = Off /\ \A k \in Slots : polls[i][t][k].pc = "idle"
  BY <1>1 DEF OffAll, PollNone, Idle, All
<1>3. HandledInv(i)
  BY <1>1 DEF HandledInv
<1> QED
  BY <1>2, <1>3 DEF Cursors, CursorInv, PollCursor, Working, Creating

CursorsInv == /\ TypeInv
              /\ \A i \in Instances : TopicInv(i)
              /\ ClockInv /\ \A i \in Instances : Cursors(i)

LEMMA CursorsHold == Spec => []CursorsInv
<1>1. Init => CursorsInv
  <2>1. Init => ClockInv
    BY DEF Init, ClockInv
  <2> QED
    BY <2>1, InitTypes, InitTopics, InitCursors DEF CursorsInv
<1>2. CursorsInv /\ [Next]_vars => CursorsInv'
  BY Steps, TopicSteps, ClockSteps, CursorSteps DEF CursorsInv
<1> QED
  BY <1>1, <1>2, PTL DEF Spec

LEMMA CursorPassed ==
  ASSUME CursorsInv, NEW i \in Instances, NEW t \in All, NEW s \in Nat,
         last[i][t] # Off, start[i][t] < s, s <= last[i][t]
  PROVE  Account(i, t, s, last[i][t])
<1>1. TypeInv /\ CursorInv(i, t)
  BY DEF CursorsInv, Cursors
<1>2. 1 \in Slots
  BY MonitorAssumption DEF Slots
<1>3. start[i][t] \in Nat /\ last[i][t] \in Nat
  BY <1>1, <1>2, PollStands
<1>4. Passed(i, t, last[i][t])
  BY <1>1 DEF CursorInv
<1>5. s \in (start[i][t] + 1) .. last[i][t]
  BY <1>3
<1> QED
  BY <1>4, <1>5 DEF Passed

(* However many polls of a connection topic overlap, and whatever fails in  *)
(* them, no cursor moves past a prompt whose processing has not begun.      *)
THEOREM MonitorSkipsNothing == Spec => []NothingSkipped
<1>1. CursorsInv => NothingSkipped
  <2> SUFFICES ASSUME CursorsInv, NEW i \in Instances, NEW t \in Topics, NEW s \in Serials,
                      last[i][t] # Off, start[i][t] < s, s <= last[i][t],
                      log[t][s].kind = "prompt"
               PROVE  s \in begun[i][t]
    BY DEF NothingSkipped
  <2>1. t \in All /\ t # Inbound /\ s \in Nat
    BY MonitorAssumption DEF Topics, Inbound, All, Serials
  <2>2. Account(i, t, s, last[i][t])
    BY <2>1, CursorPassed
  <2> QED
    BY <2>1, <2>2 DEF Account
<1> QED
  BY <1>1, CursorsHold, PTL

(* As long as the agent's file is good, a complete request that the inbound *)
(* cursor has passed was taken up, or gave way to a later one that the     *)
(* cursor has passed too, or to the time of one that was taken up: however *)
(* polls overlap, whatever the users' stamps and however slowly the clock  *)
(* goes on.                                                                *)
THEOREM MonitorAccountsForRequests == Spec => []RequestsAccounted
<1>1. CursorsInv => RequestsAccounted
  <2> SUFFICES ASSUME CursorsInv, NEW i \in Instances, NEW s \in 1 .. Len(log[Inbound]),
                      record = "good", last[i][Inbound] # Off,
                      start[i][Inbound] < s, s <= last[i][Inbound],
                      log[Inbound][s].kind = "request", log[Inbound][s].complete
               PROVE  \/ s \in begun[i][Inbound]
                      \/ \E r \in (s + 1) .. last[i][Inbound] :
                           log[Inbound][r].kind = "request"
                      \/ Since(log[Inbound][s]) <= lastTime[i]
    BY DEF RequestsAccounted
  <2>1. Inbound \in All /\ s \in Nat
    BY DEF All
  <2>2. Account(i, Inbound, s, last[i][Inbound])
    BY <2>1, CursorPassed
  <2> QED
    BY <2>2 DEF Account, Asks
<1> QED
  BY <1>1, CursorsHold, PTL
-----------------------------------------------------------------------------
(* One poll at a time: the cursor is where the poll is.                    *)
OnePoll == \A k, l \in Slots : k = l
Serial(i) == \A t \in All : SerialInv(i, t)

LEMMA OneSlot ==
  ASSUME MaxPolls = 1
  PROVE  OnePoll
  BY DEF OnePoll, Slots

LEMMA SerialIdle ==
  ASSUME NEW i \in Instances, NEW t \in All,
         \A k \in Slots : polls'[i][t][k].pc = "idle"
  PROVE  SerialInv(i, t)'
  BY DEF SerialInv, Working, Creating

LEMMA SerialSame ==
  ASSUME NEW i \in Instances, NEW t \in All, SerialInv(i, t),
         polls'[i][t] = polls[i][t], last'[i][t] = last[i][t]
  PROVE  SerialInv(i, t)'
  BY DEF SerialInv

LEMMA SerialKeeps ==
  ASSUME NEW j \in Instances, Serial(j), LoopSame(j)
  PROVE  Serial(j)'
  BY SerialSame DEF Serial, LoopSame

LEMMA SerialDequeues ==
  ASSUME TypeInv, NEW i \in Instances, NEW t \in All, TopicInv(i), Serial(i),
         Dequeues(i, t)
  PROVE  Serial(i)'
<1>1. /\ t \in queue[i] /\ polls'[i] = polls[i]
      /\ \A u \in All : u # t => last'[i][u] = last[i][u]
  BY DEF Dequeues, Begins
<1>2. last[i][t] = Off
  BY <1>1 DEF TopicInv
<1>3. \A k \in Slots : polls'[i][t][k].pc = "idle"
  BY <1>1, <1>2, PollStands
<1> QED
  BY <1>1, <1>3, SerialIdle, SerialSame DEF Serial

LEMMA SerialCrashes ==
  ASSUME NEW i \in Instances, Serial(i), Crashes
  PROVE  Serial(i)'
<1>1. CASE Same(i)
  BY <1>1, SerialKeeps DEF Same
<1>2. CASE polls'[i] = PollNone
  BY <1>2, SerialIdle DEF PollNone, Idle, All, Serial
<1> QED
  BY <1>1, <1>2 DEF Crashes

LEMMA SerialTurns ==
  ASSUME OnePoll, NEW i \in Instances, NEW t \in All, NEW k \in Slots, Serial(i),
         Turns(i, t, k)
  PROVE  Serial(i)'
<1>1. last'[i] = last[i] /\ OnlyPoll(i, t, k)
  BY DEF Turns, Kept
<1>2. \A u \in All : u # t => SerialInv(i, u)'
  BY <1>1, SerialSame DEF OnlyPoll, Serial
<1>3. SerialInv(i, t)'
  BY <1>1 DEF SerialInv, OnePoll, Turns, Idle, Working, Creating
<1> QED
  BY <1>2, <1>3 DEF Serial

(* Where the poll of a topic goes on, the cursor is.                       *)
LEMMA SerialCursor ==
  ASSUME NEW i \in Instances, NEW t \in All, NEW k \in Slots, Serial(i),
         NEW x, NEW todo, GoesOn(i, t, k, x, todo)
  PROVE  last[i][t] = x
  BY DEF GoesOn, Serial, SerialInv

LEMMA SerialResumes ==
  ASSUME TypeInv, OnePoll, NEW i \in Instances, NEW t \in All, NEW k \in Slots, Serial(i),
         NEW x \in Nat, NEW todo \in SUBSET Nat, Resumes(i, t, k, x, todo)
  PROVE  Serial(i)'
<1>1. /\ OnlyPoll(i, t, k)
      /\ Stops(i, t, k, todo) \/ \E s \in todo : Takes(i, t, k, todo, s)
  BY DEF Resumes
<1>2. \A u \in All : u # t => last'[i][u] = last[i][u] /\ polls'[i][u] = polls[i][u]
  BY <1>1 DEF OnlyPoll, Stops, Takes
<1>3. CASE Stops(i, t, k, todo)
  <2>1. \A l \in Slots : polls'[i][t][l].pc = "idle"
    BY <1>3 DEF Stops, Idle, OnePoll
  <2> QED
    BY <1>2, <2>1, SerialIdle, SerialSame DEF Serial
<1>4. ASSUME NEW s \in todo, Takes(i, t, k, todo, s)
      PROVE  Serial(i)'
  <2>1. /\ polls'[i][t][k].pc # "fetching" /\ polls'[i][t][k].cur = s /\ last'[i][t] = s
    BY <1>4 DEF Takes
  <2>2. SerialInv(i, t)'
    BY <2>1 DEF SerialInv, OnePoll
  <2> QED
    BY <1>2, <2>2, SerialSame DEF Serial
<1> QED
  BY <1>1, <1>3, <1>4

LEMMA SerialWorks ==
  ASSUME OnePoll, TypeInv, NEW i \in Instances, NEW k \in Slots, Serial(i), Moves(i, k)
  PROVE  Serial(i)'
<1>1. /\ last'[i] = last[i] /\ OnlyPoll(i, Inbound, k) /\ Inbound \in All
      /\ polls[i][Inbound][k].pc \in Working /\ polls'[i][Inbound][k].pc # "fetching"
      /\ polls'[i][Inbound][k].cur = polls[i][Inbound][k].cur
  BY MemoryOf, Lens DEF Moves, Kept, Working, Creating
<1>2. SerialInv(i, Inbound)'
  BY <1>1 DEF Serial, SerialInv, OnePoll
<1> QED
  BY <1>1, <1>2, SerialSame DEF Serial, OnlyPoll

LEMMA ServesUnpolled ==
  ASSUME TypeInv, NEW i \in Instances, NEW k \in Slots, TopicInv(i), Serves(i, k)
  PROVE  \E t \in Topics : /\ t = polls[i][Inbound][k].topic /\ last[i][t] = Off
                           /\ t # Inbound /\ t \in All
<1>0. PICK c, t : c = polls[i][Inbound][k].cur /\ t = polls[i][Inbound][k].topic
  OBVIOUS
<1>1. /\ polls[i][Inbound][k].pc = "starting" /\ polls[i][Inbound][k].pc \in Creating
      /\ polls[i][Inbound][k].pc \in Serving
  BY DEF Serves, Creating, Serving
<1>2. /\ c \in Nat \ {0} /\ t \in Made(i, c) /\ t \in Topics
  BY <1>0, <1>1, Handles DEF Made
<1>3. Served(i, c) = {}
  BY <1>0, <1>1 DEF TopicInv, HandlerInv, Creating
<1> QED
  BY <1>0, <1>2, <1>3, MemoryOf, Lens DEF Served, Topics, Inbound

LEMMA SerialServes ==
  ASSUME OnePoll, TypeInv, NEW i \in Instances, NEW k \in Slots, TopicInv(i), Serial(i),
         Serves(i, k)
  PROVE  Serial(i)'
<1>1. PICK t \in Topics : /\ t = polls[i][Inbound][k].topic /\ last[i][t] = Off
                          /\ t # Inbound /\ t \in All
  BY ServesUnpolled
<1>2. /\ \A u \in All : u # t => last'[i][u] = last[i][u]
      /\ OnlyPoll(i, Inbound, k) /\ Inbound \in All
      /\ polls[i][Inbound][k].pc \in Working /\ polls'[i][Inbound][k].pc # "fetching"
      /\ polls'[i][Inbound][k].cur = polls[i][Inbound][k].cur
  BY <1>1, MemoryOf, Lens DEF Serves, Begins, Working, Creating
<1>3. SerialInv(i, Inbound)'
  BY <1>1, <1>2 DEF Serial, SerialInv, OnePoll
<1>4. polls'[i][t] = polls[i][t]
  BY <1>1, <1>2 DEF OnlyPoll
<1>5. \A l \in Slots : polls'[i][t][l].pc = "idle"
  BY <1>1, <1>4, PollStands
<1> QED
  BY <1>1, <1>2, <1>3, <1>5, SerialIdle, SerialSame DEF Serial, OnlyPoll

LEMMA SerialSteps ==
  ASSUME OnePoll, TypeInv, Step, \A j \in Instances : TopicInv(j) /\ Serial(j)
  PROVE  \A j \in Instances : Serial(j)'
<1>1. CASE Speaks
  BY <1>1, SerialKeeps DEF Speaks, Same
<1>2. CASE Crashes
  BY <1>2, SerialCrashes
<1>3. ASSUME NEW i \in Instances, Alone(i), Serial(i)'
      PROVE  \A j \in Instances : Serial(j)'
  BY <1>3, SerialKeeps DEF Alone, Same
<1>4. ASSUME NEW i \in Instances, Enters(i)
      PROVE  \A j \in Instances : Serial(j)'
  BY <1>3, <1>4, SerialKeeps DEF Enters
<1>5. ASSUME NEW i \in Instances, NEW t \in All, Dequeues(i, t)
      PROVE  \A j \in Instances : Serial(j)'
  <2>1. Serial(i)'
    BY <1>5, SerialDequeues
  <2> QED
    BY <1>3, <1>5, <2>1 DEF Dequeues
<1>6. ASSUME NEW i \in Instances, NEW t \in All, NEW k \in Slots, PollStep(i, t, k)
      PROVE  \A j \in Instances : Serial(j)'
  <2>1. Serial(i)'
    BY <1>6, SerialTurns, SerialResumes, SerialWorks, SerialServes DEF PollStep
  <2>2. Alone(i)
    <3>1. Turns(i, t, k) => Alone(i)
      BY DEF Turns
    <3>2. \A x, todo : Resumes(i, t, k, x, todo) => Alone(i)
      BY DEF Resumes
    <3>3. Moves(i, k) \/ Serves(i, k) => Alone(i)
      BY SMTT(30) DEF Moves, Serves
    <3> QED
      BY <1>6, <3>1, <3>2, <3>3 DEF PollStep
  <2> QED
    BY <1>3, <2>1, <2>2
<1> QED
  BY <1>1, <1>2, <1>4, <1>5, <1>6 DEF Step

(* What a step begins with is behind the cursor.                           *)
LEMMA BeginsHigher ==
  ASSUME TypeInv, TypeInv', OnePoll, Step, \A j \in Instances : Serial(j),
         NEW i \in Instances, NEW t \in All, NEW k \in Slots
  PROVE  polls'[i][t][k].cur \notin {0, polls[i][t][k].cur} =>
           polls'[i][t][k].cur > last[i][t]
<1>1. ASSUME polls'[i][t][k] = polls[i][t][k] \/ polls'[i][t][k].pc \in {"idle", "fetching"}
      PROVE  polls'[i][t][k].cur \in {0, polls[i][t][k].cur}
  <2>1. TypeInv' => PollType(i, t, k)'
    BY DEF TypeInv, InstanceType
  <2> QED
    BY <1>1, <2>1 DEF PollType, Idle
<1>2. ASSUME \A j \in Instances : polls'[j] = polls[j]
      PROVE  polls'[i][t][k] = polls[i][t][k]
  BY <1>2
<1>3. CASE Speaks
  BY <1>1, <1>3 DEF Speaks, Same, LoopSame
<1>4. CASE Crashes
  <2>1. polls'[i] = polls[i] \/ polls'[i] = PollNone
    BY <1>4 DEF Crashes, Same, LoopSame
  <2>2. PollNone[t][k].pc = "idle"
    BY DEF PollNone, Idle, All
  <2> QED
    BY <1>1, <2>1, <2>2
<1>5. CASE \E j \in Instances : Enters(j) \/ \E u \in All : Dequeues(j, u)
  <2>1. polls'[i] = polls[i]
    BY <1>5 DEF Enters, Dequeues, Alone, Same, LoopSame
  <2> QED
    BY <1>1, <2>1
<1>6. ASSUME NEW j \in Instances, NEW u \in All, NEW l \in Slots, PollStep(j, u, l)
      PROVE  polls'[i][t][k].cur \notin {0, polls[i][t][k].cur} =>
               polls'[i][t][k].cur > last[i][t]
  <2>1. Alone(j) /\ OnlyPoll(j, u, l)
    BY <1>6 DEF PollStep, Turns, Resumes, Moves, Serves
  <2>2. CASE i # j \/ t # u
    <3>1. CASE i # j
      <4>1. polls'[i] = polls[i]
        BY <2>1, <3>1 DEF Alone, Same, LoopSame
      <4> QED
        BY <1>1, <4>1
    <3>2. CASE i = j /\ t # u
      <4>1. polls'[i][t] = polls[i][t]
        BY <2>1, <3>2, SMTT(30) DEF OnlyPoll
      <4> QED
        BY <1>1, <4>1
    <3> QED
      BY <2>2, <3>1, <3>2
  <2>3. CASE i = j /\ t = u
    <3>1. k = l
      BY DEF OnePoll
    <3>2. CASE Turns(i, t, k)
      BY <1>1, <3>2 DEF Turns, Idle
    <3>3. ASSUME NEW x \in Nat, NEW todo \in SUBSET Nat, Resumes(i, t, k, x, todo)
          PROVE  polls'[i][t][k].cur \notin {0, polls[i][t][k].cur} =>
                   polls'[i][t][k].cur > last[i][t]
      <4>1. /\ GoesOn(i, t, k, x, todo) /\ todo \subseteq (x + 1) .. Len(log[t])
            /\ Stops(i, t, k, todo) \/ \E s \in todo : Takes(i, t, k, todo, s)
        BY <3>3 DEF Resumes, GoesOn
      <4>2. last[i][t] = x /\ Len(log[t]) \in Nat
        BY <4>1, SerialCursor, MemoryOf, Lens
      <4>3. CASE Stops(i, t, k, todo)
        BY <1>1, <4>3 DEF Stops, Idle
      <4>4. ASSUME NEW s \in todo, Takes(i, t, k, todo, s)
            PROVE  polls'[i][t][k].cur > last[i][t]
        <5>1. polls'[i][t][k].cur = s /\ s \in (x + 1) .. Len(log[t])
          BY <4>1, <4>4 DEF Takes
        <5> QED
          BY <4>2, <5>1
      <4> QED
        BY <4>1, <4>3, <4>4
    <3>4. CASE t = Inbound /\ (Moves(i, k) \/ Serves(i, k))
      BY <3>4 DEF Moves, Serves
    <3> QED
      BY <1>6, <2>3, <3>1, <3>2, <3>3, <3>4 DEF PollStep
  <2> QED
    BY <2>2, <2>3
<1> QED
  BY <1>3, <1>4, <1>5, <1>6 DEF Step

LEMMA InitSerial == Init => \A i \in Instances : Serial(i)
<1> SUFFICES ASSUME Init, NEW i \in Instances
             PROVE  Serial(i)
  OBVIOUS
<1>1. polls[i] = PollNone
  BY DEF Init
<1> QED
  BY <1>1 DEF Serial, SerialInv, PollNone, Idle, All, Working, Creating

OrderInv == /\ TypeInv
            /\ \A i \in Instances : TopicInv(i) /\ Serial(i)

LEMMA OrderHolds ==
  ASSUME MaxPolls = 1
  PROVE  Spec => []OrderInv
<1>1. Init => OrderInv
  BY InitTypes, InitTopics, InitSerial DEF OrderInv
<1>2. OrderInv /\ [Next]_vars => OrderInv'
  BY OneSlot, Steps, TopicSteps, SerialSteps DEF OrderInv
<1> QED
  BY <1>1, <1>2, PTL DEF Spec

(* monitorService.ts:138, "Only process messages with higher sequence       *)
(* numbers", holds as long as one poll of a topic ends before the next.    *)
THEOREM MonitorGoesForward ==
  ASSUME MaxPolls = 1
  PROVE  Spec => OnlyHigher
<1> DEFINE Higher ==
      \A i \in Instances, t \in {Inbound} \cup Topics, k \in Slots :
        LET next == polls'[i][t][k].cur
        IN next \notin {0, polls[i][t][k].cur} => next > last[i][t]
<1>1. OrderInv /\ OrderInv' /\ [Next]_vars => [Higher]_vars
  BY OneSlot, Steps, BeginsHigher DEF OrderInv, All
<1> QED
  BY <1>1, OrderHolds, PTL DEF Spec, OnlyHigher
-----------------------------------------------------------------------------
(* The replies in a log.                                                   *)
Responds(i, t, k) ==
  /\ polls[i][t][k].pc = "answering" /\ Responded(i, t, polls[i][t][k].cur)
  /\ \E todo \in SUBSET Nat : Resumes(i, t, k, polls[i][t][k].cur, todo)
Prompts(t) ==
  \E m \in Messages : Appended(t, m) /\ m.kind = "prompt" /\ Len(log[t]) < MaxMessages
NoReply(i, t) ==
  \A n \in Len(log[t]) + 1 .. Len(log'[t]) : ~Reply(log'[t][n], i)

(* What a step adds to the logs of the connection topics.                  *)
LEMMA LogMoves ==
  ASSUME TypeInv, Step
  PROVE  \/ NoAnswers
         \/ \E t \in Topics : Prompts(t)
         \/ \E i \in Instances, t \in Topics, k \in Slots : Responds(i, t, k)
<1>1. log' = log => NoAnswers
  BY MemoryOf, NothingAdded
<1>2. CASE Speaks
  BY <1>2 DEF Speaks, Prompts
<1>3. CASE Crashes
  BY <1>1, <1>3 DEF Crashes
<1>4. ASSUME NEW i \in Instances, Enters(i) \/ \E t \in All : Dequeues(i, t)
      PROVE  NoAnswers
  BY <1>1, <1>4 DEF Enters, Dequeues
<1>5. ASSUME NEW i \in Instances, NEW t \in All, NEW k \in Slots, PollStep(i, t, k)
      PROVE  NoAnswers \/ (t \in Topics /\ Responds(i, t, k))
  <2>1. CASE Turns(i, t, k) \/ Serves(i, k)
    BY <1>1, <2>1 DEF Turns, Serves
  <2>2. CASE Moves(i, k)
    BY <2>2 DEF Moves
  <2>3. ASSUME NEW x \in Nat, NEW todo \in SUBSET Nat, Resumes(i, t, k, x, todo)
        PROVE  NoAnswers \/ (t \in Topics /\ Responds(i, t, k))
    <3>1. \/ NoAnswers
          \/ t \in Topics /\ polls[i][t][k].pc = "answering" /\ Responded(i, t, x)
      BY <2>3 DEF Resumes
    <3>2. polls[i][t][k].pc = "answering" => x = polls[i][t][k].cur
      BY <2>3 DEF Resumes, GoesOn
    <3> QED
      BY <2>3, <3>1, <3>2 DEF Responds
  <2> QED
    BY <1>5, <2>1, <2>2, <2>3 DEF PollStep
<1> QED
  BY <1>2, <1>3, <1>4, <1>5 DEF Step

LEMMA AnswersWho ==
  ASSUME TypeInv, NEW i \in Instances, NEW t \in Topics, NEW k \in Slots, Responds(i, t, k)
  PROVE  /\ t \in All /\ polls[i][t][k].cur \in 1 .. Len(log[t])
         /\ log[t][polls[i][t][k].cur].kind = "prompt" /\ status[i] = "up"
         /\ polls[i][t][k].cur \in Nat
<1>1. t \in All /\ polls[i][t][k].pc = "answering"
  BY Lens, MemoryOf DEF Responds
<1>2. PollType(i, t, k)
  BY <1>1, MemoryOf
<1>3. status[i] = "up"
  BY <1>1, PollUp
<1>4. Len(log[t]) \in Nat
  BY <1>1, Lens, MemoryOf
<1> QED
  BY <1>1, <1>2, <1>3, <1>4 DEF PollType, Working

LEMMA SaysWhat ==
  ASSUME NEW i \in Instances, NEW s \in Nat, NEW m \in Says(i, s)
  PROVE  /\ m.kind \in {"reply", "apology"} /\ m.from = i /\ m.re = s
  BY DEF Says, Post

(* The messages after those of the log: the first alone may be a reply.     *)
LEMMA AddedSays ==
  ASSUME TypeInv, ChainGrows, NEW i \in Instances, NEW t \in Topics, NEW s \in Nat,
         Responded(i, t, s)
  PROVE  \A n \in Len(log[t]) + 1 .. Len(log'[t]) :
           /\ log'[t][n].kind \in {"reply", "apology"}
           /\ log'[t][n].from = i /\ log'[t][n].re = s
           /\ log'[t][n].kind = "reply" => n = Len(log[t]) + 1
<1>1. Len(log[t]) \in Nat /\ Len(log'[t]) \in Nat
  BY NextLens
<1> SUFFICES ASSUME NEW n \in Len(log[t]) + 1 .. Len(log'[t])
             PROVE  /\ log'[t][n].kind \in {"reply", "apology"}
                    /\ log'[t][n].from = i /\ log'[t][n].re = s
                    /\ log'[t][n].kind = "reply" => n = Len(log[t]) + 1
  OBVIOUS
<1>2. log'[t][n] \in Says(i, s)
  BY DEF Responded
<1>3. n = Len(log[t]) + 1 \/ n \in Len(log[t]) + 2 .. Len(log'[t])
  BY <1>1
<1>4. n \in Len(log[t]) + 2 .. Len(log'[t]) => log'[t][n].kind = "apology"
  BY DEF Responded, Post
<1>5. /\ log'[t][n].kind \in {"reply", "apology"}
      /\ log'[t][n].from = i /\ log'[t][n].re = s
  BY <1>2, SaysWhat
<1> QED
  BY <1>3, <1>4, <1>5

LEMMA LogKept ==
  ASSUME TypeInv, ChainGrows, Step, LogInv
  PROVE  LogInv'
<1>1. \A t \in Topics : /\ t \in All /\ Len(log[t]) \in Nat /\ Len(log'[t]) \in Nat
                        /\ Len(log[t]) <= Len(log'[t])
  BY NextLens
<1>2. ASSUME NEW t \in Topics,
             \A n \in Len(log[t]) + 1 .. Len(log'[t]) :
               /\ log'[t][n].kind = "prompt" => n <= MaxMessages
               /\ log'[t][n].kind = "reply" =>
                    /\ log'[t][n].re \in 1 .. Len(log[t])
                    /\ log[t][log'[t][n].re].kind = "prompt"
      PROVE  \A n \in 1 .. Len(log'[t]) :
               /\ log'[t][n].kind = "prompt" => n <= MaxMessages
               /\ log'[t][n].kind = "reply" =>
                    /\ log'[t][n].re \in 1 .. Len(log'[t])
                    /\ log'[t][log'[t][n].re].kind = "prompt"
  <2>1. \A s \in 1 .. Len(log[t]) : s \in 1 .. Len(log'[t]) /\ log'[t][s] = log[t][s]
    BY <1>1 DEF ChainGrows, LogGrows
  <2> SUFFICES ASSUME NEW n \in 1 .. Len(log'[t])
               PROVE  /\ log'[t][n].kind = "prompt" => n <= MaxMessages
                      /\ log'[t][n].kind = "reply" =>
                           /\ log'[t][n].re \in 1 .. Len(log'[t])
                           /\ log'[t][log'[t][n].re].kind = "prompt"
    OBVIOUS
  <2>2. CASE n \in 1 .. Len(log[t])
    BY <2>1, <2>2 DEF LogInv
  <2>3. CASE n \in Len(log[t]) + 1 .. Len(log'[t])
    BY <1>2, <2>1, <2>3
  <2>4. n \in 1 .. Len(log[t]) \/ n \in Len(log[t]) + 1 .. Len(log'[t])
    BY <1>1
  <2> QED
    BY <2>2, <2>3, <2>4
<1>3. ASSUME NEW t \in Topics
      PROVE  \A n \in Len(log[t]) + 1 .. Len(log'[t]) :
               /\ log'[t][n].kind = "prompt" => n <= MaxMessages
               /\ log'[t][n].kind = "reply" =>
                    /\ log'[t][n].re \in 1 .. Len(log[t])
                    /\ log[t][log'[t][n].re].kind = "prompt"
  <2>1. CASE NoAnswers
    BY <2>1 DEF NoAnswers
  <2>2. ASSUME NEW u \in Topics, log'[t] = log[t]
        PROVE  Len(log[t]) + 1 .. Len(log'[t]) = {}
    BY <1>1, <2>2
  <2>3. ASSUME NEW u \in Topics, Prompts(u), u = t,
               NEW n \in Len(log[t]) + 1 .. Len(log'[t])
        PROVE  n <= MaxMessages /\ log'[t][n].kind = "prompt"
    <3>1. PICK m \in Messages : Appended(t, m) /\ m.kind = "prompt" /\ Len(log[t]) < MaxMessages
      BY <2>3 DEF Prompts
    <3>2. n = Len(log[t]) + 1
      BY <1>1, <3>1 DEF Appended
    <3> QED
      BY <1>1, <3>1, <3>2, MonitorAssumption DEF Appended
  <2>4. ASSUME NEW u \in Topics, Prompts(u)
        PROVE  u = t \/ log'[t] = log[t]
    BY <1>1, <2>4 DEF Prompts, Appended
  <2>5. ASSUME NEW i \in Instances, NEW u \in Topics, NEW k \in Slots, Responds(i, u, k)
        PROVE  u = t \/ log'[t] = log[t]
    BY <1>1, <2>5 DEF Responds, Responded
  <2>6. ASSUME NEW i \in Instances, NEW k \in Slots, Responds(i, t, k),
               NEW n \in Len(log[t]) + 1 .. Len(log'[t])
        PROVE  /\ log'[t][n].kind # "prompt" /\ log'[t][n].re \in 1 .. Len(log[t])
               /\ log[t][log'[t][n].re].kind = "prompt"
    <3>1. PICK s : s = polls[i][t][k].cur
      OBVIOUS
    <3>2. s \in Nat /\ s \in 1 .. Len(log[t]) /\ log[t][s].kind = "prompt"
      BY <2>6, <3>1, AnswersWho
    <3>3. Responded(i, t, s)
      BY <2>6, <3>1 DEF Responds
    <3> QED
      BY <3>2, <3>3, AddedSays
  <2> QED
    BY <2>1, <2>2, <2>3, <2>4, <2>5, <2>6, LogMoves
<1> QED
  BY <1>2, <1>3 DEF LogInv

(* Without a reply of its own, an instance's replies stay where they were.  *)
LEMMA RepliesKept ==
  ASSUME TypeInv, ChainGrows, LogInv, NEW i \in Instances, NEW t \in Topics,
         ReplyInv(i, t), NoReply(i, t),
         \A s \in Nat \ {0} : Behind(i, t, s) => Behind(i, t, s)'
  PROVE  ReplyInv(i, t)'
<1>1. /\ t \in All /\ Len(log[t]) \in Nat /\ Len(log'[t]) \in Nat
      /\ Len(log[t]) <= Len(log'[t])
      /\ \A n \in 1 .. Len(log[t]) : log'[t][n] = log[t][n]
  BY NextLens DEF ChainGrows, LogGrows
<1>2. \A n \in 1 .. Len(log'[t]) : Reply(log'[t][n], i) =>
        n \in 1 .. Len(log[t]) /\ log'[t][n] = log[t][n]
  <2>1. \A n \in 1 .. Len(log'[t]) :
          n \in 1 .. Len(log[t]) \/ n \in Len(log[t]) + 1 .. Len(log'[t])
    BY <1>1
  <2> QED
    BY <1>1, <2>1 DEF NoReply
<1>3. ASSUME NEW n \in 1 .. Len(log'[t]), Reply(log'[t][n], i)
      PROVE  /\ Behind(i, t, log[t][n].re)'
             /\ \A m \in 1 .. Len(log'[t]) :
                  Reply(log'[t][m], i) /\ log'[t][m].re = log'[t][n].re => m = n
  <2>1. n \in 1 .. Len(log[t]) /\ log'[t][n] = log[t][n] /\ Reply(log[t][n], i)
    BY <1>2, <1>3
  <2>2. PICK s : s = log[t][n].re
    OBVIOUS
  <2>3. s \in Nat \ {0}
    <3>1. s \in 1 .. Len(log[t])
      BY <2>1, <2>2 DEF LogInv, Reply
    <3> QED
      BY <1>1, <3>1
  <2>4. Behind(i, t, s)'
    BY <2>1, <2>2, <2>3 DEF ReplyInv
  <2>5. log'[t][n].re = s
    BY <2>1, <2>2
  <2>6. ASSUME NEW m \in 1 .. Len(log'[t]), Reply(log'[t][m], i), log'[t][m].re = s
        PROVE  m = n
    <3>1. m \in 1 .. Len(log[t]) /\ Reply(log[t][m], i) /\ log[t][m].re = log[t][n].re
      BY <1>2, <2>2, <2>6
    <3> QED
      BY <2>1, <3>1 DEF ReplyInv, Reply, Behind
  <2>7. Behind(i, t, log[t][n].re)'
    BY <2>4, <2>5 DEF Behind
  <2> QED
    BY <2>5, <2>6, <2>7
<1> QED
  BY <1>3 DEF ReplyInv, Reply, Behind

LEMMA RepliesBy ==
  ASSUME TypeInv, ChainGrows, Step, NEW j \in Instances, NEW t \in Topics
  PROVE  NoReply(j, t) \/ \E k \in Slots : Responds(j, t, k)
<1>1. t \in All /\ Len(log[t]) \in Nat /\ Len(log'[t]) \in Nat
  BY NextLens
<1>2. log'[t] = log[t] => NoReply(j, t)
  BY <1>1 DEF NoReply
<1>3. CASE NoAnswers
  BY <1>3 DEF NoAnswers, NoReply, Reply
<1>4. ASSUME NEW u \in Topics, Prompts(u)
      PROVE  NoReply(j, t)
  <2>1. PICK m \in Messages : Appended(u, m) /\ m.kind = "prompt"
    BY <1>4 DEF Prompts
  <2>2. CASE u = t
    <3>1. \A n \in Len(log[t]) + 1 .. Len(log'[t]) : log'[t][n].kind = "prompt"
      BY <1>1, <2>1, <2>2 DEF Appended
    <3> QED
      BY <3>1 DEF NoReply, Reply
  <2>3. CASE u # t
    BY <1>1, <1>2, <2>1, <2>3 DEF Appended
  <2> QED
    BY <2>2, <2>3
<1>5. ASSUME NEW i \in Instances, NEW u \in Topics, NEW k \in Slots, Responds(i, u, k)
      PROVE  NoReply(j, t) \/ \E l \in Slots : Responds(j, t, l)
  <2>1. CASE u # t
    BY <1>1, <1>2, <1>5, <2>1 DEF Responds, Responded
  <2>2. CASE u = t /\ i = j
    BY <1>5, <2>2
  <2>3. CASE u = t /\ i # j
    <3>1. PICK s : s = polls[i][t][k].cur
      OBVIOUS
    <3>2. s \in Nat /\ Responded(i, t, s)
      BY <1>5, <2>3, <3>1, AnswersWho DEF Responds
    <3>3. \A n \in Len(log[t]) + 1 .. Len(log'[t]) : log'[t][n].from = i
      BY <3>2, AddedSays
    <3> QED
      BY <2>3, <3>3 DEF NoReply, Reply
  <2> QED
    BY <2>1, <2>2, <2>3
<1> QED
  BY <1>3, <1>4, <1>5, LogMoves

LEMMA BehindSame ==
  ASSUME NEW i \in Instances, NEW t \in All, NEW s, Behind(i, t, s),
         status'[i] = status[i], last'[i][t] = last[i][t],
         \A k \in Slots : polls'[i][t][k].pc = "answering" =>
                            polls'[i][t][k] = polls[i][t][k]
  PROVE  Behind(i, t, s)'
  BY DEF Behind

LEMMA BehindOff ==
  ASSUME NEW i \in Instances, NEW t \in All, NEW s \in Nat \ {0}, Behind(i, t, s),
         status[i] = "up"
  PROVE  last[i][t] # Off
<1>1. ~(s <= Off)
  BY DEF Off
<1> QED
  BY <1>1 DEF Behind

(* Where the poll goes on, what is behind it stays behind it.              *)
LEMMA BehindResumes ==
  ASSUME OnePoll, TypeInv, NEW i \in Instances, NEW t \in All, NEW k \in Slots, Serial(i),
         NEW x \in Nat, NEW todo \in SUBSET Nat, Resumes(i, t, k, x, todo),
         t # Inbound, NEW s \in Nat, s <= x
  PROVE  Behind(i, t, s)'
<1>1. /\ GoesOn(i, t, k, x, todo) /\ todo \subseteq (x + 1) .. Len(log[t])
      /\ Stops(i, t, k, todo) \/ \E n \in todo : Takes(i, t, k, todo, n)
      /\ status'[i] = status[i]
  BY DEF Resumes, GoesOn, Unmoved
<1>2. last[i][t] = x /\ Len(log[t]) \in Nat
  BY <1>1, SerialCursor, MemoryOf, Lens
<1>3. status[i] = "up"
  BY ResumeLast
<1>4. \A n \in todo : s <= n /\ s # n
  <2>1. \A n \in todo : n \in (x + 1) .. Len(log[t])
    BY <1>1
  <2> QED
    BY <1>2, <2>1
<1>5. CASE Stops(i, t, k, todo)
  <2>1. s <= last'[i][t]
    BY <1>2, <1>4, <1>5 DEF Stops
  <2>2. \A l \in Slots : polls'[i][t][l].pc # "answering"
    BY <1>5 DEF OnePoll, Stops, Idle
  <2> QED
    BY <1>1, <1>3, <2>1, <2>2 DEF Behind
<1>6. ASSUME NEW n \in todo, Takes(i, t, k, todo, n)
      PROVE  Behind(i, t, s)'
  <2>1. last'[i][t] = n /\ \A l \in Slots : polls'[i][t][l].cur = n
    BY <1>6 DEF Takes, OnePoll
  <2> QED
    BY <1>1, <1>3, <1>4, <2>1 DEF Behind
<1> QED
  BY <1>1, <1>5, <1>6

LEMMA BehindMoves ==
  ASSUME OnePoll, TypeInv, Step, \A j \in Instances : TopicInv(j) /\ Serial(j),
         NEW i \in Instances, NEW t \in Topics, NEW s \in Nat \ {0}, Behind(i, t, s)
  PROVE  Behind(i, t, s)'
<1>0. t \in All /\ t # Inbound
  BY MemoryOf, Lens DEF Topics, Inbound
<1>1. ASSUME Same(i)
      PROVE  Behind(i, t, s)'
  BY <1>0, <1>1, BehindSame DEF Same, LoopSame
<1>2. CASE Speaks
  BY <1>1, <1>2 DEF Speaks
<1>3. CASE Crashes
  BY <1>1, <1>3 DEF Crashes, Behind
<1>4. ASSUME NEW j \in Instances, Enters(j)
      PROVE  Behind(i, t, s)'
  <2>1. CASE i = j
    BY <1>4, <2>1 DEF Enters, Behind
  <2> QED
    BY <1>1, <1>4, <2>1 DEF Enters, Alone
<1>5. ASSUME NEW j \in Instances, NEW u \in All, Dequeues(j, u)
      PROVE  Behind(i, t, s)'
  <2>1. CASE i # j
    BY <1>1, <1>5, <2>1 DEF Dequeues, Alone
  <2>2. CASE i = j /\ u # t
    BY <1>0, <1>5, <2>2, BehindSame DEF Dequeues, Begins
  <2>3. CASE i = j /\ u = t
    <3>1. last[i][t] = Off /\ t \in queue[i]
      BY <1>5, <2>3 DEF Dequeues, TopicInv
    <3>2. status[i] = "up"
      BY <3>1, MemoryOf DEF InstanceType
    <3> QED
      BY <1>0, <3>1, <3>2, BehindOff
  <2> QED
    BY <2>1, <2>2, <2>3
<1>6. ASSUME NEW j \in Instances, NEW u \in All, NEW l \in Slots, PollStep(j, u, l)
      PROVE  Behind(i, t, s)'
  <2>1. Alone(j) /\ OnlyPoll(j, u, l)
    BY <1>6 DEF PollStep, Turns, Resumes, Moves, Serves
  <2>2. CASE i # j
    BY <1>1, <2>1, <2>2 DEF Alone
  <2>3. CASE i = j
    <3>1. CASE Turns(i, u, l)
      <4>1. \A k \in Slots : polls'[i][t][k].pc = "answering" =>
                               polls'[i][t][k] = polls[i][t][k]
        BY <1>0, <3>1 DEF Turns, OnlyPoll, Idle
      <4> QED
        BY <1>0, <3>1, <4>1, BehindSame DEF Turns, Kept, Unmoved
    <3>2. ASSUME NEW x \in Nat, NEW todo \in SUBSET Nat, Resumes(i, u, l, x, todo)
          PROVE  Behind(i, t, s)'
      <4>1. CASE u = t
        <5>1. last[i][t] = x /\ status[i] = "up"
          BY <3>2, <4>1, SerialCursor, ResumeLast DEF Resumes
        <5>2. s <= x
          BY <5>1 DEF Behind
        <5> QED
          BY <1>0, <3>2, <4>1, <5>2, BehindResumes
      <4>2. CASE u # t
        <5>1. last'[i][t] = last[i][t]
          BY <1>0, <3>2, <4>2 DEF Resumes, Stops, Takes
        <5> QED
          BY <1>0, <2>1, <2>3, <3>2, <4>2, <5>1, BehindSame DEF Resumes, Unmoved, OnlyPoll
      <4> QED
        BY <4>1, <4>2
    <3>3. CASE u = Inbound /\ Moves(i, l)
      BY <1>0, <2>1, <2>3, <3>3, BehindSame DEF Moves, Kept, Unmoved, OnlyPoll
    <3>4. CASE u = Inbound /\ Serves(i, l)
      <4>1. PICK v \in Topics : /\ v = polls[i][Inbound][l].topic /\ last[i][v] = Off
                                /\ v # Inbound /\ v \in All
        BY <3>4, ServesUnpolled
      <4>2. status[i] = "up"
        <5>1. polls[i][u][l].pc # "idle"
          BY <3>4 DEF Serves
        <5> QED
          BY <5>1, PollUp
      <4>3. v # t
        BY <1>0, <4>1, <4>2, BehindOff
      <4>4. last'[i][t] = last[i][t] /\ status'[i] = status[i]
        BY <1>0, <3>4, <4>1, <4>3 DEF Serves, Begins
      <4> QED
        BY <1>0, <2>1, <2>3, <3>4, <4>4, BehindSame DEF OnlyPoll
    <3> QED
      BY <1>6, <2>3, <3>1, <3>2, <3>3, <3>4 DEF PollStep
  <2> QED
    BY <2>2, <2>3
<1> QED
  BY <1>2, <1>3, <1>4, <1>5, <1>6 DEF Step

(* The reply to a prompt is the first of its instance.                     *)
LEMMA NoReplyYet ==
  ASSUME TypeInv, NEW i \in Instances, NEW t \in Topics, NEW k \in Slots,
         ReplyInv(i, t), Responds(i, t, k)
  PROVE  \A n \in 1 .. Len(log[t]) : Reply(log[t][n], i) =>
           log[t][n].re # polls[i][t][k].cur
<1>1. status[i] = "up" /\ polls[i][t][k].pc = "answering"
  BY AnswersWho DEF Responds
<1> SUFFICES ASSUME NEW n \in 1 .. Len(log[t]), Reply(log[t][n], i)
             PROVE  log[t][n].re # polls[i][t][k].cur
  OBVIOUS
<1>2. Behind(i, t, log[t][n].re)
  BY DEF ReplyInv
<1> QED
  BY <1>1, <1>2 DEF Behind

LEMMA RepliesMove ==
  ASSUME OnePoll, TypeInv, ChainGrows, LogInv, Step,
         \A j \in Instances : TopicInv(j) /\ Serial(j),
         NEW i \in Instances, NEW t \in Topics, ReplyInv(i, t)
  PROVE  ReplyInv(i, t)'
<1>1. \A s \in Nat \ {0} : Behind(i, t, s) => Behind(i, t, s)'
  BY BehindMoves
<1>2. CASE NoReply(i, t)
  BY <1>1, <1>2, RepliesKept
<1>3. ASSUME NEW k \in Slots, Responds(i, t, k)
      PROVE  ReplyInv(i, t)'
  <2>1. PICK x : x = polls[i][t][k].cur
    OBVIOUS
  <2>2. /\ t \in All /\ x \in Nat /\ Responded(i, t, x) /\ t # Inbound
        /\ Len(log[t]) \in Nat /\ Len(log'[t]) \in Nat
        /\ Len(log[t]) <= Len(log'[t])
        /\ \A n \in 1 .. Len(log[t]) : log'[t][n] = log[t][n]
    <3>1. t \in All /\ x \in Nat
      BY <1>3, <2>1, AnswersWho
    <3>2. Responded(i, t, x)
      BY <1>3, <2>1 DEF Responds
    <3>3. t # Inbound
      BY DEF Topics, Inbound
    <3>4. /\ Len(log[t]) \in Nat /\ Len(log'[t]) \in Nat
          /\ Len(log[t]) <= Len(log'[t])
      BY <3>1, NextLens
    <3>5. \A n \in 1 .. Len(log[t]) : log'[t][n] = log[t][n]
      BY <3>1 DEF ChainGrows, LogGrows
    <3> QED
      BY <3>1, <3>2, <3>3, <3>4, <3>5
  <2>3. Behind(i, t, x)'
    <3>1. PICK todo \in SUBSET Nat : Resumes(i, t, k, x, todo)
      BY <1>3, <2>1 DEF Responds
    <3> QED
      BY <2>2, <3>1, BehindResumes
  <2>4. \A n \in 1 .. Len(log[t]) : Reply(log[t][n], i) => log[t][n].re # x
    BY <1>3, <2>1, NoReplyYet
  <2>5. \A n \in Len(log[t]) + 1 .. Len(log'[t]) : Reply(log'[t][n], i) =>
          n = Len(log[t]) + 1 /\ log'[t][n].re = x
    BY <2>2, AddedSays DEF Reply
  <2>6. \A n \in 1 .. Len(log'[t]) :
          n \in 1 .. Len(log[t]) \/ n \in Len(log[t]) + 1 .. Len(log'[t])
    BY <2>2
  <2>7. ASSUME NEW n \in 1 .. Len(log'[t]), Reply(log'[t][n], i)
        PROVE  \/ n = Len(log[t]) + 1 /\ log'[t][n].re = x
               \/ /\ n \in 1 .. Len(log[t]) /\ log'[t][n] = log[t][n]
                  /\ Reply(log[t][n], i) /\ log'[t][n].re # x
    BY <2>2, <2>4, <2>5, <2>6, <2>7 DEF Reply
  <2>8. ASSUME NEW n \in 1 .. Len(log'[t]), Reply(log'[t][n], i)
        PROVE  /\ Behind(i, t, log[t][n].re)'
               /\ \A m \in 1 .. Len(log'[t]) :
                    Reply(log'[t][m], i) /\ log'[t][m].re = log'[t][n].re => m = n
    <3>1. CASE n = Len(log[t]) + 1 /\ log'[t][n].re = x
      <4>1. Behind(i, t, log[t][n].re)'
        BY <2>3, <3>1 DEF Behind
      <4>2. \A m \in 1 .. Len(log'[t]) :
              Reply(log'[t][m], i) /\ log'[t][m].re = x => m = n
        BY <2>7, <3>1 DEF Reply
      <4> QED
        BY <3>1, <4>1, <4>2
    <3>2. CASE /\ n \in 1 .. Len(log[t]) /\ log'[t][n] = log[t][n]
               /\ Reply(log[t][n], i) /\ log'[t][n].re # x
      <4>1. PICK s : s = log[t][n].re
        OBVIOUS
      <4>2. s \in Nat \ {0}
        <5>1. s \in 1 .. Len(log[t])
          BY <3>2, <4>1 DEF LogInv, Reply
        <5> QED
          BY <2>2, <5>1
      <4>3. Behind(i, t, s)'
        BY <1>1, <3>2, <4>1, <4>2 DEF ReplyInv
      <4>4. log'[t][n].re = s
        BY <3>2, <4>1
      <4>5. Behind(i, t, log[t][n].re)'
        BY <4>3, <4>4 DEF Behind
      <4>6. ASSUME NEW m \in 1 .. Len(log'[t]), Reply(log'[t][m], i), log'[t][m].re = s
            PROVE  m = n
        <5>1. m \in 1 .. Len(log[t]) /\ log'[t][m] = log[t][m] /\ Reply(log[t][m], i)
          BY <2>7, <3>2, <4>4, <4>6
        <5>2. log[t][m].re = log[t][n].re
          BY <4>1, <4>6, <5>1
        <5> QED
          BY <3>2, <5>1, <5>2 DEF ReplyInv, Reply, Behind
      <4> QED
        BY <4>4, <4>5, <4>6
    <3> QED
      BY <2>7, <2>8, <3>1, <3>2
  <2> QED
    BY <2>8 DEF ReplyInv, Reply, Behind
<1> QED
  BY <1>2, <1>3, RepliesBy

AnswersInv == /\ OrderInv /\ LogInv
              /\ \A i \in Instances, t \in Topics : ReplyInv(i, t)

LEMMA InitReplies == Init => LogInv /\ \A i \in Instances, t \in Topics : ReplyInv(i, t)
<1> SUFFICES ASSUME Init
             PROVE  \A t \in Topics : 1 .. Len(log[t]) = {}
  BY DEF LogInv, ReplyInv
<1>1. \A t \in Topics : log[t] = <<>>
  BY DEF Init
<1>2. Len(<<>>) = 0
  BY EmptySeq
<1> QED
  BY <1>1, <1>2

LEMMA AnswersHold ==
  ASSUME MaxPolls = 1
  PROVE  Spec => []AnswersInv
<1>1. Init => AnswersInv
  BY InitTypes, InitTopics, InitSerial, InitReplies DEF AnswersInv, OrderInv
<1>2. AnswersInv /\ [Next]_vars => AnswersInv'
  BY OneSlot, Steps, TopicSteps, SerialSteps, LogKept, RepliesMove DEF AnswersInv, OrderInv
<1> QED
  BY <1>1, <1>2, PTL DEF Spec
-----------------------------------------------------------------------------
(* Monitor implements PromptService.                                       *)
AllPrompts == Topics \X Serials
PostedPrompts ==
  {p \in AllPrompts : p[2] <= Len(log[p[1]]) /\ log[p[1]][p[2]].kind = "prompt"}
GivenAnswers ==
  [i \in Instances |-> [p \in AllPrompts |-> Answers(i, p[1], p[2])]]
Counted(i, t, s) == {n \in 1 .. Len(log[t]) : Reply(log[t][n], i) /\ log[t][n].re = s}

LEMMA GrownLog ==
  ASSUME TypeInv, ChainGrows, NEW t \in Topics
  PROVE  /\ Len(log[t]) \in Nat /\ Len(log'[t]) \in Nat /\ Len(log[t]) <= Len(log'[t])
         /\ \A n \in 1 .. Len(log[t]) : n \in 1 .. Len(log'[t]) /\ log'[t][n] = log[t][n]
         /\ \A n \in 1 .. Len(log'[t]) :
              n \in 1 .. Len(log[t]) \/ n \in Len(log[t]) + 1 .. Len(log'[t])
<1>1. /\ t \in All /\ Len(log[t]) \in Nat /\ Len(log'[t]) \in Nat
      /\ Len(log[t]) <= Len(log'[t])
  BY NextLens
<1>2. \A n \in 1 .. Len(log[t]) : log'[t][n] = log[t][n]
  BY <1>1 DEF ChainGrows, LogGrows
<1>3. \A n \in 1 .. Len(log[t]) : n \in 1 .. Len(log'[t])
  BY <1>1
<1>4. \A n \in 1 .. Len(log'[t]) :
        n \in 1 .. Len(log[t]) \/ n \in Len(log[t]) + 1 .. Len(log'[t])
  BY <1>1
<1> QED
  BY <1>1, <1>2, <1>3, <1>4

LEMMA AnswersCount ==
  ASSUME NEW i \in Instances, NEW t \in Topics, NEW s \in Serials
  PROVE  /\ Answers(i, t, s) = Cardinality(Counted(i, t, s))
         /\ Answers(i, t, s)' = Cardinality(Counted(i, t, s)')
<1>1. Counted(i, t, s) = {n \in 1 .. Len(log[t]) :
        LET m == log[t][n] IN m.re = s /\ m.from = i /\ m.kind = "reply"}
  BY DEF Counted, Reply
<1>2. Counted(i, t, s)' = {n \in 1 .. Len(log'[t]) :
        LET m == log'[t][n] IN m.re = s /\ m.from = i /\ m.kind = "reply"}
  BY DEF Counted, Reply
<1> QED
  BY <1>1, <1>2 DEF Answers

(* A prompt is posted when its message arrives, and never withdrawn.       *)
LEMMA PromptPosted ==
  ASSUME TypeInv, ChainGrows, NEW p \in AllPrompts
  PROVE  p \in PostedPrompts' <=>
           \/ p \in PostedPrompts
           \/ /\ p[2] \in Len(log[p[1]]) + 1 .. Len(log'[p[1]])
              /\ log'[p[1]][p[2]].kind = "prompt"
<1>1. PICK t \in Topics, s \in Serials : p = <<t, s>>
  BY DEF AllPrompts
<1>2. p[1] = t /\ p[2] = s
  BY <1>1
<1>3. s \in Nat \ {0}
  BY MonitorAssumption DEF Serials
<1>4. /\ p \in PostedPrompts <=> s <= Len(log[t]) /\ log[t][s].kind = "prompt"
      /\ p \in PostedPrompts' <=> s <= Len(log'[t]) /\ log'[t][s].kind = "prompt"
  BY <1>2 DEF PostedPrompts
<1>5. /\ Len(log[t]) \in Nat /\ Len(log'[t]) \in Nat /\ Len(log[t]) <= Len(log'[t])
      /\ \A n \in 1 .. Len(log[t]) : n \in 1 .. Len(log'[t]) /\ log'[t][n] = log[t][n]
  BY GrownLog
<1>6. /\ s <= Len(log[t]) <=> s \in 1 .. Len(log[t])
      /\ s <= Len(log'[t]) <=> s \in 1 .. Len(log'[t])
      /\ s \in 1 .. Len(log'[t]) <=>
           s \in 1 .. Len(log[t]) \/ s \in Len(log[t]) + 1 .. Len(log'[t])
      /\ ~(s \in 1 .. Len(log[t]) /\ s \in Len(log[t]) + 1 .. Len(log'[t]))
  BY <1>3, <1>5
<1> QED
  BY <1>2, <1>4, <1>5, <1>6

LEMMA PostedSame ==
  ASSUME TypeInv, ChainGrows,
         \A t \in Topics : \A n \in Len(log[t]) + 1 .. Len(log'[t]) :
           log'[t][n].kind # "prompt"
  PROVE  PostedPrompts' = PostedPrompts
<1>1. \A p \in AllPrompts : p[1] \in Topics
  BY DEF AllPrompts
<1>2. \A p \in AllPrompts : p \in PostedPrompts' <=> p \in PostedPrompts
  BY <1>1, PromptPosted
<1>3. PostedPrompts \subseteq AllPrompts /\ PostedPrompts' \subseteq AllPrompts
  BY DEF PostedPrompts, AllPrompts
<1> QED
  BY <1>2, <1>3

(* Answers change only with a reply of their own.                          *)
LEMMA AnswersSame ==
  ASSUME TypeInv, ChainGrows, NEW i \in Instances, NEW t \in Topics, NEW s \in Serials,
         \A n \in Len(log[t]) + 1 .. Len(log'[t]) :
           ~(Reply(log'[t][n], i) /\ log'[t][n].re = s)
  PROVE  Answers(i, t, s)' = Answers(i, t, s)
<1>1. /\ \A n \in 1 .. Len(log[t]) : n \in 1 .. Len(log'[t]) /\ log'[t][n] = log[t][n]
      /\ \A n \in 1 .. Len(log'[t]) :
           n \in 1 .. Len(log[t]) \/ n \in Len(log[t]) + 1 .. Len(log'[t])
  BY GrownLog
<1>2. /\ Counted(i, t, s) =
           {n \in 1 .. Len(log[t]) : Reply(log[t][n], i) /\ log[t][n].re = s}
      /\ Counted(i, t, s)' =
           {n \in 1 .. Len(log'[t]) : Reply(log'[t][n], i) /\ log'[t][n].re = s}
  BY DEF Counted, Reply
<1>3. Counted(i, t, s)' = Counted(i, t, s)
  BY <1>1, <1>2
<1> QED
  BY <1>3, AnswersCount

(* The first reply counts.                                                 *)
LEMMA AnswerCounts ==
  ASSUME TypeInv, ChainGrows, NEW i \in Instances, NEW t \in Topics, NEW s \in Serials,
         \A n \in 1 .. Len(log[t]) : Reply(log[t][n], i) => log[t][n].re # s,
         NEW a, a = Len(log[t]) + 1, a \in 1 .. Len(log'[t]),
         Reply(log'[t][a], i), log'[t][a].re = s,
         \A n \in Len(log[t]) + 1 .. Len(log'[t]) : Reply(log'[t][n], i) => n = a
  PROVE  Answers(i, t, s) = 0 /\ Answers(i, t, s)' = 1
<1>1. /\ \A n \in 1 .. Len(log[t]) : n \in 1 .. Len(log'[t]) /\ log'[t][n] = log[t][n]
      /\ \A n \in 1 .. Len(log'[t]) :
           n \in 1 .. Len(log[t]) \/ n \in Len(log[t]) + 1 .. Len(log'[t])
  BY GrownLog
<1>2. /\ Counted(i, t, s) =
           {n \in 1 .. Len(log[t]) : Reply(log[t][n], i) /\ log[t][n].re = s}
      /\ Counted(i, t, s)' =
           {n \in 1 .. Len(log'[t]) : Reply(log'[t][n], i) /\ log'[t][n].re = s}
  BY DEF Counted, Reply
<1>3. Counted(i, t, s) = {}
  BY <1>2
<1>4. Counted(i, t, s)' = {a}
  <2>1. a \in Counted(i, t, s)'
    BY <1>2
  <2>2. \A n \in Counted(i, t, s)' :
          n \in 1 .. Len(log'[t]) /\ Reply(log'[t][n], i) /\ log'[t][n].re = s
    BY <1>2
  <2>3. \A n \in Counted(i, t, s)' : n \notin 1 .. Len(log[t])
    BY <1>1, <2>2 DEF Reply
  <2>4. \A n \in Counted(i, t, s)' : n = a
    BY <1>1, <2>2, <2>3
  <2> QED
    BY <2>1, <2>4
<1>5. Cardinality({}) = 0 /\ Cardinality({a}) = 1
  BY FS_EmptySet, FS_Singleton
<1>6. /\ Answers(i, t, s) = Cardinality(Counted(i, t, s))
      /\ Answers(i, t, s)' = Cardinality(Counted(i, t, s)')
  BY AnswersCount
<1> QED
  BY ONLY <1>3, <1>4, <1>5, <1>6

LEMMA GivenSame ==
  ASSUME TypeInv, ChainGrows, \A i \in Instances, t \in Topics : NoReply(i, t)
  PROVE  GivenAnswers' = GivenAnswers
<1>1. ASSUME NEW i \in Instances, NEW p \in AllPrompts
      PROVE  Answers(i, p[1], p[2])' = Answers(i, p[1], p[2])
  <2>1. PICK t \in Topics, s \in Serials : p = <<t, s>>
    BY DEF AllPrompts
  <2>2. p[1] = t /\ p[2] = s
    BY <2>1
  <2>3. Answers(i, t, s)' = Answers(i, t, s)
    BY AnswersSame DEF NoReply
  <2> QED
    BY <2>2, <2>3 DEF Answers
<1>2. /\ GivenAnswers = [i \in Instances |-> [p \in AllPrompts |-> Answers(i, p[1], p[2])]]
      /\ GivenAnswers' = [i \in Instances |-> [p \in AllPrompts |-> Answers(i, p[1], p[2])']]
  BY DEF GivenAnswers, Answers
<1> QED
  BY <1>1, <1>2

(* A prompt arrives.                                                       *)
LEMMA ServicePosts ==
  ASSUME TypeInv, ChainGrows, NEW t \in Topics, Prompts(t)
  PROVE  \E q \in AllPrompts : /\ q \notin PostedPrompts
                               /\ PostedPrompts' = PostedPrompts \cup {q}
                               /\ GivenAnswers' = GivenAnswers
<1>1. PICK m \in Messages : Appended(t, m) /\ m.kind = "prompt" /\ Len(log[t]) < MaxMessages
  BY DEF Prompts
<1>2. PICK a : a = Len(log[t]) + 1
  OBVIOUS
<1>3. Len(log[t]) \in Nat /\ Topics \subseteq All
  BY MemoryOf, Lens
<1>4. Len(log'[t]) = a /\ log'[t][a] = m /\ \A u \in Topics : u # t => log'[u] = log[u]
  BY <1>1, <1>2, <1>3 DEF Appended
<1>5. a \in Serials /\ ~(a <= Len(log[t]))
  BY <1>1, <1>2, <1>3, MonitorAssumption DEF Serials
<1>6. Len(log[t]) + 1 .. Len(log'[t]) = {a}
  BY <1>2, <1>3, <1>4
<1>7. \A u \in Topics : u # t => Len(log[u]) + 1 .. Len(log'[u]) = {}
  <2>1. \A u \in Topics : Len(log[u]) \in Nat
    BY MemoryOf, Lens
  <2> QED
    BY <1>4, <2>1
<1>8. \A i \in Instances, u \in Topics : NoReply(i, u)
  <2>1. ASSUME NEW i \in Instances, NEW u \in Topics, u # t
        PROVE  NoReply(i, u)
    BY <1>7, <2>1 DEF NoReply
  <2>2. ASSUME NEW i \in Instances
        PROVE  NoReply(i, t)
    BY <1>1, <1>4, <1>6 DEF NoReply, Reply
  <2> QED
    BY <2>1, <2>2
<1>9. PICK q : q = <<t, a>>
  OBVIOUS
<1>10. q \in AllPrompts /\ q[1] = t /\ q[2] = a
  BY <1>5, <1>9 DEF AllPrompts
<1>11. q \notin PostedPrompts
  BY <1>5, <1>10 DEF PostedPrompts
<1>12. PostedPrompts' = PostedPrompts \cup {q}
  <2>1. ASSUME NEW p \in AllPrompts
        PROVE  p \in PostedPrompts' <=> p \in PostedPrompts \/ p = q
    <3>1. PICK u \in Topics, s \in Serials : p = <<u, s>>
      BY DEF AllPrompts
    <3>2. p[1] = u /\ p[2] = s
      BY <3>1
    <3>3. p \in PostedPrompts' <=>
            \/ p \in PostedPrompts
            \/ s \in Len(log[u]) + 1 .. Len(log'[u]) /\ log'[u][s].kind = "prompt"
      BY <3>2, PromptPosted
    <3>4. CASE u # t
      BY <1>7, <1>9, <3>1, <3>3, <3>4
    <3>5. CASE u = t
      BY <1>1, <1>4, <1>6, <1>9, <3>1, <3>3, <3>5
    <3> QED
      BY <3>4, <3>5
  <2>2. PostedPrompts \subseteq AllPrompts /\ PostedPrompts' \subseteq AllPrompts
    BY DEF PostedPrompts, AllPrompts
  <2> QED
    BY <1>10, <2>1, <2>2
<1> QED
  BY <1>8, <1>10, <1>11, <1>12, GivenSame

(* A poll responds: at most one reply, to the prompt it has been at.       *)
LEMMA ServiceAnswers ==
  ASSUME AnswersInv, ChainGrows,
         NEW i \in Instances, NEW t \in Topics, NEW k \in Slots, Responds(i, t, k)
  PROVE  /\ PostedPrompts' = PostedPrompts
         /\ \/ GivenAnswers' = GivenAnswers
            \/ \E q \in AllPrompts :
                 /\ q \in PostedPrompts
                 /\ GivenAnswers[i][q] = 0 /\ GivenAnswers'[i][q] = 1
                 /\ GivenAnswers' = [GivenAnswers EXCEPT ![i][q] = 1]
<1>0. TypeInv /\ LogInv /\ ReplyInv(i, t)
  BY DEF AnswersInv, OrderInv
<1>1. PICK x : x = polls[i][t][k].cur
  OBVIOUS
<1>2. x \in Nat /\ x \in 1 .. Len(log[t]) /\ log[t][x].kind = "prompt" /\ Responded(i, t, x)
  BY <1>0, <1>1, AnswersWho DEF Responds
<1>3. /\ \A u \in Topics : Len(log[u]) \in Nat /\ u \in All
      /\ Len(log'[t]) \in Nat
  BY <1>0, MemoryOf, Lens, GrownLog
<1>4. \A u \in Topics : u # t => Len(log[u]) + 1 .. Len(log'[u]) = {}
  BY <1>2, <1>3 DEF Responded
<1>5. \A n \in Len(log[t]) + 1 .. Len(log'[t]) :
        /\ log'[t][n].kind \in {"reply", "apology"}
        /\ log'[t][n].from = i /\ log'[t][n].re = x
        /\ log'[t][n].kind = "reply" => n = Len(log[t]) + 1
  BY <1>0, <1>2, AddedSays
<1>6. PostedPrompts' = PostedPrompts
  <2>1. \A u \in Topics : \A n \in Len(log[u]) + 1 .. Len(log'[u]) :
          log'[u][n].kind # "prompt"
    BY <1>4, <1>5
  <2> QED
    BY <1>0, <2>1, PostedSame
<1>7. CASE \A n \in Len(log[t]) + 1 .. Len(log'[t]) : log'[t][n].kind # "reply"
  <2>1. \A j \in Instances, u \in Topics : NoReply(j, u)
    BY <1>4, <1>7 DEF NoReply, Reply
  <2> QED
    BY <1>0, <1>6, <2>1, GivenSame
<1>8. ASSUME NEW a \in Len(log[t]) + 1 .. Len(log'[t]), log'[t][a].kind = "reply"
      PROVE  \E q \in AllPrompts :
               /\ q \in PostedPrompts
               /\ GivenAnswers[i][q] = 0 /\ GivenAnswers'[i][q] = 1
               /\ GivenAnswers' = [GivenAnswers EXCEPT ![i][q] = 1]
  <2>1. a = Len(log[t]) + 1 /\ Reply(log'[t][a], i) /\ log'[t][a].re = x
    BY <1>5, <1>8 DEF Reply
  <2>2. a \in 1 .. Len(log'[t])
    BY <1>3, <1>8
  <2>3. x \in Serials
    <3>1. x <= MaxMessages
      BY <1>0, <1>2 DEF LogInv
    <3> QED
      BY <1>2, <1>3, <3>1, MonitorAssumption DEF Serials
  <2>4. Answers(i, t, x) = 0 /\ Answers(i, t, x)' = 1
    <3>1. \A n \in 1 .. Len(log[t]) : Reply(log[t][n], i) => log[t][n].re # x
      BY <1>0, <1>1, NoReplyYet
    <3>2. \A n \in Len(log[t]) + 1 .. Len(log'[t]) : Reply(log'[t][n], i) => n = a
      BY <1>5, <2>1 DEF Reply
    <3> QED
      BY <1>0, <2>1, <2>2, <2>3, <3>1, <3>2, AnswerCounts
  <2>5. ASSUME NEW j \in Instances, NEW u \in Topics, NEW s \in Serials,
               ~(j = i /\ u = t /\ s = x)
        PROVE  Answers(j, u, s)' = Answers(j, u, s)
    <3>1. \A n \in Len(log[u]) + 1 .. Len(log'[u]) :
            ~(Reply(log'[u][n], j) /\ log'[u][n].re = s)
      BY <1>4, <1>5, <2>5 DEF Reply
    <3> QED
      BY <1>0, <3>1, AnswersSame
  <2>6. PICK q : q = <<t, x>>
    OBVIOUS
  <2>7. q \in AllPrompts /\ q[1] = t /\ q[2] = x
    BY <2>3, <2>6 DEF AllPrompts
  <2>8. q \in PostedPrompts
    BY <1>2, <1>3, <2>7 DEF PostedPrompts
  <2>9. /\ GivenAnswers = [j \in Instances |-> [p \in AllPrompts |-> Answers(j, p[1], p[2])]]
        /\ GivenAnswers' = [j \in Instances |-> [p \in AllPrompts |-> Answers(j, p[1], p[2])']]
    BY DEF GivenAnswers, Answers
  <2>10. ASSUME NEW j \in Instances, NEW p \in AllPrompts
         PROVE  /\ j = i /\ p = q => GivenAnswers[j][p] = 0 /\ GivenAnswers'[j][p] = 1
                /\ ~(j = i /\ p = q) => GivenAnswers'[j][p] = GivenAnswers[j][p]
    <3>1. PICK u \in Topics, s \in Serials : p = <<u, s>>
      BY DEF AllPrompts
    <3>2. p[1] = u /\ p[2] = s /\ (p = q <=> u = t /\ s = x)
      BY <2>6, <3>1
    <3>3. GivenAnswers[j][p] = Answers(j, u, s) /\ GivenAnswers'[j][p] = Answers(j, u, s)'
      BY <3>2 DEF GivenAnswers, Answers
    <3>4. CASE j = i /\ u = t /\ s = x
      <4>1. Answers(j, u, s) = 0 /\ Answers(j, u, s)' = 1
        BY <2>4, <3>4 DEF Answers
      <4> QED
        BY <3>2, <3>3, <3>4, <4>1
    <3>5. CASE ~(j = i /\ u = t /\ s = x)
      <4>1. Answers(j, u, s)' = Answers(j, u, s)
        BY <2>5, <3>5
      <4> QED
        BY <3>2, <3>3, <3>5, <4>1
    <3> QED
      BY <3>4, <3>5
  <2>11. GivenAnswers' = [GivenAnswers EXCEPT ![i][q] = 1]
    <3>1. GivenAnswers' = [j \in Instances |-> [p \in AllPrompts |-> GivenAnswers'[j][p]]]
      BY <2>9
    <3>2. [GivenAnswers EXCEPT ![i][q] = 1] =
            [j \in Instances |-> [p \in AllPrompts |->
               IF j = i /\ p = q THEN 1 ELSE GivenAnswers[j][p]]]
      BY <2>7, <2>9
    <3> QED
      BY <2>10, <3>1, <3>2
  <2> QED
    BY <2>7, <2>8, <2>10, <2>11
<1> QED
  BY <1>6, <1>7, <1>8

LEMMA ServiceInit == Init => Service!SInit
<1> SUFFICES ASSUME Init
             PROVE  Service!SInit
  OBVIOUS
<1>1. \A t \in Topics : Len(log[t]) = 0
  <2>1. \A t \in Topics : log[t] = <<>>
    BY DEF Init
  <2> QED
    BY <2>1, EmptySeq
<1>2. \A p \in AllPrompts : p[1] \in Topics /\ p[2] \in Serials
  BY DEF AllPrompts
<1>3. \A s \in Serials : ~(s <= 0)
  BY MonitorAssumption DEF Serials
<1>4. PostedPrompts = {}
  BY <1>1, <1>2, <1>3 DEF PostedPrompts
<1>5. \A i \in Instances, p \in AllPrompts : Answers(i, p[1], p[2]) = 0
  <2> SUFFICES ASSUME NEW i \in Instances, NEW p \in AllPrompts
               PROVE  Answers(i, p[1], p[2]) = 0
    OBVIOUS
  <2>1. 1 .. Len(log[p[1]]) = {}
    BY <1>1, <1>2
  <2>2. {n \in 1 .. Len(log[p[1]]) :
           LET m == log[p[1]][n] IN m.re = p[2] /\ m.from = i /\ m.kind = "reply"} = {}
    BY <2>1
  <2> QED
    BY <2>2, FS_EmptySet DEF Answers
<1>6. GivenAnswers = [i \in Instances |-> [p \in AllPrompts |-> 0]]
  BY <1>5 DEF GivenAnswers
<1> QED
  BY <1>4, <1>6 DEF Service!SInit, GivenAnswers, PostedPrompts, AllPrompts

LEMMA ServiceNext ==
  ASSUME OnePoll, AnswersInv, [Next]_vars
  PROVE  [Service!SNext]_(Service!svars)
<1>0. TypeInv /\ ChainGrows /\ Step
  BY Steps DEF AnswersInv, OrderInv
<1>1. CASE NoAnswers
  <2>1. PostedPrompts' = PostedPrompts
    BY <1>0, <1>1, PostedSame DEF NoAnswers
  <2>2. GivenAnswers' = GivenAnswers
    <3>1. \A i \in Instances, t \in Topics : NoReply(i, t)
      BY <1>1 DEF NoAnswers, NoReply, Reply
    <3> QED
      BY <1>0, <3>1, GivenSame
  <2> QED
    BY <2>1, <2>2 DEF Service!svars, GivenAnswers, PostedPrompts, AllPrompts
<1>2. ASSUME NEW t \in Topics, Prompts(t)
      PROVE  Service!SNext
  <2>1. PICK q \in AllPrompts : /\ q \notin PostedPrompts
                                /\ PostedPrompts' = PostedPrompts \cup {q}
                                /\ GivenAnswers' = GivenAnswers
    BY <1>0, <1>2, ServicePosts
  <2>2. Service!Post(q)
    BY <2>1 DEF Service!Post, GivenAnswers, PostedPrompts, AllPrompts
  <2> QED
    BY <2>2 DEF Service!SNext, AllPrompts
<1>3. ASSUME NEW i \in Instances, NEW t \in Topics, NEW k \in Slots, Responds(i, t, k)
      PROVE  [Service!SNext]_(Service!svars)
  <2>1. PostedPrompts' = PostedPrompts
    BY <1>0, <1>3, ServiceAnswers
  <2>2. CASE GivenAnswers' = GivenAnswers
    BY <2>1, <2>2 DEF Service!svars, GivenAnswers, PostedPrompts, AllPrompts
  <2>3. ASSUME NEW q \in AllPrompts, q \in PostedPrompts,
               GivenAnswers[i][q] = 0, GivenAnswers'[i][q] = 1,
               GivenAnswers' = [GivenAnswers EXCEPT ![i][q] = 1]
        PROVE  Service!SNext
    <3>1. Service!Answer(i, q)
      BY <2>1, <2>3 DEF Service!Answer, GivenAnswers, PostedPrompts, AllPrompts
    <3> QED
      BY <3>1 DEF Service!SNext, AllPrompts
  <2> QED
    BY <1>0, <1>3, <2>2, <2>3, ServiceAnswers
<1> QED
  BY <1>0, <1>1, <1>2, <1>3, LogMoves

(* An instance replies to a prompt at most once, only after it was posted, *)
(* and to nothing else, as long as one poll of a topic ends before the     *)
(* next: Monitor implements PromptService.                                 *)
THEOREM MonitorAnswersPrompts ==
  ASSUME MaxPolls = 1
  PROVE  Spec => AnswersPrompts
<1>1. AnswersInv /\ [Next]_vars => [Service!SNext]_(Service!svars)
  BY OneSlot, ServiceNext
<1> QED
  BY <1>1, ServiceInit, AnswersHold, PTL DEF Spec, AnswersPrompts, Service!SSpec
=============================================================================
