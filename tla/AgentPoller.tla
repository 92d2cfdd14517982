---------------------------- MODULE AgentPoller ----------------------------
(***************************************************************************)
(* The agent process (agent-framework/routes/character-mcp-api.ts): one    *)
(* loop that refreshes the list of connections, answers the connection     *)
(* requests of the inbound topic and then the messages of every connection *)
(* topic.  The loop is sequential; an action is what it does when one of   *)
(* its awaits settles.  All it remembers dies with the process, while the  *)
(* topics stay: a new process reads them again from the first message.     *)
(*                                                                         *)
(* Topics are numbered in the order of their creation; a message is known  *)
(* by its sequence number, its index in the log.                           *)
(***************************************************************************)
EXTENDS Integers, Sequences, FiniteSets

CONSTANTS
  Procs,        \* processes ever spawned
  Kinds,        \* what users post on a connection topic
  MaxRequests,  \* bound: length of the inbound log that still takes requests
  MaxTopics,    \* bound: connection topics created
  MaxMessages,  \* bound: length of a connection log that still takes messages
  MaxSessions   \* bound: times a process starts to watch the same topic

ASSUME PollerAssumption ==
  /\ Kinds \subseteq {"prompt", "close", "other"}
  /\ MaxRequests \in Nat /\ MaxTopics \in Nat /\ MaxMessages \in Nat
  /\ MaxSessions \in Nat

VARIABLES
  inbound,    \* the inbound log
  log,        \* connection topic -> its log
  origin,     \* connection topic -> the request and the process it comes from
  announced,  \* connection topics whose connection_created was posted
  up,         \* processes that run
  spawned,    \* processes that ran or run
  pc,         \* process -> the await its loop is in
  mgr,        \* process -> topics its ConnectionsManager lists
  known,      \* process -> connections, the list as of the last refresh
  watch,      \* process -> connectionTopics
  seen,       \* process -> topic -> processedMessages of a watched topic
  inSeen,     \* process -> processedMessages of the inbound topic
  job,        \* process -> what is left of the current pass
  session,    \* history: process -> topic -> how often it was put in watch
  tried,      \* history: <<process, topic, message>> taken up
  met         \* history: pairs of processes that ran at the same time

chainVars == <<inbound, log, origin, announced>>
procVars  == <<pc, mgr, known, watch, seen, inSeen, job>>
vars == <<chainVars, procVars, up, spawned, session, tried, met>>

Topics  == 1 .. MaxTopics
Serials == 1 .. MaxMessages
NoJob   == [todo |-> {}, cur |-> 0, topic |-> 0, topics |-> {}]
Post(kind, by, re) == [kind |-> kind, by |-> by, re |-> re]

Closed == {t \in Topics : \E n \in DOMAIN log[t] : log[t][n].kind = "close"}

Init ==
  /\ inbound = <<>> /\ origin = <<>> /\ announced = {}
  /\ log = [t \in Topics |-> <<>>]
  /\ up = {} /\ spawned = {}
  /\ pc = [p \in Procs |-> "load"]
  /\ mgr = [p \in Procs |-> {}]
  /\ known = [p \in Procs |-> {}]
  /\ watch = [p \in Procs |-> {}]
  /\ seen = [p \in Procs |-> [t \in Topics |-> {}]]
  /\ inSeen = [p \in Procs |-> {}]
  /\ job = [p \in Procs |-> NoJob]
  /\ session = [p \in Procs |-> [t \in Topics |-> 0]]
  /\ tried = {} /\ met = {}
-----------------------------------------------------------------------------
(* Users, and the processes' coming and going.                             *)

SubmitRequest ==
  /\ Len(inbound) < MaxRequests
  /\ inbound' = Append(inbound, "request")
  /\ UNCHANGED <<log, origin, announced, procVars, up, spawned, session, tried, met>>

SendMessage(t, kind) ==
  /\ t \in announced
  /\ Len(log[t]) < MaxMessages
  /\ log' = [log EXCEPT ![t] = Append(@, Post(kind, "user", 0))]
  /\ UNCHANGED <<inbound, origin, announced, procVars, up, spawned, session, tried, met>>

(* Whoever spawns a process kills the one before, and does not wait until  *)
(* it is gone.                                                             *)
Spawn(p) ==
  /\ p \notin spawned
  /\ spawned' = spawned \cup {p} /\ up' = up \cup {p}
  /\ met' = met \cup ({p} \X up) \cup (up \X {p})
  /\ UNCHANGED <<chainVars, procVars, session, tried>>

(* The process is killed or crashes, and its memory is gone.               *)
Stop(p) ==
  /\ p \in up
  /\ up' = up \ {p}
  /\ pc' = [pc EXCEPT ![p] = "load"]
  /\ mgr' = [mgr EXCEPT ![p] = {}]
  /\ known' = [known EXCEPT ![p] = {}]
  /\ watch' = [watch EXCEPT ![p] = {}]
  /\ seen' = [seen EXCEPT ![p] = [t \in Topics |-> {}]]
  /\ inSeen' = [inSeen EXCEPT ![p] = {}]
  /\ job' = [job EXCEPT ![p] = NoJob]
  /\ UNCHANGED <<chainVars, spawned, session, tried, met>>
-----------------------------------------------------------------------------
(* Variant: what is there when the watch begins counts as processed.       *)
AlreadyRead(t) == DOMAIN log[t]

(* Starting to watch topics: each gets an empty set of processed messages. *)
Fresh(t) == {}
Watch(p, topics) ==
  /\ \A t \in topics : session[p][t] < MaxSessions
  /\ watch' = [watch EXCEPT ![p] = @ \cup topics]
  /\ seen' = [seen EXCEPT ![p] = [t \in Topics |->
                                   IF t \in topics THEN Fresh(t) ELSE @[t]]]
  /\ session' = [session EXCEPT ![p] = [t \in Topics |->
                                   IF t \in topics THEN @[t] + 1 ELSE @[t]]]

(* What fetchConnectionData finds: the announced topics; it may or may not *)
(* have noticed that one was closed.                                       *)
Listings == {announced \ hidden : hidden \in SUBSET (Closed \cap announced)}

Load(p, listing) ==
  /\ p \in up /\ pc[p] = "load"
  /\ mgr' = [mgr EXCEPT ![p] = listing]
  /\ known' = [known EXCEPT ![p] = listing]
  /\ Watch(p, listing)
  /\ pc' = [pc EXCEPT ![p] = "refresh"]
  /\ UNCHANGED <<chainVars, inSeen, job, up, spawned, tried, met>>

(* The top of the loop.  When the call fails the loop sleeps and is here   *)
(* again.                                                                  *)
Refresh(p, listing) ==
  /\ p \in up /\ pc[p] = "refresh"
  /\ mgr' = [mgr EXCEPT ![p] = listing]
  /\ known' = [known EXCEPT ![p] = listing]
  /\ Watch(p, listing \ watch[p])
  /\ pc' = [pc EXCEPT ![p] = "inbound"]
  /\ UNCHANGED <<chainVars, inSeen, job, up, spawned, tried, met>>

(* A pass over the connection topics begins.  A topic that the refresh did *)
(* not list, such as one made in this very pass, is dropped unread.        *)
BeginTopics(p, watching) ==
  LET topics == watching \cap known[p]
  IN /\ watch' = [watch EXCEPT ![p] = topics]
     /\ seen' = [seen EXCEPT ![p] = [t \in Topics |->
                                      IF t \in topics THEN @[t] ELSE {}]]
     /\ job' = [job EXCEPT ![p] = [NoJob EXCEPT !.topics = topics]]
     /\ pc' = [pc EXCEPT ![p] = IF topics = {} THEN "refresh" ELSE "topics"]

(* Variant: requests handled without a look at the connections there are.   *)
AnyRequest(p, s) == inbound[s] = "request"

(* An inbound message that is handled: a request, not this agent's own     *)
(* announcement, for which the manager lists no connection.                *)
Unanswered(p, s) ==
  /\ inbound[s] = "request"
  /\ \A t \in mgr[p] : origin[t].request # s

(* The loop goes on with the inbound messages todo, and stops at the first *)
(* request it has to handle; a message counts as processed from then on.   *)
ResumeInbound(p, todo, watching) ==
  LET work == {s \in todo : Unanswered(p, s)}
      s    == CHOOSE n \in work : \A m \in work : n <= m
  IN  IF work = {}
      THEN /\ inSeen' = [inSeen EXCEPT ![p] = @ \cup todo]
           /\ BeginTopics(p, watching)
      ELSE /\ inSeen' = [inSeen EXCEPT ![p] = @ \cup {n \in todo : n <= s}]
           /\ job' = [job EXCEPT ![p] =
                        [NoJob EXCEPT !.cur = s, !.todo = {n \in todo : n > s}]]
           /\ pc' = [pc EXCEPT ![p] = "create"]
           /\ watch' = [watch EXCEPT ![p] = watching]
           /\ UNCHANGED seen

ReadInbound(p) ==
  /\ p \in up /\ pc[p] = "inbound"
  /\ ResumeInbound(p, (1 .. Len(inbound)) \ inSeen[p], watch[p])
  /\ UNCHANGED <<chainVars, mgr, known, up, spawned, session, tried, met>>

ReadInboundFails(p) ==
  /\ p \in up /\ pc[p] = "inbound"
  /\ pc' = [pc EXCEPT ![p] = "refresh"]
  /\ UNCHANGED <<chainVars, mgr, known, watch, seen, inSeen, job, up, spawned,
                 session, tried, met>>
-----------------------------------------------------------------------------
(* handleConnectionRequest.  An error at any point of it is logged, and    *)
(* the request is not taken up again by this process.                      *)

NewTopic == Len(origin) + 1
MakeTopic(p) ==
  /\ NewTopic \in Topics
  /\ origin' = Append(origin, [request |-> job[p].cur, by |-> p])
Announce(t) ==
  /\ announced' = announced \cup {t}
  /\ inbound' = Append(inbound, "own")

Create(p) ==
  /\ p \in up /\ pc[p] = "create"
  /\ MakeTopic(p) /\ Announce(NewTopic)
  /\ job' = [job EXCEPT ![p].topic = NewTopic]
  /\ pc' = [pc EXCEPT ![p] = "remember"]
  /\ UNCHANGED <<log, mgr, known, watch, seen, inSeen, up, spawned, session, tried, met>>

(* The client fails before it made a topic, after, or after announcing it. *)
CreateFails(p, made, told) ==
  /\ p \in up /\ pc[p] = "create"
  /\ told => made
  /\ IF made THEN MakeTopic(p) ELSE UNCHANGED origin
  /\ IF told THEN Announce(NewTopic) ELSE UNCHANGED <<announced, inbound>>
  /\ ResumeInbound(p, job[p].todo, watch[p])
  /\ UNCHANGED <<log, mgr, known, up, spawned, session, tried, met>>

Remember(p, listing) ==
  /\ p \in up /\ pc[p] = "remember"
  /\ mgr' = [mgr EXCEPT ![p] = listing]
  /\ pc' = [pc EXCEPT ![p] = "welcome"]
  /\ UNCHANGED <<chainVars, known, watch, seen, inSeen, job, up, spawned, session,
                 tried, met>>

RememberFails(p) ==
  /\ p \in up /\ pc[p] = "remember"
  /\ ResumeInbound(p, job[p].todo, watch[p])
  /\ UNCHANGED <<chainVars, mgr, known, up, spawned, session, tried, met>>

(* A request whose welcome went well has its topic watched; since the list *)
(* of this pass lacks it, it is dropped again before the pass reads it, and *)
(* the next refresh brings it back.                                        *)
Welcome(p) ==
  /\ p \in up /\ pc[p] = "welcome"
  /\ log' = [log EXCEPT ![job[p].topic] = Append(@, Post("own", p, 0))]
  /\ ResumeInbound(p, job[p].todo, watch[p] \cup {job[p].topic})
  /\ UNCHANGED <<inbound, origin, announced, mgr, known, up, spawned, session,
                 tried, met>>

WelcomeFails(p, landed) ==
  /\ p \in up /\ pc[p] = "welcome"
  /\ log' = IF landed THEN [log EXCEPT ![job[p].topic] = Append(@, Post("own", p, 0))]
                      ELSE log
  /\ ResumeInbound(p, job[p].todo, watch[p])
  /\ UNCHANGED <<inbound, origin, announced, mgr, known, up, spawned, session,
                 tried, met>>
-----------------------------------------------------------------------------
(* The pass over the connection topics.                                    *)

(* Done with topic t.                                                      *)
NextTopic(p, t) ==
  LET rest == job[p].topics \ {t}
  IN /\ job' = [job EXCEPT ![p] = [NoJob EXCEPT !.topics = rest]]
     /\ pc' = [pc EXCEPT ![p] = IF rest = {} THEN "refresh" ELSE "topics"]

(* Variant: the processed messages outlive the watch.                      *)
DropWatch(p, t) ==
  /\ known' = [known EXCEPT ![p] = @ \ {t}]
  /\ watch' = [watch EXCEPT ![p] = @ \ {t}]
  /\ UNCHANGED seen

Drop(p, t) ==
  /\ known' = [known EXCEPT ![p] = @ \ {t}]
  /\ watch' = [watch EXCEPT ![p] = @ \ {t}]
  /\ seen' = [seen EXCEPT ![p][t] = {}]

(* A message of topic t that is acted on; the agent's own are skipped.     *)
Acted(t, s) == log[t][s].kind \in {"prompt", "close"}

(* The loop goes on with the messages todo of topic t: a prompt is         *)
(* answered, and a close ends the pass over the topic and its watch.       *)
ResumeTopic(p, t, todo) ==
  LET work == {s \in todo : Acted(t, s)}
      s    == CHOOSE n \in work : \A m \in work : n <= m
  IN  \/ /\ work = {}
         /\ seen' = [seen EXCEPT ![p][t] = @ \cup todo]
         /\ NextTopic(p, t)
         /\ UNCHANGED <<known, watch, tried>>
      \/ /\ work # {} /\ log[t][s].kind = "close"
         /\ Drop(p, t)
         /\ NextTopic(p, t)
         /\ UNCHANGED tried
      \/ /\ work # {} /\ log[t][s].kind = "prompt"
         /\ seen' = [seen EXCEPT ![p][t] = @ \cup {n \in todo : n <= s}]
         /\ job' = [job EXCEPT ![p].topic = t, ![p].cur = s,
                               ![p].todo = {n \in todo : n > s}]
         /\ pc' = [pc EXCEPT ![p] = "answer"]
         /\ tried' = tried \cup {<<p, t, s>>}
         /\ UNCHANGED <<known, watch>>

(* Variant: messages read again and again.                                 *)
EveryMessage(p, t) == DOMAIN log[t]

Unread(p, t) == DOMAIN log[t] \ seen[p][t]

ReadTopic(p, t) ==
  /\ p \in up /\ pc[p] = "topics" /\ t \in job[p].topics
  /\ ResumeTopic(p, t, Unread(p, t))
  /\ UNCHANGED <<chainVars, mgr, inSeen, up, spawned, session, met>>

(* The read fails; when the network said that there is no such topic, it   *)
(* is no longer watched.                                                   *)
ReadTopicFails(p, t, invalid) ==
  /\ p \in up /\ pc[p] = "topics" /\ t \in job[p].topics
  /\ IF invalid THEN session[p][t] < MaxSessions /\ Drop(p, t)
                ELSE UNCHANGED <<known, watch, seen>>
  /\ NextTopic(p, t)
  /\ UNCHANGED <<chainVars, mgr, inSeen, up, spawned, session, tried, met>>

(* handleStandardMessage: a failure to generate or to send the response is *)
(* logged, whether or not the response landed.                             *)
Answer(p, landed) ==
  /\ p \in up /\ pc[p] = "answer"
  /\ LET t == job[p].topic
     IN /\ log' = IF landed
                  THEN [log EXCEPT ![t] = Append(@,
                          Post("reply", <<p, session[p][t]>>, job[p].cur))]
                  ELSE log
        /\ ResumeTopic(p, t, job[p].todo)
  /\ UNCHANGED <<inbound, origin, announced, mgr, inSeen, up, spawned, session, met>>
-----------------------------------------------------------------------------
Loop(p) ==
  \/ \E l \in Listings : Load(p, l) \/ Refresh(p, l) \/ Remember(p, l)
  \/ ReadInbound(p) \/ ReadInboundFails(p)
  \/ Create(p) \/ \E made, told \in BOOLEAN : CreateFails(p, made, told)
  \/ RememberFails(p)
  \/ Welcome(p) \/ \E landed \in BOOLEAN : WelcomeFails(p, landed)
  \/ \E t \in Topics : \/ ReadTopic(p, t)
                       \/ \E invalid \in BOOLEAN : ReadTopicFails(p, t, invalid)
  \/ \E landed \in BOOLEAN : Answer(p, landed)

Next ==
  \/ SubmitRequest
  \/ \E t \in Topics, kind \in Kinds : SendMessage(t, kind)
  \/ \E p \in Procs : Spawn(p) \/ Stop(p) \/ Loop(p)

Spec == Init /\ [][Next]_vars

(* A running process gets its awaits settled, and its reads do not fail    *)
(* for ever.                                                               *)
Fairness ==
  \A p \in Procs :
    /\ WF_vars(Loop(p))
    /\ SF_vars(ReadInbound(p))
    /\ \A t \in Topics : SF_vars(ReadTopic(p, t))

FairSpec == Spec /\ Fairness
-----------------------------------------------------------------------------
(* Types, and that a process forgets a topic and what it read there         *)
(* together: outside watch no topic has processed messages.                 *)
TypeOK ==
  /\ inbound \in Seq({"request", "own"})
  /\ DOMAIN log = Topics
  /\ origin \in Seq([request : Nat \ {0}, by : Procs])
  /\ announced \subseteq 1 .. Len(origin)
  /\ up \subseteq spawned /\ spawned \subseteq Procs
  /\ pc \in [Procs -> {"load", "refresh", "inbound", "create", "remember",
                       "welcome", "topics", "answer"}]
  /\ mgr \in [Procs -> SUBSET announced] /\ known \in [Procs -> SUBSET announced]
  /\ watch \in [Procs -> SUBSET Topics]
  /\ session \in [Procs -> [Topics -> 0 .. MaxSessions]]
  /\ \A p \in Procs :
       /\ inSeen[p] \subseteq DOMAIN inbound
       /\ \A t \in Topics : /\ seen[p][t] \subseteq DOMAIN log[t]
                            /\ t \notin watch[p] => seen[p][t] = {}
       /\ job[p].topics \subseteq watch[p]
       /\ pc[p] = "answer" => /\ job[p].topic \in job[p].topics
                              /\ job[p].cur \in seen[p][job[p].topic]

(* A request gets one announced topic, through every crash and restart:     *)
(* two of them come from two processes that ran at the same time, or the    *)
(* connection was closed in between.                                        *)
OneTopicPerRequest ==
  \A t, u \in announced :
    /\ t # u /\ origin[t].request = origin[u].request
    => \/ <<origin[t].by, origin[u].by>> \in met
       \/ t \in Closed \/ u \in Closed

(* Each time it watches a topic, a process answers a prompt there at most   *)
(* once, only after it was posted, and never one of the agent's messages.   *)
Answers(p, n, t, s) ==
  Cardinality({m \in DOMAIN log[t] : log[t][m] = Post("reply", <<p, n>>, s)})
Service == INSTANCE PromptService WITH
  Servers <- Procs \X (1 .. MaxSessions),
  Prompts <- Topics \X Serials,
  posted  <- {q \in Topics \X Serials :
                q[2] \in DOMAIN log[q[1]] /\ log[q[1]][q[2]].kind = "prompt"},
  answers <- [w \in Procs \X (1 .. MaxSessions) |->
                [q \in Topics \X Serials |-> Answers(w[1], w[2], q[1], q[2])]]
AnswersPrompts == Service!SSpec

(* A process takes up every prompt of an announced topic that is not        *)
(* closed, those posted before it started included, unless it stops.        *)
PromptsTakenUp ==
  \A p \in Procs, t \in Topics, s \in Serials :
    (p \in up /\ s \in DOMAIN log[t] /\ log[t][s].kind = "prompt")
    ~> (<<p, t, s>> \in tried \/ t \in Closed \/ p \notin up)
=============================================================================
