------------------------------ MODULE Monitor ------------------------------
(***************************************************************************)
(* MonitorService (agent-framework/src/services/monitorService.ts) and the *)
(* controller handlers that create one.  An instance polls an agent's      *)
(* inbound topic for connection requests and every connection topic for    *)
(* prompts, each topic by a setInterval callback of its own.  A callback   *)
(* that is still waiting when the interval elapses is overtaken by the     *)
(* next one, so several polls of one topic may be under way.               *)
(*                                                                         *)
(* Node runs one callback at a time and switches only where one awaits the *)
(* network: an action is the code from one such await to the next.  Topics *)
(* are numbered; 0 is the inbound topic, t > 0 the t-th connection topic.  *)
(* A message is known by its sequence number, its index in the log.        *)
(***************************************************************************)
EXTENDS Integers, Sequences, FiniteSets

CONSTANTS
  Users,        \* accounts that connect to the agent
  Kinds,        \* what users post on a connection topic
  Stamps,       \* timestamps requests carry; 0 stands for none
  Instances,    \* MonitorService objects ever created
  Earlier,      \* connections that an earlier process left in the agent's file
  Records,      \* what may be the matter with the agent's file
  MaxPolls,     \* bound: polls of one topic under way in one instance
  MaxRequests,  \* bound: length of the inbound log that still takes requests
  MaxTopics,    \* bound: connection topics created
  MaxMessages,  \* bound: length of a connection log that still takes prompts
  MaxLag,       \* bound: messages that a read may fail to show
  MaxTime       \* bound: the last millisecond

ASSUME MonitorAssumption ==
  /\ Stamps \subseteq Nat /\ Kinds \subseteq {"prompt", "other"}
  /\ Earlier \in 0 .. MaxTopics
  /\ MaxPolls \in Nat \ {0} /\ MaxRequests \in Nat
  /\ MaxTopics \in Nat /\ MaxMessages \in Nat /\ MaxLag \in Nat
  /\ MaxTime \in Nat \ {0} /\ Records \subseteq {"good", "bad", "replaced"}
  /\ Users \cap Instances = {}

VARIABLES
  log,       \* topic -> sequence of messages, kept by the Hedera network
  origin,    \* connection topic -> the request and the instance it comes from
  visible,   \* connection topics announced on the inbound or outbound topic
  clock,     \* Date.now(), in milliseconds; never set back
  saved,     \* connections recorded in the agent's file
  record,    \* the rest of the file: "good", "bad" if its key does not parse
             \* or is missing, "replaced" if it has another inbound topic
  status,    \* instance -> "new", "up" or "dead"
  queue,     \* instance -> topics its creator has still to start
  last,      \* instance -> topic -> lastProcessedMessage, Off if not polled
  handled,   \* instance -> processedConnectionRequests
  lastTime,  \* instance -> lastConnectionRequestTime of the inbound topic
  polls,     \* instance -> topic -> slot -> a poll callback
  start,     \* history: instance -> topic -> last as it was when polling began
  begun      \* history: instance -> topic -> messages whose processing began

chainVars == <<log, origin, visible>>
monVars   == <<last, handled, lastTime, polls>>
histVars  == <<start, begun>>
envVars   == <<clock, saved, record>>
vars == <<chainVars, monVars, histVars, envVars, status, queue>>

Inbound == 0
Topics == 1 .. MaxTopics
Slots  == 1 .. MaxPolls
Off    == -1
Serials == 1 .. MaxMessages

(* Messages.  A request is complete if it has data, which the HCS-10        *)
(* client's own requests lack, and names its sender's account; at is when  *)
(* it was posted.  "other" stands for everything no handler acts on.       *)
Request(u, complete, stamp) ==
  [kind |-> "request", from |-> u, complete |-> complete, stamp |-> stamp,
   at |-> clock]
Post(kind, from, re) == [kind |-> kind, from |-> from, re |-> re]

Idle == [pc |-> "idle", from |-> 0, cur |-> 0, todo |-> {}, topic |-> 0]

PollNone == [t \in {Inbound} \cup Topics |-> [k \in Slots |-> Idle]]
OffAll   == [t \in {Inbound} \cup Topics |-> Off]
NoneOf   == [t \in {Inbound} \cup Topics |-> {}]

Init ==
  /\ log = [t \in {Inbound} \cup Topics |-> <<>>]
  /\ origin = [t \in 1 .. Earlier |-> [request |-> 0, by |-> "earlier"]]
  /\ visible = 1 .. Earlier /\ saved = 1 .. Earlier
  /\ clock = 1 /\ record \in Records \ {"replaced"}
  /\ status = [i \in Instances |-> "new"]
  /\ queue = [i \in Instances |-> {}]
  /\ last = [i \in Instances |-> OffAll]
  /\ handled = [i \in Instances |-> {}]
  /\ lastTime = [i \in Instances |-> 0]
  /\ polls = [i \in Instances |-> PollNone]
  /\ start = [i \in Instances |-> OffAll]
  /\ begun = [i \in Instances |-> NoneOf]
-----------------------------------------------------------------------------
(* initializeAgent has run, here or in an earlier process.                 *)
AgentExists == Earlier > 0 \/ \E i \in Instances : status[i] # "new"

(* Users.  A user posts on a topic once an announcement has shown it.      *)

SubmitRequest(u, complete, stamp) ==
  /\ AgentExists
  /\ stamp # 0 => complete
  /\ Len(log[Inbound]) < MaxRequests
  /\ log' = [log EXCEPT ![Inbound] = Append(@, Request(u, complete, stamp))]
  /\ UNCHANGED <<origin, visible, envVars, status, queue, monVars, histVars>>

SendMessage(u, t, kind) ==
  /\ t \in visible
  /\ Len(log[t]) < MaxMessages
  /\ log' = [log EXCEPT ![t] = Append(@, Post(kind, u, 0))]
  /\ UNCHANGED <<origin, visible, envVars, status, queue, monVars, histVars>>
-----------------------------------------------------------------------------
(* Time passes.  Any number of steps may be taken within a millisecond.    *)
Pass ==
  /\ clock < MaxTime
  /\ clock' = clock + 1
  /\ UNCHANGED <<chainVars, saved, record, status, queue, monVars, histVars>>
-----------------------------------------------------------------------------
(* The handlers that create an instance, and a crash of the process.       *)

(* initializeAgent creates the inbound topic, so it comes first.           *)
InitializeAgent(i) ==
  /\ ~AgentExists
  /\ status' = [status EXCEPT ![i] = "up"]
  /\ queue' = [queue EXCEPT ![i] = {Inbound}]
  /\ UNCHANGED <<chainVars, envVars, monVars, histVars>>

(* initializeAgent again, for the same character: the file is written anew, *)
(* with topics of their own that are not followed here.                    *)
Reinitialize ==
  /\ AgentExists
  /\ "replaced" \in Records /\ record # "replaced"
  /\ record' = "replaced" /\ saved' = {}
  /\ UNCHANGED <<chainVars, clock, status, queue, monVars, histVars>>

(* startAgentMonitor also resumes the connections in the agent's file.     *)
StartAgentMonitor(i) ==
  /\ status[i] = "new"
  /\ AgentExists
  /\ status' = [status EXCEPT ![i] = "up"]
  /\ queue' = [queue EXCEPT ![i] =
       saved \cup IF record = "replaced" THEN {} ELSE {Inbound}]
  /\ UNCHANGED <<chainVars, envVars, monVars, histVars>>

(* connectToAgent, once the request it waits for is confirmed, records the *)
(* connection and monitors its topic with an instance of its own.          *)
ConnectToAgent(i, t) ==
  /\ status[i] = "new"
  /\ t \in visible
  /\ saved' = saved \cup {t}
  /\ status' = [status EXCEPT ![i] = "up"]
  /\ queue' = [queue EXCEPT ![i] = {t}]
  /\ UNCHANGED <<chainVars, clock, record, monVars, histVars>>

(* What a read of topic t may return: the mirror node answers with the     *)
(* messages up to some n, and may lag behind the network or show none.     *)
Shown(t) == {n \in 0 .. Len(log[t]) : n = 0 \/ n + MaxLag >= Len(log[t])}

(* startMonitoringTopic: the first read puts the cursor behind the n        *)
(* messages it shows; when it fails the cursor starts at 0.                *)
StartMonitoring(i, t, n) ==
  /\ n \in Shown(t)
  /\ last' = [last EXCEPT ![i][t] = n]
  /\ start' = [start EXCEPT ![i][t] = n]

(* The inbound topic is started before any connection.                     *)
StartQueued(i, t, n) ==
  /\ t \in queue[i]
  /\ Inbound \in queue[i] => t = Inbound
  /\ queue' = [queue EXCEPT ![i] = @ \ {t}]
  /\ StartMonitoring(i, t, n)
  /\ UNCHANGED <<chainVars, envVars, status, handled, lastTime, polls, begun>>

Crash ==
  /\ \E i \in Instances : status[i] = "up"
  /\ LET up == {i \in Instances : status[i] = "up"}
         Reset(f, v) == [i \in Instances |-> IF i \in up THEN v ELSE f[i]]
     IN /\ status' = Reset(status, "dead")
        /\ queue' = Reset(queue, {})
        /\ last' = Reset(last, OffAll)
        /\ handled' = Reset(handled, {})
        /\ lastTime' = Reset(lastTime, 0)
        /\ polls' = Reset(polls, PollNone)
        /\ start' = Reset(start, OffAll)
        /\ begun' = Reset(begun, NoneOf)
  /\ UNCHANGED <<chainVars, envVars>>
-----------------------------------------------------------------------------
(* The poll callback.                                                      *)

(* Variants: a read that is not filtered, and one that leaves out the       *)
(* message of a connection topic next to the cursor.                       *)
AllMessages(t, from, n) == 1 .. n
OneTooFar(t, from, n) == (from + IF t = Inbound THEN 1 ELSE 2) .. n

(* Messages after `from`, of the n that the read returned; of several      *)
(* connection requests the newest alone.                                   *)
Batch(t, from, n) ==
  LET new      == (from + 1) .. n
      requests == {s \in new : log[t][s].kind = "request"}
  IN  IF t = Inbound
      THEN {s \in new : s \in requests => \A r \in requests : r <= s}
      ELSE new

(* Variant: a request that names no time counts as older than all.         *)
StampOnly(i, s) == log[Inbound][s].stamp

(* The time a request counts from: the one it names, or else the present.  *)
Time(i, s) ==
  IF log[Inbound][s].stamp = 0 THEN clock ELSE log[Inbound][s].stamp

(* Variant: no record of the requests taken up.                            *)
AnyRequest(i, s) ==
  log[Inbound][s].kind = "request" /\ log[Inbound][s].complete

(* processInboundMessage goes on to create a topic: the request is one it  *)
(* can serve, new to it and late enough, and the file that names this      *)
(* inbound topic is there with a key that can be used.                     *)
Acceptable(i, s) ==
  /\ log[Inbound][s].kind = "request" /\ log[Inbound][s].complete
  /\ record = "good"
  /\ s \notin handled[i]
  /\ Time(i, s) > lastTime[i]

(* Variant: every message of a connection topic taken for a prompt.        *)
AnyMessage(i, t, s) == IF t = Inbound THEN Acceptable(i, s) ELSE TRUE

(* Whether processing message s of topic t waits for the network at all.   *)
Processed(i, t, s) ==
  IF t = Inbound THEN Acceptable(i, s) ELSE log[t][s].kind = "prompt"

Track(i, s) ==
  /\ handled' = [handled EXCEPT ![i] = @ \cup {s}]
  /\ lastTime' = [lastTime EXCEPT ![i] = Time(i, s)]

(* Poll k goes on with the messages in todo: it moves the cursor over each *)
(* and stops at the first whose processing waits.                          *)
Resume(i, t, k, todo) ==
  LET work == {s \in todo : Processed(i, t, s)}
      s    == CHOOSE n \in work : \A m \in work : n <= m
      end  == CHOOSE n \in todo : \A m \in todo : m <= n
  IN  IF work = {}
      THEN /\ polls' = [polls EXCEPT ![i][t][k] = Idle]
           /\ last' = IF todo = {} THEN last ELSE [last EXCEPT ![i][t] = end]
           /\ UNCHANGED <<handled, lastTime, begun>>
      ELSE /\ polls' = [polls EXCEPT ![i][t][k] =
                          [Idle EXCEPT !.pc = IF t = Inbound THEN "creating"
                                                             ELSE "answering",
                                       !.cur = s,
                                       !.todo = {n \in todo : n > s}]]
           /\ last' = [last EXCEPT ![i][t] = s]
           /\ begun' = [begun EXCEPT ![i][t] = @ \cup {s}]
           /\ IF t = Inbound THEN Track(i, s) ELSE UNCHANGED <<handled, lastTime>>

(* The interval elapses.                                                   *)
Tick(i, t, k) ==
  /\ last[i][t] # Off
  /\ polls[i][t][k].pc = "idle"
  /\ \A j \in Slots : j < k => polls[i][t][j].pc # "idle"
  /\ polls' = [polls EXCEPT ![i][t][k] =
                 [Idle EXCEPT !.pc = "fetching", !.from = last[i][t]]]
  /\ UNCHANGED <<chainVars, envVars, status, queue, last, handled, lastTime, histVars>>

(* A read that shows less than the cursor does what one up to it does.     *)
Fetched(i, t, k, n) ==
  /\ polls[i][t][k].pc = "fetching"
  /\ n \in Shown(t) /\ n >= polls[i][t][k].from
  /\ Resume(i, t, k, Batch(t, polls[i][t][k].from, n))
  /\ UNCHANGED <<chainVars, envVars, status, queue, start>>

FetchFails(i, t, k) ==
  /\ polls[i][t][k].pc = "fetching"
  /\ polls' = [polls EXCEPT ![i][t][k] = Idle]
  /\ UNCHANGED <<chainVars, envVars, status, queue, last, handled, lastTime, histVars>>

(* processConnectionMessage.  A send that reached the network and then     *)
(* failed is followed by the apology, and so is a failed generation; the   *)
(* apology may fail as well.                                               *)
Outcomes == {<<"reply">>, <<"reply", "apology">>, <<"apology">>, <<>>}

Respond(i, t, k, outcome) ==
  /\ polls[i][t][k].pc = "answering"
  /\ LET p == polls[i][t][k]
     IN /\ log' = [log EXCEPT ![t] =
                     @ \o [n \in DOMAIN outcome |-> Post(outcome[n], i, p.cur)]]
        /\ Resume(i, t, k, p.todo)
  /\ UNCHANGED <<origin, visible, envVars, status, queue, start>>
-----------------------------------------------------------------------------
(* processInboundMessage, from the creation of the topic on.  Every failure *)
(* is logged, and the poll goes on with its next message.                   *)

At(i, k, pc) == polls[i][Inbound][k].pc = pc
GoTo(i, k, pc, t) ==
  polls' = [polls EXCEPT ![i][Inbound][k].pc = pc, ![i][Inbound][k].topic = t]
GiveUp(i, k) == Resume(i, Inbound, k, polls[i][Inbound][k].todo)

NewTopic == Len(origin) + 1
MakeTopic(i, k) ==
  /\ NewTopic \in Topics
  /\ origin' = Append(origin, [request |-> polls[i][Inbound][k].cur, by |-> i])

(* The HCS-10 client creates the topic and announces it on the inbound one. *)
Announce(t) ==
  /\ visible' = visible \cup {t}
  /\ log' = [log EXCEPT ![Inbound] = Append(@, Post("other", "agent", t))]

CreateTopic(i, k) ==
  /\ At(i, k, "creating")
  /\ MakeTopic(i, k) /\ Announce(NewTopic)
  /\ GoTo(i, k, "confirming", NewTopic)
  /\ UNCHANGED <<envVars, status, queue, last, handled, lastTime, histVars>>

(* The client may have made and announced a topic before it fails.  When   *)
(* what fails is the requester's profile, the fallback makes another topic. *)
CreateFails(i, k, made, profile) ==
  /\ At(i, k, "creating")
  /\ IF made THEN MakeTopic(i, k) /\ Announce(NewTopic)
             ELSE UNCHANGED chainVars
  /\ IF profile THEN /\ GoTo(i, k, "recreating", 0)
                     /\ UNCHANGED <<last, handled, lastTime, begun>>
                ELSE GiveUp(i, k)
  /\ UNCHANGED <<envVars, status, queue, start>>

CreateDirect(i, k) ==
  /\ At(i, k, "recreating")
  /\ MakeTopic(i, k)
  /\ GoTo(i, k, "confirming", NewTopic)
  /\ UNCHANGED <<log, visible, envVars, status, queue, last, handled, lastTime, histVars>>

CreateDirectFails(i, k) ==
  /\ At(i, k, "recreating")
  /\ GiveUp(i, k)
  /\ UNCHANGED <<chainVars, envVars, status, queue, start>>

(* The confirmation goes to the outbound topic.                            *)
Confirm(i, k) ==
  /\ At(i, k, "confirming")
  /\ visible' = visible \cup {polls[i][Inbound][k].topic}
  /\ GoTo(i, k, "starting", polls[i][Inbound][k].topic)
  /\ UNCHANGED <<log, origin, envVars, status, queue, last, handled, lastTime, histVars>>

ConfirmFails(i, k) ==
  /\ At(i, k, "confirming")
  /\ GiveUp(i, k)
  /\ UNCHANGED <<chainVars, envVars, status, queue, start>>

StartConnection(i, k, n) ==
  /\ At(i, k, "starting")
  /\ StartMonitoring(i, polls[i][Inbound][k].topic, n)
  /\ GoTo(i, k, "greeting", polls[i][Inbound][k].topic)
  /\ UNCHANGED <<chainVars, envVars, status, queue, handled, lastTime, begun>>

Greet(i, k, ok) ==
  /\ At(i, k, "greeting")
  /\ log' = IF ok THEN [log EXCEPT ![polls[i][Inbound][k].topic] =
                          Append(@, Post("greeting", i, 0))]
                  ELSE log
  /\ GiveUp(i, k)
  /\ UNCHANGED <<origin, visible, envVars, status, queue, start>>
-----------------------------------------------------------------------------
InboundStep(i, k) ==
  \/ CreateTopic(i, k)
  \/ \E made, profile \in BOOLEAN : CreateFails(i, k, made, profile)
  \/ CreateDirect(i, k) \/ CreateDirectFails(i, k)
  \/ Confirm(i, k) \/ ConfirmFails(i, k)
  \/ \E n \in Shown(polls[i][Inbound][k].topic) : StartConnection(i, k, n)
  \/ \E ok \in BOOLEAN : Greet(i, k, ok)

(* What a callback in slot k does when its await settles.                  *)
Settle(i, t, k) ==
  \/ \E n \in Shown(t) : Fetched(i, t, k, n)
  \/ FetchFails(i, t, k)
  \/ t # Inbound /\ \E o \in Outcomes : Respond(i, t, k, o)
  \/ t = Inbound /\ InboundStep(i, k)

Poll(i) == \E t \in {Inbound} \cup Topics, k \in Slots :
             Tick(i, t, k) \/ Settle(i, t, k)

Next ==
  \/ \E u \in Users, d \in BOOLEAN, st \in Stamps : SubmitRequest(u, d, st)
  \/ \E u \in Users, t \in Topics, kind \in Kinds : SendMessage(u, t, kind)
  \/ \E i \in Instances :
       \/ InitializeAgent(i) \/ StartAgentMonitor(i)
       \/ \E t \in Topics : ConnectToAgent(i, t)
       \/ \E t \in {Inbound} \cup Topics : \E n \in Shown(t) : StartQueued(i, t, n)
       \/ Poll(i)
  \/ Pass \/ Reinitialize \/ Crash

Spec == Init /\ [][Next]_vars

(* The interval keeps elapsing, awaits settle one way or the other, and    *)
(* now and then a read succeeds and shows the topic as it is.              *)
Fairness ==
  \A i \in Instances, t \in {Inbound} \cup Topics :
    /\ WF_vars(\E n \in Shown(t) : StartQueued(i, t, n))
    /\ \A k \in Slots : /\ WF_vars(Tick(i, t, k) \/ Settle(i, t, k))
                        /\ SF_vars(Fetched(i, t, k, Len(log[t])))

FairSpec == Spec /\ Fairness
-----------------------------------------------------------------------------
Poller == [pc : {"idle", "fetching", "answering", "creating", "recreating",
                 "confirming", "starting", "greeting"},
           from : Nat, cur : Nat, todo : SUBSET Nat, topic : {0} \cup Topics]

(* Types, and what the program counter of a poll says: only an inbound poll *)
(* creates topics, and one that waits for nothing holds nothing.            *)
TypeOK ==
  /\ DOMAIN log = {Inbound} \cup Topics
  /\ origin \in Seq([request : Nat, by : Instances \cup {"earlier"}])
  /\ visible \subseteq 1 .. Len(origin) /\ saved \subseteq visible
  /\ status \in [Instances -> {"new", "up", "dead"}]
  /\ queue \in [Instances -> SUBSET ({Inbound} \cup Topics)]
  /\ last \in [Instances -> [{Inbound} \cup Topics -> Nat \cup {Off}]]
  /\ handled \in [Instances -> SUBSET (1 .. Len(log[Inbound]))]
  /\ lastTime \in [Instances -> Nat]
  /\ clock \in 1 .. MaxTime /\ record \in Records
  /\ polls \in [Instances -> [{Inbound} \cup Topics -> [Slots -> Poller]]]
  /\ \A i \in Instances, t \in {Inbound} \cup Topics, k \in Slots :
       LET p == polls[i][t][k]
       IN /\ p.pc = "answering" => t # Inbound /\ log[t][p.cur].kind = "prompt"
          /\ p.pc \notin {"idle", "fetching", "answering"} => t = Inbound
          /\ p.pc = "idle" => p = Idle

(* No poll, however many overlap and whatever fails, moves the cursor of a  *)
(* connection topic past a prompt whose processing has not begun.           *)
NothingSkipped ==
  \A i \in Instances, t \in Topics, s \in Serials :
    /\ last[i][t] # Off /\ start[i][t] < s /\ s <= last[i][t]
    /\ log[t][s].kind = "prompt"
    => s \in begun[i][t]

(* As long as the agent's file is good, a complete request that the inbound *)
(* cursor has passed was taken up, or the cursor has passed a later one,   *)
(* too, which was preferred, or the time it names is not later than that   *)
(* of a request taken up; one that names none gives way only to a request  *)
(* whose time is not before the millisecond in which it was posted.        *)
Since(r) == IF r.stamp = 0 THEN r.at ELSE r.stamp
RequestsAccounted ==
  \A i \in Instances, s \in 1 .. Len(log[Inbound]) :
    /\ record = "good" /\ last[i][Inbound] # Off
    /\ start[i][Inbound] < s /\ s <= last[i][Inbound]
    /\ log[Inbound][s].kind = "request" /\ log[Inbound][s].complete
    => \/ s \in begun[i][Inbound]
       \/ \E r \in (s + 1) .. last[i][Inbound] : log[Inbound][r].kind = "request"
       \/ Since(log[Inbound][s]) <= lastTime[i]

(* However polls of the inbound topic overlap, an instance serves at most   *)
(* one of the topics it made for a request, and made at most two.           *)
OneTopicPerRequest ==
  \A i \in Instances, s \in 1 .. Len(log[Inbound]) :
    LET made == {t \in 1 .. Len(origin) : origin[t] = [request |-> s, by |-> i]}
    IN /\ Cardinality(made) <= 2
       /\ Cardinality({t \in made : last[i][t] # Off}) <= 1

(* monitorService.ts:138, "Only process messages with higher sequence       *)
(* numbers": a message whose processing begins is behind the cursor of its  *)
(* topic.  So it is as long as one poll is done before the next one starts. *)
OnlyHigher ==
  [][\A i \in Instances, t \in {Inbound} \cup Topics, k \in Slots :
       LET next == polls'[i][t][k].cur
       IN next \notin {0, polls[i][t][k].cur} => next > last[i][t]]_vars

(* Every prompt posted on a topic after an instance began to poll it is     *)
(* taken up by that instance, unless the process crashes.                   *)
PromptsTakenUp ==
  \A i \in Instances, t \in Topics, s \in Serials :
    (/\ last[i][t] # Off /\ s > start[i][t]
     /\ s <= Len(log[t]) /\ log[t][s].kind = "prompt")
    ~> (s \in begun[i][t] \/ status[i] = "dead")

(* With one poll at a time, an instance answers each prompt at most once    *)
(* (an apology after a failed send not counted), and nothing but prompts.   *)
Answers(i, t, s) ==
  Cardinality({n \in 1 .. Len(log[t]) :
                 LET m == log[t][n] IN m.re = s /\ m.from = i /\ m.kind = "reply"})
Service == INSTANCE PromptService WITH
  Servers <- Instances,
  Prompts <- Topics \X Serials,
  posted  <- {p \in Topics \X Serials :
                p[2] <= Len(log[p[1]]) /\ log[p[1]][p[2]].kind = "prompt"},
  answers <- [i \in Instances |-> [p \in Topics \X Serials |-> Answers(i, p[1], p[2])]]
AnswersPrompts == Service!SSpec
=============================================================================
