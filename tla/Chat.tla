-------------------------------- MODULE Chat --------------------------------
(***************************************************************************)
(* The /chat and /destruct calls of the server                             *)
(* (agent-framework/routes/server.ts) of one account, beside the agent     *)
(* process of AgentPoller.  A call posts a prompt on the topic that        *)
(* /initialize has stored for the account and polls the topic for the      *)
(* first message behind it.                                                *)
(***************************************************************************)
EXTENDS AgentPoller

CONSTANTS
  Calls,       \* the calls of which as many may be under way at a time
  KnowsAgent   \* BOB_ACCOUNT_ID is set in the environment

ASSUME ChatAssumption == KnowsAgent \in BOOLEAN

VARIABLES
  connection,  \* connectionTopicMap: the account's topic, or 0
  calls        \* call, of either kind -> where it is, and what it sent

chatVars == <<connection, calls>>

NotCalled == [pc |-> "new", topic |-> 0, sent |-> 0, settled |-> FALSE]

ChatInit ==
  /\ Init
  /\ connection = 0
  /\ calls = [c \in Calls |-> NotCalled]
-----------------------------------------------------------------------------
(* The end of /initialize: the topic announced for its request.            *)
Connected(t) ==
  /\ t \in announced
  /\ connection' = t
  /\ UNCHANGED <<vars, calls>>

(* A call takes the account's topic, then waits for the agent's data.      *)
Begin(c) ==
  /\ calls[c].pc = "new" /\ connection # 0
  /\ calls' = [calls EXCEPT ![c].pc = "send", ![c].topic = connection]
  /\ UNCHANGED <<vars, connection>>

Prompts(t) == {m \in DOMAIN log[t] : log[t][m].kind = "prompt"}
Replied(t, m) ==
  \E n \in DOMAIN log[t] : log[t][n].kind = "reply" /\ log[t][n].re = m

(* History: the agent has greeted and has answered every earlier prompt.   *)
Settled(t) ==
  /\ \E n \in DOMAIN log[t] : log[t][n].kind = "own"
  /\ \A m \in Prompts(t) : Replied(t, m)

Send(c) ==
  /\ calls[c].pc = "send"
  /\ SendMessage(calls[c].topic, "prompt")
  /\ calls' = [calls EXCEPT ![c].pc = "wait",
                 ![c].sent = Len(log[calls[c].topic]) + 1,
                 ![c].settled = Settled(calls[c].topic)]
  /\ UNCHANGED connection

(* The send fails, although its message may have landed, or a read does.   *)
Fail(c, landed) ==
  /\ calls[c].pc \in {"send", "wait", "close"}
  /\ IF landed THEN /\ calls[c].pc # "wait"
                    /\ SendMessage(calls[c].topic, "prompt")
               ELSE UNCHANGED vars
  /\ calls' = [calls EXCEPT ![c] = NotCalled]
  /\ UNCHANGED connection

(* waitForResponse: messages behind the one sent; without BOB_ACCOUNT_ID   *)
(* every sender passes for the agent.                                      *)
FromAgent(post) == post.kind \in {"own", "reply"} \/ ~KnowsAgent
AllResponses(c) ==
  {n \in DOMAIN log[calls[c].topic] : FromAgent(log[calls[c].topic][n])}
Responses(c) ==
  {n \in DOMAIN log[calls[c].topic] : /\ n > calls[c].sent
                                      /\ FromAgent(log[calls[c].topic][n])}

Response(c) == CHOOSE n \in Responses(c) : \A m \in Responses(c) : n <= m

Respond(c) ==
  /\ calls[c].pc = "wait" /\ Responses(c) # {}
  /\ calls' = [calls EXCEPT ![c] = NotCalled]
  /\ UNCHANGED <<vars, connection>>

(* Thirty reads have shown no response; they may lag behind the topic.     *)
GiveUp(c) ==
  /\ calls[c].pc = "wait"
  /\ calls' = [calls EXCEPT ![c] = NotCalled]
  /\ UNCHANGED <<vars, connection>>

(* /destruct takes the account's topic, too, and waits for the agent's     *)
(* data.  It sends its close as the data of an ordinary message, which the *)
(* agent takes for a prompt.  When the send has returned it forgets the    *)
(* account's topic, whichever that is by then, and kills the process,      *)
(* which is a Stop once the signal has arrived.                            *)
Destruct(c) ==
  /\ calls[c].pc = "new" /\ connection # 0
  /\ calls' = [calls EXCEPT ![c].pc = "close", ![c].topic = connection]
  /\ UNCHANGED <<vars, connection>>

SendClose(c) ==
  /\ calls[c].pc = "close"
  /\ SendMessage(calls[c].topic, "prompt")
  /\ calls' = [calls EXCEPT ![c].pc = "closed"]
  /\ UNCHANGED connection

Disconnect(c) ==
  /\ calls[c].pc = "closed"
  /\ connection' = 0
  /\ calls' = [calls EXCEPT ![c] = NotCalled]
  /\ UNCHANGED vars

ChatNext ==
  \/ Next /\ UNCHANGED chatVars
  \/ \E t \in Topics : Connected(t)
  \/ \E c \in Calls :
       \/ Begin(c) \/ Send(c) \/ Respond(c) \/ GiveUp(c)
       \/ Destruct(c) \/ SendClose(c) \/ Disconnect(c)
       \/ \E landed \in BOOLEAN : Fail(c, landed)

ChatSpec == ChatInit /\ [][ChatNext]_<<vars, chatVars>>
-----------------------------------------------------------------------------
(* A call returns no old answer: when it was sent after the greeting and    *)
(* after every earlier prompt had its answer, as it is when an account      *)
(* makes one call at a time and none times out, what it returns answers     *)
(* its prompt, or one sent after it should its own answer fail.  An agent   *)
(* that watches the topic a second time answers everything again, and       *)
(* without BOB_ACCOUNT_ID any message passes for an answer.                 *)
Watches(t) == UNION {{p} \X (1 .. session[p][t]) : p \in Procs}
NoOldAnswer ==
  [][\A c \in Calls :
       LET topic    == calls[c].topic
           response == log[topic][Response(c)]
       IN  /\ Respond(c) /\ calls[c].settled /\ KnowsAgent
           /\ Cardinality(Watches(topic)) = 1
           => response.kind = "reply" /\ response.re >= calls[c].sent]_<<vars, chatVars>>
=============================================================================
