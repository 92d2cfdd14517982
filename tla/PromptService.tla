--------------------------- MODULE PromptService ---------------------------
(***************************************************************************)
(* What a user of an agent is promised, whatever process serves it: a      *)
(* server answers a prompt only once it was posted, and never a second     *)
(* time.  Monitor implements this with one server per MonitorService, and  *)
(* AgentPoller with one for each time a process watches a topic.           *)
(***************************************************************************)
EXTENDS Naturals

CONSTANTS
  Servers,  \* whoever answers
  Prompts   \* all prompts that may be posted

VARIABLES
  posted,   \* the prompts posted so far
  answers   \* server -> prompt -> answers given to it

svars == <<posted, answers>>

SInit ==
  /\ posted = {}
  /\ answers = [i \in Servers |-> [p \in Prompts |-> 0]]

Post(p) ==
  /\ p \notin posted
  /\ posted' = posted \cup {p}
  /\ UNCHANGED answers

Answer(i, p) ==
  /\ p \in posted
  /\ answers[i][p] = 0 /\ answers'[i][p] = 1
  /\ answers' = [answers EXCEPT ![i][p] = 1]
  /\ UNCHANGED posted

SNext == \E p \in Prompts : Post(p) \/ \E i \in Servers : Answer(i, p)

SSpec == SInit /\ [][SNext]_svars
=============================================================================
