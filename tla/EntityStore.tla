----------------------------- MODULE EntityStore -----------------------------
(***************************************************************************)
(* What WritableStore promises the runner of a deployment: a store that    *)
(* answers as if every call had been carried out when it returned, and     *)
(* that commits behind the runner's back, call after call and in their     *)
(* order.  Should the database refuse a write, or the process die, exactly *)
(* the calls not committed yet are undone: none of them, and none that the *)
(* runner makes before it has been told and has opened the store again,    *)
(* ever reaches the database.                                              *)
(*                                                                         *)
(* A write says which immutable entities it takes to be new.  When one is  *)
(* there already the write is accepted, but neither it nor what comes      *)
(* after it is ever committed; a write that is right is never lost so.     *)
(*                                                                         *)
(* The contents of a store are the sequence of what its entities are after *)
(* each block; its length is the deployment's block.                       *)
(***************************************************************************)
EXTENDS Integers, Sequences

CONSTANTS Keys, Immutable, Vals, Absent

VARIABLES
  states,  \* the committed contents, then those that later commits make
  call,    \* the call the runner is waiting for, or NoCall
  reply,   \* what the last query, flush or failure returned
  broken   \* nothing new is committed any more

vars == <<states, call, reply, broken>>

NoCall == [kind |-> "none"]
NoReply == [kind |-> "none"]
Ok == [kind |-> "ok"]
Failure == [kind |-> "error"]
Answer(val) == [kind |-> "entity", val |-> val]

View == states[Len(states)]
Entities(c) == IF c = <<>> THEN [k \in Keys |-> Absent] ELSE c[Len(c)]

WriteTo(c, n, wants) ==
  [b \in 1 .. n |-> IF b <= Len(c) THEN c[b]
                    ELSE IF b < n THEN Entities(c) ELSE wants]
RevertTo(c, n) == SubSeq(c, 1, n)

Init ==
  /\ states = << <<>> >>
  /\ call = NoCall /\ reply = NoReply /\ broken = FALSE

Calls ==
       [kind : {"write"}, block : Nat, wants : [Keys -> Vals \cup {Absent}],
        new : SUBSET Immutable]
  \cup [kind : {"revert"}, block : Nat]
  \cup [kind : {"get"}, key : Keys]
  \cup [kind : {"flush"}]

Submit ==
  /\ call = NoCall /\ reply # Failure
  /\ call' \in Calls
  /\ reply' = NoReply
  /\ UNCHANGED <<states, broken>>

(* A write may be turned away before anything is done about it.            *)
Reject ==
  /\ call = NoCall /\ reply # Failure
  /\ reply' = Failure
  /\ UNCHANGED <<states, call, broken>>

Return(r) == call' = NoCall /\ reply' = r /\ UNCHANGED broken

(* A change either is committed on its own or together with the one before *)
(* it.                                                                     *)
Change(c) ==
  \/ states' = Append(states, c)
  \/ Len(states) > 1 /\ states' = [states EXCEPT ![Len(states)] = c]

AllNew == \A k \in call.new : Entities(View)[k] = Absent

Write ==
  /\ call.kind = "write" /\ ~broken
  /\ call.block > Len(View) /\ AllNew
  /\ Change(WriteTo(View, call.block, call.wants))
  /\ Return(NoReply)

(* The changes before it that it would be committed with are lost as well. *)
Doom ==
  /\ call.kind = "write" /\ ~broken /\ ~AllNew
  /\ \/ UNCHANGED states
     \/ Len(states) > 1 /\ states' = SubSeq(states, 1, Len(states) - 1)
  /\ broken' = TRUE
  /\ call' = NoCall /\ reply' = NoReply

Revert ==
  /\ call.kind = "revert" /\ ~broken
  /\ call.block < Len(View)
  /\ Change(RevertTo(View, call.block))
  /\ Return(NoReply)

Get ==
  /\ call.kind = "get" /\ ~broken
  /\ Return(Answer(Entities(View)[call.key])) \/ Return(Failure)
  /\ UNCHANGED states

Flush ==
  /\ call.kind = "flush" /\ ~broken
  /\ Len(states) = 1
  /\ Return(Ok)
  /\ UNCHANGED states

(* A broken store may accept a write or answer a query, but a flush fails. *)
Lost ==
  /\ call # NoCall /\ broken
  /\ \/ Return(Failure)
     \/ call.kind \in {"write", "revert"} /\ Return(NoReply)
     \/ call.kind = "get" /\ \E v \in Vals \cup {Absent} : Return(Answer(v))
  /\ UNCHANGED states

Commit ==
  /\ Len(states) > 1
  /\ states' = Tail(states)
  /\ UNCHANGED <<call, reply, broken>>

Fail ==
  /\ states' = <<Head(states)>> /\ broken' = TRUE
  /\ UNCHANGED <<call, reply>>

(* The runner has seen the error and has tried to open the store again.    *)
Restart ==
  /\ reply = Failure /\ reply' = NoReply
  /\ broken' \in {broken, FALSE}
  /\ UNCHANGED <<states, call>>

Crash ==
  /\ states' = <<Head(states)>> /\ broken' = FALSE
  /\ call' = NoCall /\ reply' = NoReply

Next ==
  \/ Submit \/ Reject \/ Write \/ Doom \/ Revert \/ Get \/ Flush \/ Lost
  \/ Commit \/ Fail \/ Restart \/ Crash

Spec == Init /\ [][Next]_vars
=============================================================================
