------------------------------ MODULE Feed ------------------------------
(***************************************************************************)
(* What the websocket hub promises its subscribers: updates are published  *)
(* one after the other, and a subscriber gets some of those published while *)
(* it is subscribed, each once and in the order of their publication,      *)
(* nothing before it joins and nothing after it has left.  There is no     *)
(* replay, and nobody joins a second time.                                 *)
(***************************************************************************)
EXTENDS Naturals, Sequences

CONSTANT Clients

VARIABLES
    published,  \* how many updates have been published
    listening,  \* each client's subscription: "before", "during" or "after"
    inbox       \* the numbers of the updates each client was sent

feedVars == <<published, listening, inbox>>

Init ==
    /\ published = 0
    /\ listening = [c \in Clients |-> "before"]
    /\ inbox = [c \in Clients |-> <<>>]

Publish ==
    /\ published' = published + 1
    /\ \E to \in SUBSET {c \in Clients : listening[c] = "during"} :
          inbox' = [c \in Clients |->
                       IF c \in to THEN Append(inbox[c], published + 1) ELSE inbox[c]]
    /\ UNCHANGED listening

Join(c) ==
    /\ listening[c] = "before"
    /\ listening' = [listening EXCEPT ![c] = "during"]
    /\ UNCHANGED <<published, inbox>>

Leave(leavers) ==
    /\ leavers \subseteq {c \in Clients : listening[c] = "during"}
    /\ listening' = [c \in Clients |-> IF c \in leavers THEN "after" ELSE listening[c]]
    /\ UNCHANGED <<published, inbox>>

Next ==
    \/ Publish
    \/ \E c \in Clients : Join(c)
    \/ \E leavers \in SUBSET Clients : Leave(leavers)

Spec == Init /\ [][Next]_feedVars
=============================================================================
