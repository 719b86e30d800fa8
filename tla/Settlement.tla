----------------------------- MODULE Settlement -----------------------------
(***************************************************************************)
(* What the settlement of a market promises, whatever tables and requests  *)
(* carry it out.  Every decision about a market (its resolution, and each  *)
(* dispute review that overturns it) opens one settlement, and a           *)
(* settlement credits balances only while one is open and closes it.  So   *)
(* nobody is paid before a decision, and no decision is paid for twice.    *)
(* MarketLifecycle implements this specification.                          *)
(***************************************************************************)
EXTENDS Naturals

CONSTANT Markets

VARIABLES
    due,         \* the markets with a decision that has not been paid for yet
    decisions,   \* decisions[m]: how many decisions were made about m
    payouts      \* payouts[m]: how many times balances were credited for m

settlementVars == <<due, decisions, payouts>>

Init ==
    /\ due = {}
    /\ decisions = [m \in Markets |-> 0]
    /\ payouts = [m \in Markets |-> 0]

Decide(m) ==
    /\ due' = due \cup {m}
    /\ decisions' = [decisions EXCEPT ![m] = @ + 1]
    /\ UNCHANGED payouts

Settle(m) ==
    /\ m \in due
    /\ due' = due \ {m}
    /\ payouts' = [payouts EXCEPT ![m] = @ + 1]
    /\ UNCHANGED decisions

Next == \E m \in Markets : Decide(m) \/ Settle(m)

Spec == Init /\ [][Next]_settlementVars
=============================================================================
