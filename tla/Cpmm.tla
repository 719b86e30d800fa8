-------------------------------- MODULE Cpmm --------------------------------
(***************************************************************************)
(* The constant-product market maker of internal/cpmm/cpmm.go.             *)
(*                                                                         *)
(* The code keeps reserves and shares as float64.  Here they are integers, *)
(* in units of 1/Scale of a point, and a division is rounded to the        *)
(* nearest unit.  The code also loses the fraction of a result it turns    *)
(* into int64 points, and a float just below a whole number loses one      *)
(* point more: Truncated gives both results.                               *)
(***************************************************************************)
EXTENDS Integers

CONSTANT Scale   \* units per point and per share

ASSUME ScaleAssumption == Scale \in Nat \ {0}

Sides == {"yes", "no"}
Opposite(s) == IF s = "yes" THEN "no" ELSE "yes"

Quotient(n, d) == (2 * n + d) \div (2 * d)

Truncated(n, d) ==
    {n \div d} \cup {q \in {n \div d - 1} : q >= 0 /\ n % d = 0}

K(pool) == pool.yes * pool.no

New(liquidity) == [yes |-> liquidity * Scale, no |-> liquidity * Scale]

\* Faulty variant: the cost goes to the reserve the shares come from.
BoughtFromSameSide(pool, s, cost) ==
    LET grown == pool[s] + cost * Scale
        left == Quotient(K(pool), grown)
    IN  [shares |-> pool[Opposite(s)] - left,
         pool |-> [pool EXCEPT ![s] = grown, ![Opposite(s)] = left]]

\* BuyYes, BuyNo: the cost goes to the other reserve, and what the product then
\* leaves over in this one goes to the buyer (the caller rejects shares <= 0).
Bought(pool, s, cost) ==
    LET grown == pool[Opposite(s)] + cost * Scale
        left == Quotient(K(pool), grown)
    IN  [shares |-> pool[s] - left,
         pool |-> [pool EXCEPT ![Opposite(s)] = grown, ![s] = left]]

\* Faulty variant: every share is paid the price of the first one, no slippage.
SoldAtSpot(pool, s, amount) ==
    LET grown == pool[s] + amount * Scale
        proceeds == Quotient(amount * Scale * pool[Opposite(s)], pool[s])
    IN  [proceeds |-> proceeds,
         pool |-> [pool EXCEPT ![s] = grown, ![Opposite(s)] = @ - proceeds]]

\* SellYes, SellNo: amount whole shares go back to their reserve, and the other
\* one pays (in units, before the truncation; the caller rejects proceeds <= 0).
Sold(pool, s, amount) ==
    LET grown == pool[s] + amount * Scale
        left == Quotient(K(pool), grown)
    IN  [proceeds |-> pool[Opposite(s)] - left,
         pool |-> [pool EXCEPT ![s] = grown, ![Opposite(s)] = left]]

\* Faulty variant: the quote is rounded down.
CostRoundedDown(pool, s, shares) ==
    (Quotient(K(pool), pool[s] - shares) - pool[Opposite(s)]) \div Scale

\* CostForYesShares, CostForNoShares, for shares < pool[s].
CostForShares(pool, s, shares) ==
    LET cost == Quotient(K(pool), pool[s] - shares) - pool[Opposite(s)]
    IN  (cost + Scale - 1) \div Scale

\* YesPrice, as the comparison of two pools' prices no / (yes + no).
YesPriceAbove(p, q) == p.no * (q.yes + q.no) > q.no * (p.yes + p.no)
=============================================================================
