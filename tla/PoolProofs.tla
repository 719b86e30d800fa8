----------------------------- MODULE PoolProofs ------------------------------
(***************************************************************************)
(* Proofs about the pools of BinaryTrading: prices follow trades, the      *)
(* reserves keep their product, so that shares stay covered, and a quote   *)
(* is the cost it is the quote of, for any users, markets, amounts,        *)
(* liquidity and precision.                                                *)
(***************************************************************************)
EXTENDS BinaryTradingProofs

-----------------------------------------------------------------------------
(* Prices                                                                  *)

\* A reserve that grows and one that shrinks: the two products move apart.
LEMMA ProductsPart ==
    ASSUME NEW grown \in Nat, NEW x \in Nat, x < grown,
           NEW left \in Nat, NEW y \in Nat, left < y
    PROVE  grown * y > x * left
  <1>1. grown * y >= (x + 1) * y
    <2>1. PICK d \in Nat : grown = x + 1 + d
      <3>1. grown - (x + 1) \in Nat /\ grown = x + 1 + (grown - (x + 1))
        OBVIOUS
      <3>2. QED
        BY <3>1
    <2>2. (x + 1 + d) * y = (x + 1) * y + d * y /\ d * y \in Nat /\ (x + 1) * y \in Nat
      OBVIOUS
    <2>3. QED
      BY <2>1, <2>2
  <1>2. (x + 1) * y = x * y + y /\ x * y \in Nat
    OBVIOUS
  <1>3. x * y >= x * left
    <2>1. PICK d \in Nat : y = left + d
      <3>1. y - left \in Nat /\ y = left + (y - left)
        OBVIOUS
      <3>2. QED
        BY <3>1
    <2>2. x * (left + d) = x * left + x * d /\ x * d \in Nat /\ x * left \in Nat
      OBVIOUS
    <2>3. QED
      BY <2>1, <2>2
  <1>4. x * left \in Nat /\ grown * y \in Nat /\ y > 0
    OBVIOUS
  <1>5. QED
    BY <1>1, <1>2, <1>3, <1>4

\* One pool's YES price is above another's when it has more NO and less YES.
LEMMA MoreNoIsDearer ==
    ASSUME NEW p \in Units, NEW q \in Units, p.no > q.no, p.yes < q.yes
    PROVE  YesPriceAbove(p, q)
  <1>1. p.yes \in Nat /\ p.no \in Nat /\ q.yes \in Nat /\ q.no \in Nat
    BY DEF Units
  <1>2. p.no * q.yes > q.no * p.yes
    BY <1>1, ProductsPart
  <1>3. p.no * (q.yes + q.no) = p.no * q.yes + p.no * q.no
    BY <1>1
  <1>4. q.no * (p.yes + p.no) = q.no * p.yes + p.no * q.no
    BY <1>1
  <1>5. p.no * q.yes \in Nat /\ q.no * p.yes \in Nat /\ p.no * q.no \in Nat
    BY <1>1
  <1>6. QED
    BY <1>2, <1>3, <1>4, <1>5 DEF YesPriceAbove

\* A purchase moves the reserves apart: the side bought shrinks, the other grows.
LEMMA BuyingMovesApart ==
    ASSUME NEW p \in Units, NEW s \in Sides, NEW a \in Nat \ {0}, Bought(p, s, a).shares > 0
    PROVE  LET q == Bought(p, s, a).pool
           IN  /\ q[s] < p[s] /\ q[Opposite(s)] = p[Opposite(s)] + a * Scale
               /\ q[Opposite(s)] > p[Opposite(s)]
               /\ q[s] = Quotient(K(p), q[Opposite(s)])
  <1> DEFINE grown == p[Opposite(s)] + a * Scale
             left == Quotient(K(p), grown)
  <1>1. p.yes \in Nat /\ p.no \in Nat /\ p[s] \in Nat /\ p[Opposite(s)] \in Nat
    BY DEF Units, Sides, Opposite
  <1>2. a * Scale \in Nat \ {0}
    BY UnitsOfAmount
  <1>3. left \in Nat
    <2>1. K(p) \in Nat /\ grown \in Nat \ {0}
      BY <1>1, <1>2 DEF K
    <2>2. QED
      BY <2>1, QuotientIsNatural
  <1>4. Bought(p, s, a) =
          [shares |-> p[s] - left, pool |-> [p EXCEPT ![Opposite(s)] = grown, ![s] = left]]
    BY DEF Bought
  <1> HIDE DEF left
  <1>5. p[s] - left > 0
    BY <1>4
  <1>6. left < p[s]
    BY <1>1, <1>3, <1>5
  <1>7. s # Opposite(s) /\ s \in {"yes", "no"} /\ Opposite(s) \in {"yes", "no"}
    BY DEF Sides, Opposite
  <1>8. Bought(p, s, a).pool[s] = left /\ Bought(p, s, a).pool[Opposite(s)] = grown
    BY <1>4, <1>7 DEF Units
  <1>9. QED
    BY <1>1, <1>2, <1>6, <1>8 DEF left

\* A sale moves them the other way.
LEMMA SellingMovesApart ==
    ASSUME NEW p \in Units, NEW s \in Sides, NEW a \in Nat \ {0}, Sold(p, s, a).proceeds > 0
    PROVE  LET q == Sold(p, s, a).pool
           IN  /\ q[Opposite(s)] < p[Opposite(s)] /\ q[s] = p[s] + a * Scale
               /\ q[s] > p[s]
               /\ q[Opposite(s)] = Quotient(K(p), q[s])
  <1> DEFINE grown == p[s] + a * Scale
             left == Quotient(K(p), grown)
  <1>1. p.yes \in Nat /\ p.no \in Nat /\ p[s] \in Nat /\ p[Opposite(s)] \in Nat
    BY DEF Units, Sides, Opposite
  <1>2. a * Scale \in Nat \ {0}
    BY UnitsOfAmount
  <1>3. left \in Nat
    <2>1. K(p) \in Nat /\ grown \in Nat \ {0}
      BY <1>1, <1>2 DEF K
    <2>2. QED
      BY <2>1, QuotientIsNatural
  <1>4. Sold(p, s, a) =
          [proceeds |-> p[Opposite(s)] - left,
           pool |-> [p EXCEPT ![s] = grown, ![Opposite(s)] = left]]
    BY DEF Sold
  <1> HIDE DEF left
  <1>5. p[Opposite(s)] - left > 0
    BY <1>4
  <1>6. left < p[Opposite(s)]
    BY <1>1, <1>3, <1>5
  <1>7. s # Opposite(s) /\ s \in {"yes", "no"} /\ Opposite(s) \in {"yes", "no"}
    BY DEF Sides, Opposite
  <1>8. Sold(p, s, a).pool[s] = grown /\ Sold(p, s, a).pool[Opposite(s)] = left
    BY <1>4, <1>7 DEF Units
  <1>9. QED
    BY <1>1, <1>2, <1>6, <1>8 DEF left

\* The change of u's position in m, as PriceFollowsTrade reads it.
PriceFollows(m, u) ==
    LET moved(s) == shares'[u][m][s] - shares[u][m][s]
    IN  /\ moved("yes") > 0 \/ moved("no") < 0 => YesPriceAbove(pool'[m], pool[m])
        /\ moved("yes") < 0 \/ moved("no") > 0 => YesPriceAbove(pool[m], pool'[m])

\* Steps that leave positions alone move no price.
LEMMA NothingMovedNoPrice ==
    ASSUME TradingTypeOK, NEW m \in Markets, NEW u \in Users, shares'[u][m] = shares[u][m]
    PROVE  PriceFollows(m, u)
  <1>1. shares[u][m].yes \in Nat /\ shares[u][m].no \in Nat
    BY DEF TradingTypeOK, Units
  <1>2. QED
    BY <1>1 DEF PriceFollows

LEMMA TradeMovesPrice ==
    ASSUME TradingTypeOK, NEW m \in Markets, NEW u \in Users, TradeStep(u, m)
    PROVE  PriceFollows(m, u)
  <1>1. PICK s \in Sides, a \in Amounts : Buy(u, m, s, a) \/ Sell(u, m, s, a)
    BY DEF TradeStep
  <1>2. /\ pool \in [Markets -> Units] /\ pool[m] \in Units /\ a \in Nat \ {0}
        /\ shares \in [Users -> [Markets -> Units]]
    BY TradingAssumption DEF TradingTypeOK
  <1>3. /\ s \in {"yes", "no"} /\ Opposite(s) = IF s = "yes" THEN "no" ELSE "yes"
        /\ shares[u][m].yes \in Nat /\ shares[u][m].no \in Nat
    BY <1>2 DEF Sides, Opposite, Units
  <1>4. CASE Buy(u, m, s, a)
    <2> DEFINE bought == Bought(pool[m], s, a)
               q == bought.pool
    <2>1. /\ bought.shares \in Int /\ bought.shares > 0 /\ q \in Units
          /\ pool' = [pool EXCEPT ![m] = q]
          /\ MoveShares(u, m, s, bought.shares)
      BY <1>4, BuyIsTrade DEF TradeEffect
    <2>2. q[s] < pool[m][s] /\ q[Opposite(s)] > pool[m][Opposite(s)]
      BY <1>2, <2>1, BuyingMovesApart
    <2> HIDE DEF bought, q
    <2>3. /\ shares'[u][m][s] = shares[u][m][s] + bought.shares
          /\ shares'[u][m][Opposite(s)] = shares[u][m][Opposite(s)]
      BY <1>2, <1>3, <2>1 DEF MoveShares, Units
    <2>4. pool'[m] = q
      BY <1>2, <2>1
    <2>5. CASE s = "yes"
      <3>1. YesPriceAbove(pool'[m], pool[m])
        BY <1>2, <1>3, <2>1, <2>2, <2>4, <2>5, MoreNoIsDearer
      <3>2. QED
        BY <1>3, <2>1, <2>3, <2>5, <3>1 DEF PriceFollows
    <2>6. CASE s = "no"
      <3>1. YesPriceAbove(pool[m], pool'[m])
        BY <1>2, <1>3, <2>1, <2>2, <2>4, <2>6, MoreNoIsDearer
      <3>2. QED
        BY <1>3, <2>1, <2>3, <2>6, <3>1 DEF PriceFollows
    <2>7. QED
      BY <1>3, <2>5, <2>6
  <1>5. CASE Sell(u, m, s, a)
    <2> DEFINE sold == Sold(pool[m], s, a)
               q == sold.pool
               units == -(a * Scale)
    <2>1. /\ sold.proceeds \in Int /\ sold.proceeds > 0 /\ q \in Units
          /\ units \in Int /\ units < 0
          /\ pool' = [pool EXCEPT ![m] = q]
          /\ MoveShares(u, m, s, units)
      BY <1>5, SellIsTrade DEF TradeEffect
    <2>2. q[Opposite(s)] < pool[m][Opposite(s)] /\ q[s] > pool[m][s]
      BY <1>2, <2>1, SellingMovesApart
    <2> HIDE DEF sold, q, units
    <2>3. /\ shares'[u][m][s] = shares[u][m][s] + units
          /\ shares'[u][m][Opposite(s)] = shares[u][m][Opposite(s)]
      BY <1>2, <1>3, <2>1 DEF MoveShares, Units
    <2>4. pool'[m] = q
      BY <1>2, <2>1
    <2>5. CASE s = "yes"
      <3>1. YesPriceAbove(pool[m], pool'[m])
        BY <1>2, <1>3, <2>1, <2>2, <2>4, <2>5, MoreNoIsDearer
      <3>2. QED
        BY <1>3, <2>1, <2>3, <2>5, <3>1 DEF PriceFollows
    <2>6. CASE s = "no"
      <3>1. YesPriceAbove(pool'[m], pool[m])
        BY <1>2, <1>3, <2>1, <2>2, <2>4, <2>6, MoreNoIsDearer
      <3>2. QED
        BY <1>3, <2>1, <2>3, <2>6, <3>1 DEF PriceFollows
    <2>7. QED
      BY <1>3, <2>5, <2>6
  <1>6. QED
    BY <1>1, <1>4, <1>5

LEMMA StepMovesPrice ==
    ASSUME TradingTypeOK, [Next]_tradingVars, NEW m \in Created, NEW u \in Users
    PROVE  PriceFollows(m, u)
  <1>1. m \in Markets /\ shares \in [Users -> [Markets -> Units]]
    BY DEF Created, TradingTypeOK
  <1>2. CASE UNCHANGED shares
    BY <1>1, <1>2, NothingMovedNoPrice
  <1>3. ASSUME NEW n \in Markets, NEW v \in Users, TradeStep(v, n)
        PROVE  PriceFollows(m, u)
    <2>1. CASE n = m /\ v = u
      BY <1>3, <2>1, TradeMovesPrice
    <2>2. CASE n # m \/ v # u
      <3>1. PICK s \in Sides : \E units : MoveShares(v, n, s, units)
        BY <1>3 DEF TradeStep, Buy, Sell
      <3>2. shares'[u][m] = shares[u][m]
        BY <1>1, <2>2, <3>1 DEF MoveShares
      <3>3. QED
        BY <1>1, <3>2, NothingMovedNoPrice
    <2>3. QED
      BY <2>1, <2>2
  <1>4. ASSUME NEW n \in Markets,
               SettleStep(n) \/ \E v \in Users : Create(n, v) \/ CreateShadow(n, v)
        PROVE  UNCHANGED shares
    BY <1>4 DEF SettleStep, EndTrading, PayoutCancelled, PayoutSide, MarkPaid, Overturn,
                Create, CreateShadow, InsertMarket, books
  <1>5. CASE UNCHANGED tradingVars
    BY <1>2, <1>5 DEF tradingVars, books
  <1>6. QED
    BY <1>2, <1>3, <1>4, <1>5 DEF Next

\* Whoever buys a side makes it dearer and whoever sells it cheaper, in every pool
\* that trading reaches: CPMM trades never move a price against the trade, and
\* nothing else moves shares.
THEOREM PriceFollowsTradeAlways == Spec => PriceFollowsTrade
  <1>1. TradingTypeOK /\ [Next]_tradingVars =>
          [\A m \in Created, u \in Users :
              LET moved(s) == shares'[u][m][s] - shares[u][m][s]
              IN  /\ moved("yes") > 0 \/ moved("no") < 0 => YesPriceAbove(pool'[m], pool[m])
                  /\ moved("yes") < 0 \/ moved("no") > 0 => YesPriceAbove(pool[m], pool'[m])]_tradingVars
    BY StepMovesPrice DEF PriceFollows
  <1>2. QED
    BY <1>1, TradingTypeCorrect, PTL DEF Spec, PriceFollowsTrade

-----------------------------------------------------------------------------
(* The product of the reserves.  A trade rounds one reserve to the nearest *)
(* unit, which costs the product up to half of the other reserve; no       *)
(* reserve is larger than all trades together could have made it.          *)

LEMMA MaxOfFinite ==
    ASSUME NEW S \in SUBSET Int, IsFiniteSet(S), S # {}
    PROVE  Max(S) \in S /\ \A y \in S : Max(S) >= y
  <1>1. \E x \in S : \A y \in S : x >= y
    BY LargestOfFinite
  <1>2. QED
    BY <1>1 DEF Max

\* The largest that trades of t requests can have made a reserve, in units, and
\* what their rounding can have cost the doubled product.
Reserve(t) == (Liquidity + t * Max(Amounts)) * Scale
Loss(t) == t * Reserve(t)

LEMMA ReserveGrows ==
    ASSUME NEW t \in Nat
    PROVE  /\ Max(Amounts) \in Nat /\ \A a \in Amounts : a <= Max(Amounts)
           /\ Reserve(t) \in Nat /\ Reserve(t + 1) \in Nat /\ Loss(t) \in Nat /\ Loss(t + 1) \in Nat
           /\ Liquidity * Scale <= Reserve(t)
           /\ Reserve(t + 1) = Reserve(t) + Max(Amounts) * Scale
           /\ Loss(t + 1) >= Loss(t) + Reserve(t + 1)
  <1> DEFINE A == Max(Amounts)
  <1>1. A \in Nat /\ \A a \in Amounts : a <= A
    <2>1. Amounts \in SUBSET Int /\ Amounts \subseteq Nat
      BY TradingAssumption
    <2>2. QED
      BY <2>1, FiniteAssumption, MaxOfFinite
  <1> HIDE DEF A
  <1>2. Liquidity \in Nat /\ Scale \in Nat /\ t * A \in Nat /\ (t + 1) * A = t * A + A
    BY <1>1, TradingAssumption, ScaleAssumption
  <1>3. /\ Reserve(t) = Liquidity * Scale + (t * A) * Scale
        /\ Reserve(t + 1) = Liquidity * Scale + (t * A) * Scale + A * Scale
    <2>1. (Liquidity + t * A) * Scale = Liquidity * Scale + (t * A) * Scale
      BY <1>2
    <2>2. (Liquidity + (t * A + A)) * Scale = Liquidity * Scale + (t * A) * Scale + A * Scale
      BY <1>1, <1>2
    <2>3. QED
      BY <1>2, <2>1, <2>2 DEF Reserve, A
  <1>4. Liquidity * Scale \in Nat /\ (t * A) * Scale \in Nat /\ A * Scale \in Nat
    BY <1>1, <1>2
  <1>5. /\ Reserve(t) \in Nat /\ Reserve(t + 1) = Reserve(t) + A * Scale
        /\ Liquidity * Scale <= Reserve(t)
    BY <1>3, <1>4
  <1>6. Loss(t + 1) = t * Reserve(t) + t * (A * Scale) + Reserve(t + 1)
    <2>1. (t + 1) * (Reserve(t) + A * Scale)
            = t * Reserve(t) + t * (A * Scale) + (Reserve(t) + A * Scale)
      BY <1>4, <1>5
    <2>2. QED
      BY <1>5, <2>1 DEF Loss
  <1>7. t * Reserve(t) \in Nat /\ t * (A * Scale) \in Nat
    BY <1>4, <1>5
  <1>8. QED
    BY <1>1, <1>4, <1>5, <1>6, <1>7 DEF Loss, A

LEMMA QuotientIsNear ==
    ASSUME NEW n \in Nat, NEW d \in Nat \ {0}
    PROVE  2 * (Quotient(n, d) * d) >= 2 * n - d
  <1> DEFINE q == (2 * n + d) \div (2 * d)
  <1>1. q \in Int /\ 2 * n + d < (q + 1) * (2 * d)
    BY Z3
  <1>2. (q + 1) * (2 * d) = 2 * (q * d) + 2 * d
    BY <1>1
  <1>3. q * d \in Int
    BY <1>1
  <1> HIDE DEF q
  <1>4. 2 * (q * d) >= 2 * n - d
    BY <1>1, <1>2, <1>3
  <1>5. QED
    BY <1>4 DEF q, Quotient

\* One reserve is grown and the other is what the product leaves for it.
LEMMA TradingKeepsProduct ==
    ASSUME NEW p \in Units, NEW s \in Sides, NEW grown \in Nat \ {0},
           NEW q \in Units, q[s] = grown, q[Opposite(s)] = Quotient(K(p), grown)
    PROVE  2 * K(q) >= 2 * K(p) - grown
  <1>1. K(p) \in Nat
    BY DEF K, Units
  <1>2. 2 * (Quotient(K(p), grown) * grown) >= 2 * K(p) - grown
    BY <1>1, QuotientIsNear
  <1>3. K(q) = Quotient(K(p), grown) * grown
    <2>1. q.yes \in Nat /\ q.no \in Nat
      BY DEF Units
    <2>2. q.yes * q.no = q.no * q.yes
      BY <2>1
    <2>3. QED
      BY <2>2 DEF K, Sides, Opposite
  <1>4. QED
    BY <1>2, <1>3

Seed == Liquidity * Scale

DriftLaw ==
    \A m \in Created :
        /\ \A s \in Sides : pool[m][s] <= Reserve(trades)
        /\ 2 * K(pool[m]) + Loss(trades) >= 2 * (Seed * Seed)

LEMMA SeedType == Seed \in Nat \ {0} /\ Seed * Seed \in Nat
  BY TradingAssumption, ScaleAssumption DEF Seed

LEMMA OneTradeDrifts ==
    ASSUME NEW p \in Units, NEW q \in Units, NEW t \in Nat, NEW s \in Sides, NEW a \in Amounts,
           \A r \in Sides : p[r] <= Reserve(t),
           2 * K(p) + Loss(t) >= 2 * (Seed * Seed),
           q[s] = p[s] + a * Scale,
           q[Opposite(s)] = Quotient(K(p), q[s]),
           q[Opposite(s)] < p[Opposite(s)]
    PROVE  /\ \A r \in Sides : q[r] <= Reserve(t + 1)
           /\ 2 * K(q) + Loss(t + 1) >= 2 * (Seed * Seed)
  <1> DEFINE A == Max(Amounts)
             R == Reserve(t)
             R1 == Reserve(t + 1)
  <1>1. /\ A \in Nat /\ a <= A /\ a \in Nat \ {0}
        /\ R \in Nat /\ R1 \in Nat /\ Loss(t) \in Nat /\ Loss(t + 1) \in Nat
        /\ R1 = R + A * Scale
        /\ Loss(t + 1) >= Loss(t) + R1
    BY ReserveGrows, TradingAssumption
  <1>2. /\ s \in {"yes", "no"} /\ Opposite(s) \in {"yes", "no"}
        /\ Sides = {s, Opposite(s)} /\ s \in Sides /\ Opposite(s) \in Sides
    BY DEF Sides, Opposite
  <1>3. /\ p[s] \in Nat /\ p[Opposite(s)] \in Nat /\ q[s] \in Nat /\ q[Opposite(s)] \in Nat
        /\ K(p) \in Nat /\ K(q) \in Nat
    BY <1>2 DEF Units, K
  <1>4. a * Scale <= A * Scale /\ a * Scale \in Nat \ {0} /\ A * Scale \in Nat
    <2>1. PICK d \in Nat : A = a + d
      <3>1. A - a \in Nat /\ A = a + (A - a)
        BY <1>1
      <3>2. QED
        BY <3>1
    <2>2. (a + d) * Scale = a * Scale + d * Scale /\ d * Scale \in Nat
      BY <1>1, ScaleAssumption
    <2>3. a * Scale \in Nat \ {0}
      BY <1>1, UnitsOfAmount
    <2> HIDE DEF A
    <2>4. A * Scale = a * Scale + d * Scale
      BY <2>1, <2>2
    <2>5. QED
      BY <2>2, <2>3, <2>4
  <1> HIDE DEF A, R, R1
  <1>5. p[s] <= R /\ p[Opposite(s)] <= R
    BY <1>2 DEF R
  <1>6. q[s] <= R1 /\ q[Opposite(s)] <= R1 /\ q[s] \in Nat \ {0}
    BY <1>1, <1>3, <1>4, <1>5
  <1>7. 2 * K(q) >= 2 * K(p) - q[s]
    BY <1>6, TradingKeepsProduct
  <1>8. 2 * K(q) + Loss(t + 1) >= 2 * K(p) + Loss(t)
    BY <1>1, <1>3, <1>6, <1>7
  <1>9. 2 * K(q) + Loss(t + 1) >= 2 * (Seed * Seed)
    BY <1>1, <1>3, <1>8, SeedType
  <1>10. QED
    BY <1>2, <1>6, <1>9 DEF R1

LEMMA InitDrift == Init => DriftLaw
  BY DEF Init, DriftLaw, Created

LEMMA CreateDrifts ==
    ASSUME IInv, DriftLaw, NEW m \in Markets, NEW u \in Users, InsertMarket(m, u)
    PROVE  DriftLaw'
  <1>1. /\ trades \in Nat /\ trades' = trades
        /\ Created' = Created \cup {m}
        /\ \A n \in Markets : pool'[n] = IF n = m THEN New(Liquidity) ELSE pool[n]
    BY DEF InsertMarket, IInv, Books, TradingTypeOK, Created
  <1>2. Seed <= Reserve(trades) /\ Loss(trades) \in Nat /\ Reserve(trades) \in Nat
    BY <1>1, ReserveGrows DEF Seed
  <1>3. New(Liquidity) = [yes |-> Seed, no |-> Seed]
    BY DEF New, Seed
  <1>4. K(New(Liquidity)) = Seed * Seed
    BY <1>3 DEF K
  <1>5. /\ \A s \in Sides : New(Liquidity)[s] <= Reserve(trades)
        /\ 2 * K(New(Liquidity)) + Loss(trades) >= 2 * (Seed * Seed)
    BY <1>2, <1>3, <1>4, SeedType DEF Sides
  <1>6. ASSUME NEW n \in Created'
        PROVE  /\ \A s \in Sides : pool'[n][s] <= Reserve(trades)
               /\ 2 * K(pool'[n]) + Loss(trades) >= 2 * (Seed * Seed)
    <2>1. CASE n = m
      BY <1>1, <1>5, <2>1
    <2>2. CASE n # m
      <3>1. n \in Created /\ n \in Markets
        BY <1>1, <1>6, <2>2 DEF Created
      <3>2. pool'[n] = pool[n]
        BY <1>1, <2>2, <3>1
      <3>3. QED
        BY <3>1, <3>2 DEF DriftLaw
    <2>3. QED
      BY <2>1, <2>2
  <1>7. DriftLaw' = \A n \in Created' :
          /\ \A s \in Sides : pool'[n][s] <= Reserve(trades')
          /\ 2 * K(pool'[n]) + Loss(trades') >= 2 * (Seed * Seed)
    BY DEF DriftLaw, K, Reserve, Loss, Seed
  <1>8. QED
    BY <1>1, <1>6, <1>7

LEMMA TradeDrifts ==
    ASSUME IInv, DriftLaw, NEW m \in Markets, NEW u \in Users, TradeStep(u, m)
    PROVE  DriftLaw'
  <1>1. PICK s \in Sides, a \in Amounts : Buy(u, m, s, a) \/ Sell(u, m, s, a)
    BY DEF TradeStep
  <1>2. /\ TradingTypeOK /\ pool \in [Markets -> Units] /\ pool[m] \in Units
        /\ trades \in Nat /\ a \in Nat \ {0}
    BY TradingAssumption DEF IInv, Books, TradingTypeOK
  <1>3. MayTrade(u, m) /\ UNCHANGED stage
    BY <1>1 DEF Buy, Sell, market
  <1>4. m \in Created /\ Created' = Created /\ trades' = trades + 1
    BY <1>3 DEF MayTrade, Created
  <1>5. PICK q \in Units, r \in Sides :
          /\ pool' = [pool EXCEPT ![m] = q]
          /\ q[r] = pool[m][r] + a * Scale
          /\ q[Opposite(r)] = Quotient(K(pool[m]), q[r])
          /\ q[Opposite(r)] < pool[m][Opposite(r)]
    <2>1. CASE Buy(u, m, s, a)
      <3> DEFINE b == Bought(pool[m], s, a)
      <3>1. b.shares > 0 /\ b.pool \in Units /\ pool' = [pool EXCEPT ![m] = b.pool]
        BY <1>2, <2>1, BuyIsTrade
      <3>2. /\ b.pool[s] < pool[m][s]
            /\ b.pool[Opposite(s)] = pool[m][Opposite(s)] + a * Scale
            /\ b.pool[s] = Quotient(K(pool[m]), b.pool[Opposite(s)])
        BY <1>2, <3>1, BuyingMovesApart
      <3>3. Opposite(Opposite(s)) = s /\ Opposite(s) \in Sides
        BY DEF Sides, Opposite
      <3> HIDE DEF b
      <3>4. QED
        BY <3>1, <3>2, <3>3
    <2>2. CASE Sell(u, m, s, a)
      <3> DEFINE b == Sold(pool[m], s, a)
      <3>1. b.proceeds > 0 /\ b.pool \in Units /\ pool' = [pool EXCEPT ![m] = b.pool]
        BY <1>2, <2>2, SellIsTrade
      <3>2. /\ b.pool[Opposite(s)] < pool[m][Opposite(s)]
            /\ b.pool[s] = pool[m][s] + a * Scale
            /\ b.pool[Opposite(s)] = Quotient(K(pool[m]), b.pool[s])
        BY <1>2, <3>1, SellingMovesApart
      <3> HIDE DEF b
      <3>3. QED
        BY <3>1, <3>2
    <2>3. QED
      BY <1>1, <2>1, <2>2
  <1>6. /\ \A t \in Sides : q[t] <= Reserve(trades + 1)
        /\ 2 * K(q) + Loss(trades + 1) >= 2 * (Seed * Seed)
    <2>1. /\ \A t \in Sides : pool[m][t] <= Reserve(trades)
          /\ 2 * K(pool[m]) + Loss(trades) >= 2 * (Seed * Seed)
      BY <1>4 DEF DriftLaw
    <2>2. QED
      BY <1>2, <1>5, <2>1, OneTradeDrifts
  <1>7. ASSUME NEW n \in Created
        PROVE  /\ \A t \in Sides : pool'[n][t] <= Reserve(trades + 1)
               /\ 2 * K(pool'[n]) + Loss(trades + 1) >= 2 * (Seed * Seed)
    <2>1. CASE n = m
      BY <1>2, <1>5, <1>6, <2>1
    <2>2. CASE n # m
      <3>1. n \in Markets /\ pool'[n] = pool[n] /\ pool[n] \in Units
        BY <1>2, <1>5, <2>2 DEF Created
      <3>2. /\ \A t \in Sides : pool[n][t] <= Reserve(trades)
            /\ 2 * K(pool[n]) + Loss(trades) >= 2 * (Seed * Seed)
        BY DEF DriftLaw
      <3>3. /\ Reserve(trades) \in Nat /\ Reserve(trades + 1) >= Reserve(trades)
            /\ Loss(trades) \in Nat /\ Loss(trades + 1) \in Nat /\ Loss(trades + 1) >= Loss(trades)
            /\ Reserve(trades + 1) \in Nat
        <4> DEFINE more == Max(Amounts) * Scale
        <4>1. more \in Nat
          <5>1. Max(Amounts) \in Nat
            BY <1>2, ReserveGrows
          <5>2. Scale \in Nat
            BY ScaleAssumption
          <5>3. QED BY <5>1, <5>2
        <4>2. /\ Reserve(trades) \in Nat /\ Reserve(trades + 1) \in Nat
              /\ Loss(trades) \in Nat /\ Loss(trades + 1) \in Nat
              /\ Reserve(trades + 1) = Reserve(trades) + more
              /\ Loss(trades + 1) >= Loss(trades) + Reserve(trades + 1)
          BY <1>2, ReserveGrows
        <4> HIDE DEF more
        <4>3. QED
          BY <4>1, <4>2
      <3>4. K(pool[n]) \in Nat /\ \A t \in Sides : pool[n][t] \in Nat
        BY <3>1 DEF Units, K, Sides
      <3>5. 2 * K(pool[n]) + Loss(trades + 1) >= 2 * (Seed * Seed)
        BY <3>2, <3>3, <3>4, SeedType
      <3>6. \A t \in Sides : pool[n][t] <= Reserve(trades + 1)
        BY <3>2, <3>3, <3>4
      <3>7. QED
        BY <3>1, <3>5, <3>6
    <2>3. QED
      BY <2>1, <2>2
  <1>8. DriftLaw' = \A n \in Created' :
          /\ \A t \in Sides : pool'[n][t] <= Reserve(trades')
          /\ 2 * K(pool'[n]) + Loss(trades') >= 2 * (Seed * Seed)
    BY DEF DriftLaw, K, Reserve, Loss, Seed
  <1>9. QED
    BY <1>4, <1>7, <1>8

LEMMA NextKeepsDrift == IInv /\ DriftLaw /\ [Next]_tradingVars => DriftLaw'
  <1> SUFFICES ASSUME IInv, DriftLaw, [Next]_tradingVars PROVE DriftLaw'
    OBVIOUS
  <1>1. ASSUME Created' = Created, UNCHANGED <<pool, trades>> PROVE DriftLaw'
    BY <1>1 DEF DriftLaw, K, Reserve, Loss, Seed
  <1>2. ASSUME NEW m \in Markets, SettleStep(m) PROVE DriftLaw'
    <2>1. UNCHANGED <<pool, trades>>
      BY <1>2 DEF SettleStep, EndTrading, PayoutCancelled, PayoutSide, MarkPaid, Overturn, poolVars
    <2>2. Created' = Created
      BY <1>2 DEF SettleStep, EndTrading, PayoutCancelled, PayoutSide, MarkPaid, Overturn,
                  Created, IInv, Books, TradingTypeOK
    <2>3. QED
      BY <1>1, <2>1, <2>2
  <1>3. ASSUME NEW m \in Markets, NEW u \in Users, Create(m, u) \/ CreateShadow(m, u)
        PROVE  DriftLaw'
    BY <1>3, CreateDrifts DEF Create, CreateShadow
  <1>4. ASSUME NEW m \in Markets, NEW u \in Users, TradeStep(u, m) PROVE DriftLaw'
    BY <1>4, TradeDrifts
  <1>5. CASE UNCHANGED tradingVars
    BY <1>1, <1>5 DEF tradingVars, market, poolVars, Created
  <1>6. QED
    BY <1>2, <1>3, <1>4, <1>5 DEF Next

\* The sum of two reserves with a product near the square of the seed is near twice
\* the seed: x is what it lacks.
LEMMA SumFromProduct ==
    ASSUME NEW y \in Nat, NEW n \in Nat, NEW z \in Nat \ {0}, NEW loss \in Nat,
           2 * (y * n) + loss >= 2 * (z * z),
           NEW x \in Nat, x = 2 * z - (y + n)
    PROVE  z * x <= loss
  <1>1. (y + n) * (y + n) >= 4 * (y * n)
    <2>1. (y - n) * (y - n) >= 0
      <3>1. CASE y >= n
        <4>1. y - n \in Nat
          BY <3>1
        <4>2. QED
          BY <4>1
      <3>2. CASE n >= y
        <4>1. n - y \in Nat /\ (n - y) * (n - y) = (y - n) * (y - n)
          BY <3>2
        <4>2. (n - y) * (n - y) >= 0
          BY <4>1
        <4>3. QED
          BY <4>1, <4>2
      <3>3. QED
        BY <3>1, <3>2
    <2>2. (y - n) * (y - n) = y * y - 2 * (y * n) + n * n
      OBVIOUS
    <2>3. (y + n) * (y + n) = y * y + 2 * (y * n) + n * n
      OBVIOUS
    <2>4. y * y \in Nat /\ y * n \in Nat /\ n * n \in Nat
      OBVIOUS
    <2>5. QED
      BY <2>1, <2>2, <2>3, <2>4
  <1>2. (y + n) * (y + n) = 4 * (z * z) - 4 * (z * x) + x * x
    <2>1. y + n = 2 * z - x
      OBVIOUS
    <2>2. (2 * z - x) * (2 * z - x) = 4 * (z * z) - 4 * (z * x) + x * x
      OBVIOUS
    <2>3. QED
      BY <2>1, <2>2
  <1>3. x * x <= 2 * (z * x)
    <2>1. PICK d \in Nat : 2 * z = x + d
      <3>1. y + n \in Nat /\ 2 * z = x + (y + n)
        OBVIOUS
      <3>2. QED
        BY <3>1
    <2>2. (x + d) * x = x * x + d * x /\ d * x \in Nat /\ x * x \in Nat
      OBVIOUS
    <2>3. (2 * z) * x = 2 * (z * x)
      OBVIOUS
    <2>4. QED
      BY <2>1, <2>2, <2>3
  <1>4. y * n \in Nat /\ z * z \in Nat /\ z * x \in Nat /\ x * x \in Nat
    OBVIOUS
  <1>5. QED
    BY <1>1, <1>2, <1>3, <1>4

LEMMA DivisionBound ==
    ASSUME NEW w \in Int, NEW n \in Int, NEW d \in Nat \ {0}, d * w <= n
    PROVE  w <= n \div d
  <1> DEFINE q == n \div d
  <1>1. q \in Int /\ n < (q + 1) * d
    BY Z3
  <1> HIDE DEF q
  <1>2. SUFFICES ASSUME q + 1 <= w PROVE FALSE
    BY <1>1 DEF q
  <1>3. PICK e \in Nat : w = q + 1 + e
    <2>1. w - (q + 1) \in Nat /\ w = q + 1 + (w - (q + 1))
      BY <1>1, <1>2
    <2>2. QED
      BY <2>1
  <1>4. d * (q + 1 + e) = (q + 1) * d + d * e /\ d * e \in Nat /\ (q + 1) * d \in Int
    BY <1>1
  <1>5. QED
    BY <1>1, <1>3, <1>4

\* In units: what the sum of the reserves lacks of twice the seed is at most the
\* drift.
LEMMA ShortfallIsDrift ==
    ASSUME NEW t \in Nat, NEW x \in Nat, Seed * x <= Loss(t)
    PROVE  x <= t + (t * t * Max(Amounts)) \div Liquidity
  <1> DEFINE A == Max(Amounts)
  <1>1. A \in Nat /\ Liquidity \in Nat \ {0} /\ Scale \in Nat \ {0}
    BY ReserveGrows, TradingAssumption, ScaleAssumption
  <1> HIDE DEF A
  <1>2. Seed * x = (Liquidity * x) * Scale
    BY <1>1 DEF Seed
  <1>3. Loss(t) = (t * (Liquidity + t * A)) * Scale
    <2>1. t * ((Liquidity + t * A) * Scale) = (t * (Liquidity + t * A)) * Scale
      <3>1. Liquidity + t * A \in Nat
        BY <1>1
      <3>2. QED
        BY <1>1, <3>1
    <2>2. QED
      BY <2>1 DEF Loss, Reserve, A
  <1>4. Liquidity * x \in Int /\ t * (Liquidity + t * A) \in Int
    BY <1>1
  <1>5. Liquidity * x <= t * (Liquidity + t * A)
    BY <1>1, <1>2, <1>3, <1>4, CancelFactor
  <1>6. t * (Liquidity + t * A) = Liquidity * t + t * t * A
    BY <1>1
  <1>7. Liquidity * (x - t) = Liquidity * x - Liquidity * t
    BY <1>1
  <1>8. t * t * A \in Int /\ Liquidity * t \in Int /\ x - t \in Int
    BY <1>1
  <1>9. Liquidity * (x - t) <= t * t * A
    BY <1>4, <1>5, <1>6, <1>7, <1>8
  <1>10. x - t <= (t * t * A) \div Liquidity
    BY <1>1, <1>8, <1>9, DivisionBound
  <1>11. (t * t * A) \div Liquidity \in Int
    BY <1>1, <1>8
  <1>12. QED
    BY <1>10, <1>11 DEF A

LEMMA DriftIsNatural ==
    ASSUME TradingTypeOK
    PROVE  Drift \in Nat
  <1>1. trades \in Nat /\ Max(Amounts) \in Nat /\ Liquidity \in Nat \ {0}
    BY ReserveGrows, TradingAssumption DEF TradingTypeOK
  <1>2. trades * trades * Max(Amounts) \in Nat
    BY <1>1
  <1>3. QED
    BY <1>1, <1>2, DivisionOfNaturals DEF Drift

LEMMA LawsKeepSolvent ==
    ASSUME IInv, DriftLaw
    PROVE  PoolSolvent
  <1> SUFFICES ASSUME NEW m \in Created
               PROVE  held[m].yes + held[m].no <= (collateral[m] - Liquidity) * Scale + Drift
    BY DEF PoolSolvent
  <1> DEFINE y == pool[m].yes
             n == pool[m].no
             h == held[m].yes + held[m].no
             b == (collateral[m] - Liquidity) * Scale
             x == 2 * Seed - (y + n)
  <1>1. /\ y \in Nat /\ n \in Nat /\ h \in Int /\ kept[m] \in Nat
        /\ held[m].yes \in Int /\ held[m].no \in Int /\ trades \in Nat
        /\ collateral[m] \in Int /\ Liquidity \in Nat /\ Scale \in Nat
    BY TradingAssumption, ScaleAssumption DEF IInv, Books, TradingTypeOK, Units, Created
  <1>2. (collateral[m] + Liquidity) * Scale = b + 2 * Seed
    <2>1. (collateral[m] + Liquidity) * Scale = collateral[m] * Scale + Liquidity * Scale
      BY <1>1
    <2>2. b = collateral[m] * Scale - Liquidity * Scale
      BY <1>1
    <2>3. collateral[m] * Scale \in Int /\ Liquidity * Scale \in Int
      BY <1>1
    <2> HIDE DEF b
    <2>4. QED
      BY <2>1, <2>2, <2>3 DEF Seed
  <1>3. b \in Int
    BY <1>1
  <1>4. y + n + held[m].yes + held[m].no + kept[m] = b + 2 * Seed
    BY <1>2 DEF IInv, ShareLaw
  <1>5. 2 * (y * n) + Loss(trades) >= 2 * (Seed * Seed)
    BY DEF DriftLaw, K
  <1>6. Loss(trades) \in Nat /\ Seed \in Nat \ {0}
    BY <1>1, ReserveGrows, SeedType
  <1> HIDE DEF y, n, b
  <1>7. x \in Int /\ h <= b + x
    BY <1>1, <1>3, <1>4, <1>6
  <1>8. x <= Drift
    <2>1. CASE x < 0
      <3>1. Drift \in Nat
        BY DriftIsNatural DEF IInv, Books
      <3>2. QED
        BY <1>7, <2>1, <3>1
    <2>2. CASE x >= 0
      <3>1. x \in Nat /\ x = 2 * Seed - (y + n)
        BY <1>7, <2>2
      <3> HIDE DEF x
      <3>2. Seed * x <= Loss(trades)
        BY <1>1, <1>5, <1>6, <3>1, SumFromProduct
      <3>3. QED
        BY <1>1, <3>1, <3>2, ShortfallIsDrift DEF Drift
    <2>3. QED
      BY <1>7, <2>1, <2>2
  <1>9. Drift \in Nat
    BY DriftIsNatural DEF IInv, Books
  <1> HIDE DEF x, h
  <1>10. h <= b + Drift
    BY <1>1, <1>3, <1>7, <1>8, <1>9
  <1>11. QED
    BY <1>10 DEF h, b

LEMMA DriftLawAlways == Spec => [](IInv /\ DriftLaw)
  <1>1. IInv /\ DriftLaw /\ [Next]_tradingVars => (IInv /\ DriftLaw)'
    BY NextKeepsIInv, NextKeepsDrift
  <1>2. QED
    BY <1>1, InitIInv, InitDrift, PTL DEF Spec

\* After any trades, in any order and at any precision, the shares out are covered
\* by the collateral above the liquidity, but for the drift of the rounding.
THEOREM PoolSolventAlways == Spec => []PoolSolvent
  <1>1. IInv /\ DriftLaw => PoolSolvent
    BY LawsKeepSolvent
  <1>2. QED
    BY <1>1, DriftLawAlways, PTL

\* A point for every share of either side.  That follows while the drift of all
\* trades there may be is worth less than the liquidity.
WinnersPaid == \A m \in Created, s \in Sides : held[m][s] <= collateral[m] * Scale

DriftIsSmall == MaxTrades + (MaxTrades * MaxTrades * Max(Amounts)) \div Liquidity <= Seed

LEMMA DriftGrows ==
    ASSUME TradingTypeOK, trades <= MaxTrades, DriftIsSmall
    PROVE  Drift <= Seed
  <1> DEFINE A == Max(Amounts)
             t == trades
             T == MaxTrades
             now == (t * t * A) \div Liquidity
             last == (T * T * A) \div Liquidity
  <1>1. t \in Nat /\ T \in Nat /\ t <= T /\ A \in Nat /\ Liquidity \in Nat \ {0}
    BY ReserveGrows, TradingAssumption DEF TradingTypeOK
  <1>2. t * t * A <= T * T * A
    <2> HIDE DEF t, T, A
    <2>1. PICK d \in Nat : T = t + d
      <3>1. T - t \in Nat /\ T = t + (T - t)
        BY <1>1
      <3>2. QED
        BY <3>1
    <2>2. (t + d) * (t + d) * A = t * t * A + (2 * t * d + d * d) * A
      BY <1>1
    <2>3. t * t * A \in Nat /\ (2 * t * d + d * d) * A \in Nat
      BY <1>1
    <2>4. QED
      BY <2>1, <2>2, <2>3
  <1>3. t * t * A \in Nat /\ T * T * A \in Nat
    <2> HIDE DEF t, T, A
    <2>1. QED
      BY <1>1
  <1>4. now \in Nat /\ Liquidity * now <= t * t * A
    <2>1. now \in Nat /\ now * Liquidity <= t * t * A
      BY <1>1, <1>3, DivisionOfNaturals
    <2> HIDE DEF now
    <2>2. Liquidity * now = now * Liquidity
      BY <1>1, <2>1
    <2>3. QED
      BY <2>1, <2>2
  <1>5. last \in Nat /\ Liquidity \in Int
    BY <1>1, <1>3, DivisionOfNaturals
  <1>6. now <= last
    <2>1. Liquidity * now <= T * T * A
      <3> HIDE DEF now, t, T, A
      <3>1. Liquidity * now \in Int
        BY <1>1, <1>4
      <3>2. QED
        BY <1>2, <1>3, <1>4, <3>1
    <2> HIDE DEF now
    <2>2. QED
      BY <1>1, <1>3, <1>4, <2>1, DivisionBound
  <1>7. Drift = t + now
    BY DEF Drift
  <1>8. T + last <= Seed
    BY DEF DriftIsSmall
  <1> HIDE DEF now, last, t, T, A
  <1>9. QED
    BY <1>1, <1>4, <1>5, <1>6, <1>7, <1>8, SeedType

LEMMA HeldIsNatural ==
    ASSUME Books, NEW m \in Markets, NEW s \in Sides
    PROVE  held[m][s] \in Nat
  <1>1. SumFunction(Positions(m, s)) = held[m][s]
    BY DEF Books, SharesAreHeld, Positions
  <1>2. Positions(m, s) \in [Users -> Nat]
    BY PositionsType DEF Books
  <1>3. SumFunctionOnSet(Positions(m, s), Users) \in Nat
    BY <1>2, SumOfNaturals, FiniteAssumption
  <1>4. QED
    BY <1>1, <1>2, <1>3, FunctionSumIs

LEMMA SolventPaysWinners ==
    ASSUME IInv, PoolSolvent, trades <= MaxTrades, DriftIsSmall
    PROVE  WinnersPaid
  <1> SUFFICES ASSUME NEW m \in Created, NEW s \in Sides
               PROVE  held[m][s] <= collateral[m] * Scale
    BY DEF WinnersPaid
  <1>1. m \in Markets /\ Opposite(s) \in Sides
    BY DEF Created, Sides, Opposite
  <1>2. held[m][s] \in Nat /\ held[m][Opposite(s)] \in Nat
    BY <1>1, HeldIsNatural DEF IInv
  <1>3. held[m].yes + held[m].no = held[m][s] + held[m][Opposite(s)]
    BY <1>2 DEF Sides, Opposite
  <1>4. Drift <= Seed /\ Drift \in Nat
    BY DriftGrows, DriftIsNatural DEF IInv, Books
  <1>5. (collateral[m] - Liquidity) * Scale = collateral[m] * Scale - Seed
    BY <1>1, TradingAssumption, ScaleAssumption DEF IInv, Books, TradingTypeOK, Seed
  <1>6. collateral[m] * Scale \in Int
    BY <1>1, ScaleAssumption DEF IInv, Books, TradingTypeOK
  <1>7. held[m].yes + held[m].no <= collateral[m] * Scale - Seed + Drift
    BY <1>5 DEF PoolSolvent
  <1>8. QED
    BY <1>2, <1>3, <1>4, <1>6, <1>7, SeedType

LEMMA TradesBounded == Spec => [](trades <= MaxTrades)
  <1>1. Init => trades <= MaxTrades
    BY TradingAssumption DEF Init
  <1>2. TradingTypeOK /\ trades <= MaxTrades /\ [Next]_tradingVars => (trades <= MaxTrades)'
    <2> SUFFICES ASSUME TradingTypeOK, trades <= MaxTrades, [Next]_tradingVars
                 PROVE  trades' <= MaxTrades
      OBVIOUS
    <2>1. CASE UNCHANGED trades
      BY <2>1
    <2>2. ASSUME NEW m \in Markets, NEW u \in Users, TradeStep(u, m) PROVE trades' <= MaxTrades
      <3>1. MayTrade(u, m)
        BY <2>2 DEF TradeStep, Buy, Sell
      <3>2. QED
        BY <3>1, TradingAssumption DEF MayTrade, TradingTypeOK
    <2>3. ASSUME NEW m \in Markets,
                 SettleStep(m) \/ \E u \in Users : Create(m, u) \/ CreateShadow(m, u)
          PROVE  UNCHANGED trades
      BY <2>3 DEF SettleStep, EndTrading, PayoutCancelled, PayoutSide, MarkPaid, Overturn,
                  Create, CreateShadow, InsertMarket
    <2>4. CASE UNCHANGED tradingVars
      BY <2>1, <2>4 DEF tradingVars
    <2>5. QED
      BY <2>1, <2>2, <2>3, <2>4 DEF Next
  <1>3. QED
    BY <1>1, <1>2, TradingTypeCorrect, PTL DEF Spec

\* A winning share never pays less than a point, whichever side wins and whatever
\* the trades were, while the rounding of all of them is worth less than the
\* liquidity (float64 rounds far below that).
THEOREM WinnersPaidAlways ==
    ASSUME DriftIsSmall
    PROVE  Spec => []WinnersPaid
  <1>1. IInv /\ PoolSolvent /\ trades <= MaxTrades => WinnersPaid
    BY SolventPaysWinners
  <1>2. QED
    BY <1>1, IInvAlways, PoolSolventAlways, TradesBounded, PTL

-----------------------------------------------------------------------------
(* Quotes.  Both roundings, that of the reserve a purchase leaves and that *)
(* of the reserve the quote asks for, are together worth less than a point *)
(* as long as a unit is small for the most lopsided pool there may be.     *)

LEMMA DivisionIsFloor ==
    ASSUME NEW n \in Int, NEW d \in Nat \ {0}
    PROVE  n \div d \in Int /\ (n \div d) * d <= n /\ n < (n \div d + 1) * d
  BY Z3

LEMMA Distributes ==
    ASSUME NEW a \in Int, NEW b \in Int, NEW c \in Int
    PROVE  (a + b) * c = a * c + b * c
  OBVIOUS

LEMMA QuotientIsWithin ==
    ASSUME NEW n \in Nat, NEW d \in Nat \ {0}
    PROVE  2 * (Quotient(n, d) * d) <= 2 * n + d
  <1> DEFINE q == (2 * n + d) \div (2 * d)
  <1>1. q \in Int /\ q * (2 * d) <= 2 * n + d
    BY Z3
  <1> HIDE DEF q
  <1>2. q * (2 * d) = 2 * (q * d)
    BY <1>1
  <1>3. QED
    BY <1>1, <1>2 DEF q, Quotient

\* The quotient of a quotient is the first divisor again, give or take scale - 1.
LEMMA QuotientBack ==
    ASSUME NEW k \in Nat, NEW grown \in Nat \ {0}, NEW left \in Nat \ {0},
           left = Quotient(k, grown),
           NEW scale \in Nat \ {0}, grown <= 2 * (left * (scale - 1))
    PROVE  Quotient(k, left) - grown \in -(scale - 1) .. (scale - 1)
  <1> DEFINE x == left * grown
             e == left * (scale - 1)
             q == (2 * k + left) \div (2 * left)
  <1>1. x \in Nat /\ e \in Nat
    BY Z3
  <1>2. 2 * x >= 2 * k - grown /\ 2 * x <= 2 * k + grown
    BY QuotientIsNear, QuotientIsWithin
  <1>3. /\ q \in Int /\ q * (2 * left) <= 2 * k + left
        /\ 2 * k + left < (q + 1) * (2 * left)
    <2>1. 2 * k + left \in Int /\ 2 * left \in Nat \ {0}
      OBVIOUS
    <2>2. QED
      BY <2>1, DivisionIsFloor
  <1>4. /\ (grown + scale) * (2 * left) = 2 * x + 2 * e + 2 * left
        /\ (grown - (scale - 1)) * (2 * left) = 2 * x - 2 * e
    <2>1. /\ x = grown * left
          /\ e = scale * left - left
      OBVIOUS
    <2>2. (grown + scale) * (2 * left) = 2 * (grown * left) + 2 * (scale * left)
      <3>1. (grown + scale) * (2 * left) = grown * (2 * left) + scale * (2 * left)
        <4>1. 2 * left \in Int
          OBVIOUS
        <4>2. QED
          BY <4>1, Distributes
      <3>2. grown * (2 * left) = 2 * (grown * left) /\ scale * (2 * left) = 2 * (scale * left)
        OBVIOUS
      <3>3. QED
        BY <3>1, <3>2
    <2>3. (grown - (scale - 1)) * (2 * left)
            = 2 * (grown * left) - 2 * (scale * left) + 2 * left
      OBVIOUS
    <2>4. grown * left \in Int /\ scale * left \in Int
      OBVIOUS
    <2> HIDE DEF x, e
    <2>5. QED
      BY <2>1, <2>2, <2>3, <2>4
  <1> HIDE DEF x, e, q
  <1>5. q < grown + scale
    <2>1. 2 * k + left < (grown + scale) * (2 * left)
      BY <1>1, <1>2, <1>4 DEF e
    <2>2. SUFFICES ASSUME q >= grown + scale PROVE FALSE
      BY <1>3
    <2>3. q * (2 * left) >= (grown + scale) * (2 * left)
      BY <1>3, <2>2, Z3
    <2>4. QED
      BY <1>1, <1>3, <1>4, <2>1, <2>3
  <1>6. q + 1 > grown - (scale - 1)
    <2>1. 2 * k + left > (grown - (scale - 1)) * (2 * left)
      BY <1>1, <1>2, <1>4 DEF e
    <2>2. SUFFICES ASSUME q + 1 <= grown - (scale - 1) PROVE FALSE
      BY <1>3
    <2>3. (q + 1) * (2 * left) <= (grown - (scale - 1)) * (2 * left)
      BY <1>3, <2>2, Z3
    <2>4. (q + 1) * (2 * left) \in Int
      BY <1>3
    <2>5. QED
      BY <1>1, <1>3, <1>4, <2>1, <2>3, <2>4
  <1>7. QED
    BY <1>3, <1>5, <1>6 DEF q, Quotient

\* Rounding up to points makes of a number of points, give or take scale - 1 units,
\* that number or one more.
LEMMA RoundedUp ==
    ASSUME NEW c \in Nat, NEW scale \in Nat \ {0}, NEW e \in -(scale - 1) .. (scale - 1)
    PROVE  (c * scale + e + scale - 1) \div scale \in {c, c + 1}
  <1> DEFINE n == c * scale + e + scale - 1
             q == n \div scale
  <1>1. n \in Int /\ n >= c * scale /\ n < (c + 2) * scale /\ c * scale \in Int
    BY Z3
  <1> HIDE DEF n
  <1>2. q \in Int /\ q * scale <= n /\ n < (q + 1) * scale
    BY <1>1, Z3
  <1> HIDE DEF q
  <1>3. c < q + 1
    BY <1>1, <1>2, Z3
  <1>4. q < c + 2
    BY <1>1, <1>2, Z3
  <1>5. QED
    BY <1>2, <1>3, <1>4 DEF n, q

\* The largest reserve there can be is small enough for the unit, and for what its
\* trades leave of the product.
QuotesArePrecise ==
    Reserve(MaxTrades + 1) * Reserve(MaxTrades + 1)
        <= (2 * (Seed * Seed) - Loss(MaxTrades + 1)) * (Scale - 1)

LEMMA ReserveMonotonic ==
    ASSUME NEW t \in Nat, NEW T \in Nat, t <= T
    PROVE  Reserve(t) <= Reserve(T) /\ Loss(t) <= Loss(T)
  <1> DEFINE A == Max(Amounts)
             a == Liquidity + t * A
  <1>1. A \in Nat /\ Liquidity \in Nat /\ Scale \in Nat
    BY ReserveGrows, TradingAssumption, ScaleAssumption
  <1>2. PICK d \in Nat : T = t + d
    <2>1. T - t \in Nat /\ T = t + (T - t)
      OBVIOUS
    <2>2. QED
      BY <2>1
  <1> HIDE DEF A
  <1>3. a \in Nat /\ Liquidity + T * A = a + d * A /\ d * A \in Nat
    BY <1>1, <1>2
  <1>4. Reserve(t) = a * Scale /\ Reserve(T) = (a + d * A) * Scale
    BY <1>3 DEF Reserve, A
  <1> HIDE DEF a
  <1>5. (a + d * A) * Scale = a * Scale + (d * A) * Scale
    BY <1>1, <1>3
  <1>6. a * Scale \in Nat /\ (d * A) * Scale \in Nat
    BY <1>1, <1>3
  <1>7. Reserve(t) \in Nat /\ Reserve(T) \in Nat /\ Reserve(t) <= Reserve(T)
    BY <1>4, <1>5, <1>6
  <1>8. (t + d) * Reserve(T) = t * Reserve(T) + d * Reserve(T) /\ d * Reserve(T) \in Nat
    BY <1>7
  <1>9. t * Reserve(t) <= t * Reserve(T) /\ t * Reserve(t) \in Nat /\ t * Reserve(T) \in Nat
    BY <1>7, Z3
  <1>10. QED
    BY <1>2, <1>7, <1>8, <1>9 DEF Loss

LEMMA QuoteOfPurchase ==
    ASSUME IInv, DriftLaw, trades <= MaxTrades, QuotesArePrecise,
           NEW m \in Created, NEW s \in Sides, NEW c \in Amounts
    PROVE  CostForShares(pool[m], s, Bought(pool[m], s, c).shares) \in {c, c + 1}
  <1> DEFINE p == pool[m]
             k == K(p)
             other == p[Opposite(s)]
             grown == other + c * Scale
             left == Quotient(k, grown)
             R == Reserve(MaxTrades + 1)
             D == 2 * (Seed * Seed) - Loss(MaxTrades + 1)
  <1>1. /\ m \in Markets /\ p \in Units /\ s \in Sides /\ Opposite(s) \in Sides
        /\ trades \in Nat /\ MaxTrades \in Nat /\ c \in Nat \ {0} /\ Scale \in Nat \ {0}
        /\ c * Scale \in Nat \ {0}
    BY TradingAssumption, ScaleAssumption, UnitsOfAmount
       DEF IInv, Books, TradingTypeOK, Created, Sides, Opposite
  <1>2. p[s] \in Nat /\ other \in Nat /\ k \in Nat
    BY <1>1 DEF Units, Sides, Opposite, K
  <1>3. other <= Reserve(trades) /\ 2 * k + Loss(trades) >= 2 * (Seed * Seed)
    BY <1>1 DEF DriftLaw
  <1>4. /\ R * R <= D * (Scale - 1)
    BY DEF QuotesArePrecise
  <1> HIDE DEF p, k, other
  <1>5. grown \in Nat \ {0}
    BY <1>1, <1>2
  <1>6. left \in Nat /\ 2 * (left * grown) >= 2 * k - grown
    BY <1>2, <1>5, QuotientIsNatural, QuotientIsNear
  <1>7. /\ Reserve(trades) \in Nat /\ Reserve(trades + 1) \in Nat
        /\ Loss(trades) \in Nat /\ Loss(trades + 1) \in Nat
        /\ Reserve(trades + 1) = Reserve(trades) + Max(Amounts) * Scale
        /\ Loss(trades + 1) >= Loss(trades) + Reserve(trades + 1)
        /\ c <= Max(Amounts) /\ Max(Amounts) \in Nat
        /\ R \in Nat /\ Loss(MaxTrades + 1) \in Nat
    BY <1>1, ReserveGrows
  <1>8. Reserve(trades + 1) <= R /\ Loss(trades + 1) <= Loss(MaxTrades + 1)
    BY <1>1, ReserveMonotonic
  <1> HIDE DEF R
  <1>9. grown <= Reserve(trades + 1)
    <2>1. c * Scale <= Max(Amounts) * Scale /\ Max(Amounts) * Scale \in Nat
      BY <1>1, <1>7, Z3
    <2>2. QED
      BY <1>1, <1>2, <1>3, <1>7, <2>1
  <1> HIDE DEF grown, left
  <1>10. left * grown \in Nat /\ D \in Int /\ 2 * (left * grown) >= D
    <2>1. left * grown \in Nat
      BY <1>5, <1>6
    <2>2. QED
      BY <1>2, <1>3, <1>5, <1>6, <1>7, <1>8, <1>9, <2>1, SeedType
  <1> HIDE DEF D
  <1>11. grown * grown <= R * R /\ grown * grown \in Nat /\ R * R \in Nat
    BY <1>5, <1>7, <1>8, <1>9, Z3
  <1>12. D * (Scale - 1) <= 2 * (left * grown) * (Scale - 1)
    BY <1>1, <1>10, Z3
  <1>13. 2 * (left * grown) * (Scale - 1) = (2 * (left * (Scale - 1))) * grown
    BY <1>1, <1>5, <1>6, Z3
  <1>14. grown * grown <= (2 * (left * (Scale - 1))) * grown
    <2>1. D * (Scale - 1) \in Int /\ 2 * (left * grown) * (Scale - 1) \in Int
      BY <1>1, <1>10
    <2>2. QED
      BY <1>4, <1>11, <1>12, <1>13, <2>1
  <1>15. 2 * (left * (Scale - 1)) \in Nat
    BY <1>1, <1>6, Z3
  <1>16. grown <= 2 * (left * (Scale - 1))
    BY <1>5, <1>14, <1>15, CancelFactor
  <1>17. left # 0
    BY <1>5, <1>16, <1>1, Z3
  <1>18. Quotient(k, left) - grown \in -(Scale - 1) .. (Scale - 1)
    BY <1>1, <1>2, <1>5, <1>6, <1>16, <1>17, QuotientBack DEF left
  <1> DEFINE e == Quotient(k, left) - grown
  <1>19. (c * Scale + e + Scale - 1) \div Scale \in {c, c + 1}
    BY <1>1, <1>18, RoundedUp
  <1>20. Bought(p, s, c).shares = p[s] - left
    BY DEF Bought, left, grown, k, other
  <1>21. Quotient(k, left) \in Nat
    BY <1>2, <1>6, <1>17, QuotientIsNatural
  <1>22. p[s] - (p[s] - left) = left
    BY <1>2, <1>6
  <1>23. Quotient(k, left) - other + Scale - 1 = c * Scale + e + Scale - 1
    BY <1>1, <1>2, <1>21 DEF grown
  <1>24. CostForShares(p, s, Bought(p, s, c).shares)
           = (Quotient(k, left) - other + Scale - 1) \div Scale
    BY <1>20, <1>22 DEF CostForShares, k, other
  <1>25. QED
    BY <1>19, <1>23, <1>24 DEF p

\* The quote for the shares that a cost buys is that cost, or a point more, in every
\* pool that trading reaches: the two roundings never add up to a point, as long as
\* units are fine enough for the trades there may be (float64 is far finer).
THEOREM QuoteMatchesTradeAlways ==
    ASSUME QuotesArePrecise
    PROVE  Spec => []QuoteMatchesTrade
  <1>1. IInv /\ DriftLaw /\ trades <= MaxTrades => QuoteMatchesTrade
    BY QuoteOfPurchase DEF QuoteMatchesTrade
  <1>2. QED
    BY <1>1, DriftLawAlways, TradesBounded, PTL
=============================================================================
