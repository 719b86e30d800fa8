------------------------- MODULE BinaryTradingProofs -------------------------
(***************************************************************************)
(* Proofs about the books of BinaryTrading, positions, costs, collateral,  *)
(* balances and payouts, for any users, markets, amounts, liquidity and    *)
(* precision.  PoolProofs is about its pools and prices.                   *)
(***************************************************************************)
EXTENDS BinaryTrading, SumProofs, TLAPS

-----------------------------------------------------------------------------
(* The arithmetic of the market maker                                      *)

LEMMA DivisionOfNaturals ==
    ASSUME NEW n \in Nat, NEW d \in Nat \ {0}
    PROVE  n \div d \in Nat /\ (n \div d) * d <= n
  BY Z3

LEMMA QuotientIsNatural ==
    ASSUME NEW n \in Nat, NEW d \in Nat \ {0}
    PROVE  Quotient(n, d) \in Nat
  <1>1. 2 * n + d \in Nat /\ 2 * d \in Nat \ {0}
    OBVIOUS
  <1>2. QED
    BY <1>1, DivisionOfNaturals DEF Quotient

\* Truncation keeps something from a seller, never the other way round.
LEMMA TruncatedBelow ==
    ASSUME NEW n \in Nat, NEW d \in Nat \ {0}, NEW q \in Truncated(n, d)
    PROVE  q \in Nat /\ q * d \in Nat /\ q * d <= n
  <1>1. n \div d \in Nat /\ (n \div d) * d \in Nat /\ (n \div d) * d <= n
    BY DivisionOfNaturals
  <1>2. CASE q = n \div d
    BY <1>1, <1>2
  <1>3. CASE q = n \div d - 1 /\ q >= 0
    <2>1. q \in Nat
      BY <1>1, <1>3
    <2>2. q * d \in Nat
      BY <2>1
    <2>3. (n \div d) * d = (q + 1) * d
      BY <1>1, <1>3, <2>1
    <2>4. (q + 1) * d = q * d + d
      BY <2>1
    <2>5. QED
      BY <1>1, <2>1, <2>2, <2>3, <2>4
  <1>4. QED
    BY <1>2, <1>3 DEF Truncated

LEMMA CancelFactor ==
    ASSUME NEW a \in Int, NEW b \in Int, NEW k \in Nat \ {0}, a * k <= b * k
    PROVE  a <= b
  <1>1. SUFFICES ASSUME b < a PROVE FALSE
    OBVIOUS
  <1>2. PICK d \in Nat : a = b + 1 + d
    <2>1. a - (b + 1) \in Nat /\ a = b + 1 + (a - (b + 1))
      BY <1>1
    <2>2. QED
      BY <2>1
  <1>3. (b + 1 + d) * k = b * k + k + d * k /\ d * k \in Nat /\ b * k \in Int
    OBVIOUS
  <1>4. QED
    BY <1>2, <1>3

LEMMA UnitsOfAmount ==
    ASSUME NEW a \in Nat \ {0}
    PROVE  a * Scale \in Nat \ {0}
  BY ScaleAssumption

\* What a buyer pays is what the reserves grow by, together with the shares.
LEMMA BuyingMovesReserves ==
    ASSUME NEW p \in Units, NEW s \in Sides, NEW a \in Nat \ {0}
    PROVE  /\ Bought(p, s, a).shares \in Int
           /\ Bought(p, s, a).pool \in Units
           /\ Bought(p, s, a).pool.yes + Bought(p, s, a).pool.no + Bought(p, s, a).shares
                = p.yes + p.no + a * Scale
  <1> DEFINE grown == p[Opposite(s)] + a * Scale
             left == Quotient(K(p), grown)
  <1>1. p.yes \in Nat /\ p.no \in Nat /\ p[s] \in Nat /\ p[Opposite(s)] \in Nat
    BY DEF Units, Sides, Opposite
  <1>2. grown \in Nat \ {0}
    BY <1>1, UnitsOfAmount
  <1>3. K(p) \in Nat
    BY <1>1 DEF K
  <1>4. left \in Nat
    BY <1>2, <1>3, QuotientIsNatural
  <1>5. Bought(p, s, a) =
          [shares |-> p[s] - left, pool |-> [p EXCEPT ![Opposite(s)] = grown, ![s] = left]]
    BY DEF Bought
  <1> HIDE DEF left
  <1>6. CASE s = "yes"
    BY <1>1, <1>2, <1>4, <1>5, <1>6, UnitsOfAmount DEF Units, Opposite
  <1>7. CASE s = "no"
    BY <1>1, <1>2, <1>4, <1>5, <1>7, UnitsOfAmount DEF Units, Opposite
  <1>8. QED
    BY <1>6, <1>7 DEF Sides

\* What a seller gets, before truncation, is what the reserves lose besides.
LEMMA SellingMovesReserves ==
    ASSUME NEW p \in Units, NEW s \in Sides, NEW a \in Nat \ {0}
    PROVE  /\ Sold(p, s, a).proceeds \in Int
           /\ Sold(p, s, a).pool \in Units
           /\ Sold(p, s, a).pool.yes + Sold(p, s, a).pool.no + Sold(p, s, a).proceeds
                = p.yes + p.no + a * Scale
  <1> DEFINE grown == p[s] + a * Scale
             left == Quotient(K(p), grown)
  <1>1. p.yes \in Nat /\ p.no \in Nat /\ p[s] \in Nat /\ p[Opposite(s)] \in Nat
    BY DEF Units, Sides, Opposite
  <1>2. grown \in Nat \ {0}
    BY <1>1, UnitsOfAmount
  <1>3. K(p) \in Nat
    BY <1>1 DEF K
  <1>4. left \in Nat
    BY <1>2, <1>3, QuotientIsNatural
  <1>5. Sold(p, s, a) =
          [proceeds |-> p[Opposite(s)] - left,
           pool |-> [p EXCEPT ![s] = grown, ![Opposite(s)] = left]]
    BY DEF Sold
  <1> HIDE DEF left
  <1>6. CASE s = "yes"
    BY <1>1, <1>2, <1>4, <1>5, <1>6, UnitsOfAmount DEF Units, Opposite
  <1>7. CASE s = "no"
    BY <1>1, <1>2, <1>4, <1>5, <1>7, UnitsOfAmount DEF Units, Opposite
  <1>8. QED
    BY <1>6, <1>7 DEF Sides

-----------------------------------------------------------------------------
(* The inductive invariant.  Nobody can have traded in a market before it  *)
(* exists, so a creator starts without shares, and no market is paid while *)
(* it trades.  Books does not mention the reserves but for their type: it  *)
(* also holds of markets whose options are traded.                         *)

Untouched ==
    \A m \in Markets : stage[m] = "none" =>
        /\ held[m] = NoShares
        /\ kept[m] = 0
        /\ \A u \in Users : shares[u][m] = NoShares /\ spent[u][m] = 0

\* The refund takes one row for each user: the creator has no other.
CreatorNeverTrades ==
    \A m \in Created : LET c == creator[m] IN shares[c][m] = NoShares /\ spent[c][m] = 0

CreatorKnown == \A m \in Created : creator[m] \in Users

Unpaid == \A m \in Markets : stage[m] \in {"none", "open"} => payouts[m] = 0

ShadowsCreated == shadow \subseteq Created

Positions(m, s) == [u \in Users |-> shares[u][m][s]]
Costs(m) == [u \in Users |-> spent[u][m]]

\* The ledger of a market adds up to what trading added to its collateral.
SpentLaw == \A m \in Created : SumFunction(Costs(m)) = collateral[m] - Liquidity

Books ==
    /\ TradingTypeOK
    /\ Untouched
    /\ CreatorKnown
    /\ Unpaid
    /\ ShadowsCreated
    /\ CreatorNeverTrades
    /\ SharesAreHeld
    /\ SpentLaw

IInv == Books /\ ShareLaw

LEMMA PositionsType ==
    ASSUME TradingTypeOK, NEW m \in Markets, NEW s \in Sides
    PROVE  Positions(m, s) \in [Users -> Nat] /\ Positions(m, s) \in [Users -> Int]
  BY DEF Positions, TradingTypeOK, Units, Sides

LEMMA CostsType ==
    ASSUME TradingTypeOK, NEW m \in Markets
    PROVE  Costs(m) \in [Users -> Int]
  BY DEF Costs, TradingTypeOK

LEMMA InitIInv == Init => IInv
  <1> SUFFICES ASSUME Init PROVE IInv
    OBVIOUS
  <1>1. TradingTypeOK
    BY TradingAssumption DEF Init, TradingTypeOK, Units, NoShares
  <1>2. Created = {}
    BY DEF Init, Created
  <1>3. Untouched /\ Unpaid /\ ShadowsCreated
    BY <1>2 DEF Init, Untouched, Unpaid, ShadowsCreated
  <1>4. SharesAreHeld
    <2>1. ASSUME NEW m \in Markets, NEW s \in Sides
          PROVE  SumFunction(Positions(m, s)) = held[m][s]
      <3>1. held[m][s] = 0 /\ DOMAIN Positions(m, s) = Users
        BY DEF Init, Positions, NoShares, Sides
      <3>2. \A u \in Users : Positions(m, s)[u] = 0
        BY DEF Init, Positions, NoShares, Sides
      <3>3. QED
        BY <3>1, <3>2, FunctionSumZero, FiniteAssumption
    <2>2. QED
      BY <2>1 DEF SharesAreHeld, Positions
  <1>5. QED
    BY <1>1, <1>2, <1>3, <1>4
       DEF IInv, Books, CreatorKnown, CreatorNeverTrades, SpentLaw, ShareLaw

-----------------------------------------------------------------------------
(* Steps that leave the shares alone                                       *)

LEMMA CreateKeepsIInv ==
    ASSUME Books, NEW m \in Markets, NEW u \in Users, InsertMarket(m, u),
           shadow' \subseteq shadow \cup {m}
    PROVE  Books' /\ (ShareLaw => ShareLaw')
  <1> USE DEF Books
  <1>1. TradingTypeOK'
    <2>1. Liquidity * Scale \in Nat
      BY TradingAssumption, ScaleAssumption
    <2>2. New(Liquidity) \in Units
      BY <2>1 DEF New, Units
    <2>3. QED
      BY <2>2, TradingAssumption DEF TradingTypeOK, InsertMarket
  <1>2. Created' = Created \cup {m} /\ m \notin Created
    BY DEF Created, InsertMarket, TradingTypeOK
  <1>3. Untouched' /\ Unpaid'
    BY DEF Untouched, Unpaid, InsertMarket, TradingTypeOK
  <1>4. CreatorKnown' /\ ShadowsCreated'
    BY <1>2 DEF CreatorKnown, ShadowsCreated, InsertMarket, TradingTypeOK
  <1>5. UNCHANGED <<shares, spent, held, kept>>
    BY DEF InsertMarket
  <1>6. CreatorNeverTrades'
    <2>1. shares[u][m] = NoShares /\ spent[u][m] = 0
      BY DEF Untouched, InsertMarket
    <2>2. \A n \in Markets : creator'[n] = IF n = m THEN u ELSE creator[n]
      BY DEF InsertMarket, TradingTypeOK
    <2>3. QED
      BY <1>2, <1>5, <2>1, <2>2 DEF CreatorNeverTrades, Created
  <1>7. \A n \in Markets : /\ pool'[n] = IF n = m THEN New(Liquidity) ELSE pool[n]
                           /\ collateral'[n] = IF n = m THEN Liquidity ELSE collateral[n]
    BY DEF InsertMarket, TradingTypeOK
  <1>8. SharesAreHeld'
    BY <1>5 DEF SharesAreHeld
  <1>9. SpentLaw'
    <2>1. SumFunction(Costs(m)) = 0
      <3>1. DOMAIN Costs(m) = Users /\ \A v \in Users : Costs(m)[v] = 0
        BY DEF Costs, Untouched, InsertMarket
      <3>2. QED
        BY <3>1, FunctionSumZero, FiniteAssumption
    <2>2. \A n \in Markets : Costs(n)' = Costs(n)
      BY <1>5 DEF Costs
    <2>3. Liquidity - Liquidity = 0
      BY TradingAssumption
    <2>4. ASSUME NEW n \in Created' PROVE SumFunction(Costs(n)') = collateral'[n] - Liquidity
      <3>1. CASE n = m
        BY <1>7, <2>1, <2>2, <2>3, <3>1
      <3>2. CASE n # m
        <4>1. n \in Created
          BY <1>2, <2>4, <3>2
        <4>2. SumFunction(Costs(n)) = collateral[n] - Liquidity
          BY <4>1 DEF SpentLaw
        <4>3. collateral'[n] = collateral[n] /\ Costs(n)' = Costs(n)
          BY <1>7, <2>2, <3>2, <4>1 DEF Created
        <4>4. QED
          BY <4>2, <4>3
      <3>3. QED
        BY <3>1, <3>2
    <2>5. QED
      BY <2>4 DEF SpentLaw
  <1>10. ASSUME ShareLaw PROVE ShareLaw'
    <2>1. held[m] = NoShares /\ kept[m] = 0
      BY DEF Untouched, InsertMarket
    <2>2. Liquidity * Scale \in Nat /\ (Liquidity + Liquidity) * Scale = Liquidity * Scale + Liquidity * Scale
      BY TradingAssumption, ScaleAssumption
    <2>3. pool'[m].yes + pool'[m].no + held'[m].yes + held'[m].no + kept'[m]
            = (collateral'[m] + Liquidity) * Scale
      BY <1>5, <1>7, <2>1, <2>2 DEF New, NoShares
    <2>4. ASSUME NEW n \in Created', n # m
          PROVE  pool'[n].yes + pool'[n].no + held'[n].yes + held'[n].no + kept'[n]
                   = (collateral'[n] + Liquidity) * Scale
      BY <1>2, <1>5, <1>7, <1>10, <2>4 DEF ShareLaw, Created
    <2>5. QED
      BY <2>3, <2>4 DEF ShareLaw
  <1>11. QED
    BY <1>1, <1>3, <1>4, <1>6, <1>8, <1>9, <1>10

\* Settlement moves balances, stages and payouts only, and creates nothing.
LEMMA SettlementKeepsIInv ==
    ASSUME Books, TradingTypeOK', Unpaid', Created' = Created,
           UNCHANGED <<creator, shadow, poolVars, shares, spent>>
    PROVE  Books' /\ (ShareLaw => ShareLaw')
  <1> USE DEF poolVars, Books
  <1>1. Untouched'
    <2>1. \A m \in Markets : stage'[m] = "none" => stage[m] = "none"
      BY DEF Created
    <2>2. QED
      BY <2>1 DEF Untouched
  <1>2. CreatorKnown' /\ CreatorNeverTrades' /\ ShadowsCreated'
    BY DEF CreatorKnown, CreatorNeverTrades, ShadowsCreated
  <1>3. SharesAreHeld' /\ SpentLaw'
    BY DEF SharesAreHeld, SpentLaw, Costs
  <1>4. ShareLaw => ShareLaw'
    BY DEF ShareLaw
  <1>5. QED
    BY <1>1, <1>2, <1>3, <1>4

LEMMA MarkPaidKeepsIInv ==
    ASSUME Books, NEW m \in Markets, MarkPaid(m)
    PROVE  Books' /\ (ShareLaw => ShareLaw')
  <1>1. /\ stage \in [Markets -> {"none", "open", "over", "paid"}]
        /\ payouts \in [Markets -> Nat]
        /\ stage[m] = "over"
        /\ stage' = [stage EXCEPT ![m] = "paid"]
        /\ payouts' = [payouts EXCEPT ![m] = @ + 1]
        /\ UNCHANGED <<creator, shadow, pool, collateral, held, kept, shares, spent, trades>>
    BY DEF Books, TradingTypeOK, MarkPaid, poolVars
  <1>2. Created' = Created
    BY <1>1 DEF Created
  <1>3. TradingTypeOK'
    <2>1. stage' \in [Markets -> {"none", "open", "over", "paid"}] /\ payouts' \in [Markets -> Nat]
      BY <1>1
    <2>2. QED
      BY <1>1, <2>1 DEF Books, TradingTypeOK
  <1>4. Unpaid'
    BY <1>1 DEF Books, Unpaid
  <1>5. QED
    BY <1>1, <1>2, <1>3, <1>4, SettlementKeepsIInv DEF poolVars

LEMMA SettleStepKeepsIInv ==
    ASSUME Books, NEW m \in Markets, SettleStep(m)
    PROVE  Books' /\ (ShareLaw => ShareLaw')
  <1> USE DEF poolVars, books
  <1>1. CASE EndTrading(m) \/ Overturn(m)
    <2>1. TradingTypeOK' /\ Created' = Created
      BY <1>1 DEF Books, TradingTypeOK, Created, EndTrading, Overturn
    <2>2. Unpaid'
      BY <1>1 DEF Books, TradingTypeOK, Unpaid, EndTrading, Overturn
    <2>3. QED
      BY <1>1, <2>1, <2>2, SettlementKeepsIInv DEF EndTrading, Overturn
  <1>2. CASE MarkPaid(m)
    BY <1>2, MarkPaidKeepsIInv
  <1>3. QED
    BY <1>1, <1>2 DEF SettleStep, PayoutCancelled, PayoutSide

-----------------------------------------------------------------------------
(* Trades                                                                  *)

\* A trade of user u on side s of market m that costs cost points, moves units
\* shares and leaves extra units with the pool: its effect but for the balance.
TradeEffect(u, m, s, cost, units, extra) ==
    /\ MayTrade(u, m)
    /\ collateral' = [collateral EXCEPT ![m] = @ + cost]
    /\ spent' = [spent EXCEPT ![u][m] = @ + cost]
    /\ MoveShares(u, m, s, units)
    /\ kept' = [kept EXCEPT ![m] = @ + extra]
    /\ UNCHANGED market

LEMMA TradeKeepsBooks ==
    ASSUME Books,
           NEW m \in Markets, NEW u \in Users, NEW s \in Sides,
           NEW cost \in Int, NEW units \in Int, NEW extra \in Nat, NEW next \in Units,
           TradeEffect(u, m, s, cost, units, extra),
           pool' = [pool EXCEPT ![m] = next],
           shares[u][m][s] + units >= 0
    PROVE  Books'
  <1> USE DEF TradeEffect, market
  <1>1. /\ pool \in [Markets -> Units]
        /\ shares \in [Users -> [Markets -> Units]]
        /\ held \in [Markets -> [yes : Int, no : Int]]
        /\ kept \in [Markets -> Nat]
        /\ collateral \in [Markets -> Int]
        /\ spent \in [Users -> [Markets -> Int]]
    BY DEF Books, TradingTypeOK
  <1>2. /\ stage[m] = "open" /\ creator[m] # u /\ m \in Created
        /\ Created' = Created /\ UNCHANGED <<stage, creator>>
    BY DEF MayTrade, Created
  <1>3. /\ shares' = [shares EXCEPT ![u][m][s] = @ + units]
        /\ held' = [held EXCEPT ![m][s] = @ + units]
    BY DEF MoveShares
  <1>4. /\ collateral' = [collateral EXCEPT ![m] = @ + cost]
        /\ spent' = [spent EXCEPT ![u][m] = @ + cost]
    OBVIOUS
  <1>5. \A v \in Users, n \in Markets : v # u \/ n # m =>
          shares'[v][n] = shares[v][n] /\ spent'[v][n] = spent[v][n]
    BY <1>1, <1>3, <1>4
  <1>6. TradingTypeOK'
    <2>1. shares' \in [Users -> [Markets -> Units]]
      <3>1. shares[u][m] \in [yes : Nat, no : Nat] /\ s \in {"yes", "no"}
        BY <1>1 DEF Units, Sides
      <3>2. [shares[u][m] EXCEPT ![s] = @ + units] \in Units
        BY <3>1 DEF Units
      <3>3. shares' = [shares EXCEPT ![u] = [shares[u] EXCEPT ![m] =
                         [shares[u][m] EXCEPT ![s] = @ + units]]]
        BY <1>1, <1>3
      <3>4. QED
        BY <1>1, <3>2, <3>3
    <2>2. held' \in [Markets -> [yes : Int, no : Int]]
      <3>1. held[m] \in [yes : Int, no : Int] /\ s \in {"yes", "no"}
        BY <1>1 DEF Sides
      <3>2. [held[m] EXCEPT ![s] = @ + units] \in [yes : Int, no : Int]
        BY <3>1
      <3>3. held' = [held EXCEPT ![m] = [held[m] EXCEPT ![s] = @ + units]]
        BY <1>1, <1>3
      <3>4. QED
        BY <1>1, <3>2, <3>3
    <2>3. pool' \in [Markets -> Units] /\ kept' \in [Markets -> Nat]
      BY <1>1
    <2>4. collateral' \in [Markets -> Int] /\ spent' \in [Users -> [Markets -> Int]]
      BY <1>1, <1>4
    <2>5. trades' \in Nat
      BY DEF MayTrade, Books, TradingTypeOK
    <2>6. UNCHANGED <<stage, creator, shadow, payouts>>
      OBVIOUS
    <2>7. QED
      BY <2>1, <2>2, <2>3, <2>4, <2>5, <2>6 DEF Books, TradingTypeOK
  <1>7. Untouched' /\ Unpaid' /\ ShadowsCreated'
    BY <1>1, <1>2, <1>3, <1>5 DEF Books, Untouched, Unpaid, ShadowsCreated
  <1>8. CreatorKnown'
    BY <1>2 DEF Books, CreatorKnown
  <1>9. CreatorNeverTrades'
    BY <1>2, <1>5 DEF Books, CreatorNeverTrades, CreatorKnown, Created
  <1>10. SharesAreHeld'
    <2>1. ASSUME NEW n \in Markets, NEW t \in Sides
          PROVE  SumFunction(Positions(n, t)') = held'[n][t]
      <3>1. SumFunction(Positions(n, t)) = held[n][t]
        BY DEF Books, SharesAreHeld, Positions
      <3>2. CASE n = m /\ t = s
        <4>1. Positions(n, t) \in [Users -> Int] /\ Positions(n, t)' \in [Users -> Int]
          BY <1>6, PositionsType DEF Books, Positions, TradingTypeOK, Units, Sides
        <4>2. \A v \in Users \ {u} : Positions(n, t)'[v] = Positions(n, t)[v]
          BY <1>5 DEF Positions
        <4>3. Positions(n, t)'[u] = Positions(n, t)[u] + units
          BY <1>1, <1>3, <3>2 DEF Positions, Units, Sides
        <4>4. SumFunction(Positions(n, t)')
                = SumFunction(Positions(n, t)) + (Positions(n, t)'[u] - Positions(n, t)[u])
          BY <4>1, <4>2, FunctionSumChange, FiniteAssumption
        <4>5. held'[n][t] = held[n][t] + units /\ held[n][t] \in Int
          BY <1>1, <1>3, <3>2 DEF Sides
        <4>6. Positions(n, t)[u] \in Int
          BY <4>1
        <4>7. QED
          BY <3>1, <4>3, <4>4, <4>5, <4>6
      <3>3. CASE n # m \/ t # s
        <4>1. Positions(n, t)' = Positions(n, t)
          BY <1>1, <1>3, <3>3 DEF Positions, Units, Sides
        <4>2. held'[n][t] = held[n][t]
          BY <1>1, <1>3, <3>3 DEF Sides
        <4>3. QED
          BY <3>1, <4>1, <4>2
      <3>4. QED
        BY <3>2, <3>3
    <2>2. QED
      BY <2>1 DEF SharesAreHeld, Positions
  <1>11. SpentLaw'
    <2>1. ASSUME NEW n \in Created PROVE SumFunction(Costs(n)') = collateral'[n] - Liquidity
      <3>1. SumFunction(Costs(n)) = collateral[n] - Liquidity /\ n \in Markets
        BY DEF Books, SpentLaw, Created
      <3>2. CASE n = m
        <4>1. Costs(n) \in [Users -> Int] /\ Costs(n)' \in [Users -> Int]
          BY <1>1, <1>4, <3>1 DEF Costs
        <4>2. \A v \in Users \ {u} : Costs(n)'[v] = Costs(n)[v]
          BY <1>5, <3>1 DEF Costs
        <4>3. Costs(n)'[u] = Costs(n)[u] + cost
          BY <1>1, <1>4, <3>2 DEF Costs
        <4>4. SumFunction(Costs(n)') = SumFunction(Costs(n)) + (Costs(n)'[u] - Costs(n)[u])
          BY <4>1, <4>2, FunctionSumChange, FiniteAssumption
        <4>5. collateral'[n] = collateral[n] + cost /\ collateral[n] \in Int /\ Liquidity \in Int
          BY <1>1, <1>4, <3>2, TradingAssumption
        <4>6. Costs(n)[u] \in Int
          BY <4>1
        <4>7. QED
          BY <3>1, <4>3, <4>4, <4>5, <4>6
      <3>3. CASE n # m
        <4>1. Costs(n)' = Costs(n)
          BY <1>5, <3>1, <3>3 DEF Costs
        <4>2. collateral'[n] = collateral[n]
          BY <1>1, <1>4, <3>1, <3>3
        <4>3. QED
          BY <3>1, <4>1, <4>2
      <3>4. QED
        BY <3>2, <3>3
    <2>2. QED
      BY <1>2, <2>1 DEF SpentLaw
  <1>12. QED
    BY <1>6, <1>7, <1>8, <1>9, <1>10, <1>11 DEF Books

\* The arithmetic of one sale, with the sums of reserves n and r.
LEMMA SaleArithmetic ==
    ASSUME NEW n \in Int, NEW r \in Int, NEW a \in Int, NEW proceeds \in Int,
           NEW paid \in Int,
           n + proceeds = r + a
    PROVE  n + (-a) + (proceeds - paid) = r + (-paid)
  OBVIOUS

LEMMA TradeKeepsLaw ==
    ASSUME Books, ShareLaw,
           NEW m \in Markets, NEW u \in Users, NEW s \in Sides,
           NEW cost \in Int, NEW units \in Int, NEW extra \in Nat, NEW next \in Units,
           TradeEffect(u, m, s, cost, units, extra),
           pool' = [pool EXCEPT ![m] = next],
           next.yes + next.no + units + extra = pool[m].yes + pool[m].no + cost * Scale
    PROVE  ShareLaw'
  <1> USE DEF TradeEffect, market
  <1>1. /\ pool \in [Markets -> Units]
        /\ held \in [Markets -> [yes : Int, no : Int]]
        /\ kept \in [Markets -> Nat]
        /\ collateral \in [Markets -> Int]
    BY DEF Books, TradingTypeOK
  <1>2. m \in Created /\ Created' = Created
    BY DEF MayTrade, Created
  <1>3. held' = [held EXCEPT ![m][s] = @ + units]
    BY DEF MoveShares
  <1>4. collateral' = [collateral EXCEPT ![m] = @ + cost]
    OBVIOUS
  <1>5. ASSUME NEW n \in Created, n # m
        PROVE  pool'[n].yes + pool'[n].no + held'[n].yes + held'[n].no + kept'[n]
                 = (collateral'[n] + Liquidity) * Scale
    BY <1>1, <1>3, <1>4, <1>5 DEF ShareLaw, Created
  <1>6. pool'[m] = next /\ kept'[m] = kept[m] + extra /\ collateral'[m] = collateral[m] + cost
    BY <1>1, <1>4
  <1>7. held'[m].yes + held'[m].no = held[m].yes + held[m].no + units
    BY <1>1, <1>3 DEF Sides
  <1>8. pool[m].yes + pool[m].no + held[m].yes + held[m].no + kept[m]
          = (collateral[m] + Liquidity) * Scale
    BY <1>2 DEF ShareLaw
  <1>9. (collateral[m] + cost + Liquidity) * Scale
          = (collateral[m] + Liquidity) * Scale + cost * Scale
    BY <1>1, TradingAssumption, ScaleAssumption
  <1>10. /\ next.yes \in Nat /\ next.no \in Nat /\ kept[m] \in Nat
         /\ pool[m].yes \in Nat /\ pool[m].no \in Nat
         /\ held[m].yes \in Int /\ held[m].no \in Int
         /\ held'[m].yes \in Int /\ held'[m].no \in Int
    BY <1>1, <1>3 DEF Units, Sides
  <1>11. cost * Scale \in Int /\ (collateral[m] + Liquidity) * Scale \in Int
    BY <1>1, TradingAssumption, ScaleAssumption
  <1>12. pool[m].yes + pool[m].no + (held[m].yes + held[m].no) + kept[m]
          = (collateral[m] + Liquidity) * Scale
    BY <1>8, <1>10
  <1>13. next.yes + next.no + held'[m].yes + held'[m].no + (kept[m] + extra)
          = (collateral[m] + Liquidity) * Scale + cost * Scale
    <2> DEFINE h == held[m].yes + held[m].no
               b == (collateral[m] + Liquidity) * Scale
               c == cost * Scale
    <2>1. h \in Int /\ b \in Int /\ c \in Int
      BY <1>10, <1>11
    <2>2. held'[m].yes + held'[m].no = h + units
      BY <1>7
    <2>3. pool[m].yes + pool[m].no + h + kept[m] = b
      BY <1>12
    <2> HIDE DEF h, b, c
    <2>4. next.yes + next.no + units + extra = pool[m].yes + pool[m].no + c
      BY DEF c
    <2>5. next.yes + next.no + held'[m].yes + held'[m].no + (kept[m] + extra) = b + c
      <3>1. /\ pool[m].yes \in Int /\ pool[m].no \in Int /\ kept[m] \in Int
            /\ next.yes \in Int /\ next.no \in Int
            /\ held'[m].yes \in Int /\ held'[m].no \in Int /\ extra \in Int
        BY <1>10
      <3>2. QED
        BY <2>1, <2>2, <2>3, <2>4, <3>1
    <2>6. QED
      BY <2>5 DEF b, c
  <1>14. pool'[m].yes + pool'[m].no + held'[m].yes + held'[m].no + kept'[m]
          = (collateral'[m] + Liquidity) * Scale
    BY <1>6, <1>9, <1>13
  <1>15. QED
    BY <1>2, <1>5, <1>14 DEF ShareLaw

\* What a purchase is: a trade that leaves nothing extra with the pool.
LEMMA BuyIsTrade ==
    ASSUME TradingTypeOK, NEW m \in Markets, NEW u \in Users, NEW s \in Sides, NEW a \in Amounts,
           Buy(u, m, s, a)
    PROVE  LET bought == Bought(pool[m], s, a)
           IN  /\ TradeEffect(u, m, s, a, bought.shares, 0)
               /\ pool' = [pool EXCEPT ![m] = bought.pool]
               /\ a \in Int /\ bought.shares \in Int /\ bought.shares > 0
               /\ bought.pool \in Units
               /\ shares[u][m][s] + bought.shares >= 0
               /\ bought.pool.yes + bought.pool.no + bought.shares + 0
                    = pool[m].yes + pool[m].no + a * Scale
  <1> DEFINE bought == Bought(pool[m], s, a)
  <1>1. pool[m] \in Units /\ a \in Nat \ {0}
    BY TradingAssumption DEF TradingTypeOK
  <1>2. /\ bought.shares \in Int /\ bought.pool \in Units
        /\ bought.pool.yes + bought.pool.no + bought.shares = pool[m].yes + pool[m].no + a * Scale
    BY <1>1, BuyingMovesReserves
  <1>3. TradeEffect(u, m, s, a, bought.shares, 0)
    BY DEF TradeEffect, Buy, Book, TradingTypeOK
  <1>4. pool' = [pool EXCEPT ![m] = bought.pool] /\ bought.shares > 0
    BY DEF Buy
  <1> HIDE DEF bought
  <1>5. shares[u][m][s] \in Nat
    BY DEF TradingTypeOK, Units, Sides
  <1>6. bought.pool.yes \in Nat /\ bought.pool.no \in Nat
    BY <1>2 DEF Units
  <1>7. bought.pool.yes + bought.pool.no + bought.shares + 0 = pool[m].yes + pool[m].no + a * Scale
    BY <1>2, <1>6
  <1>8. shares[u][m][s] + bought.shares >= 0
    BY <1>2, <1>4, <1>5
  <1>9. a \in Int
    BY <1>1
  <1>10. QED
    BY <1>2, <1>3, <1>4, <1>7, <1>8, <1>9 DEF bought

\* What a sale is: a trade at a negative cost, whose fraction stays with the pool.
LEMMA SellIsTrade ==
    ASSUME TradingTypeOK, NEW m \in Markets, NEW u \in Users, NEW s \in Sides, NEW a \in Amounts,
           Sell(u, m, s, a)
    PROVE  LET sold == Sold(pool[m], s, a)
               units == -(a * Scale)
           IN  /\ pool' = [pool EXCEPT ![m] = sold.pool]
               /\ sold.pool \in Units /\ units \in Int /\ units < 0
               /\ sold.proceeds \in Int /\ sold.proceeds > 0
               /\ shares[u][m][s] + units >= 0
               /\ \E cost \in Int, extra \in Nat :
                     /\ TradeEffect(u, m, s, cost, units, extra)
                     /\ balance' = [balance EXCEPT ![u] = @ - cost]
                     /\ sold.pool.yes + sold.pool.no + units + extra
                          = pool[m].yes + pool[m].no + cost * Scale
  <1> DEFINE sold == Sold(pool[m], s, a)
             units == -(a * Scale)
  <1>1. pool[m] \in Units /\ a \in Nat \ {0} /\ a * Scale \in Nat \ {0}
    BY TradingAssumption, UnitsOfAmount DEF TradingTypeOK
  <1>2. /\ sold.proceeds \in Int /\ sold.pool \in Units
        /\ sold.pool.yes + sold.pool.no + sold.proceeds = pool[m].yes + pool[m].no + a * Scale
    BY <1>1, SellingMovesReserves
  <1>3. PICK p \in Truncated(sold.proceeds, Scale) :
          Book(u, m, -p) /\ kept' = [kept EXCEPT ![m] = @ + sold.proceeds - p * Scale]
    BY DEF Sell
  <1>4. /\ MayTrade(u, m) /\ MoveShares(u, m, s, units) /\ UNCHANGED market
        /\ pool' = [pool EXCEPT ![m] = sold.pool]
        /\ shares[u][m][s] >= a * Scale /\ sold.proceeds > 0
    BY DEF Sell, Covers
  <1> HIDE DEF sold
  <1>5. p \in Nat /\ p * Scale \in Nat /\ p * Scale <= sold.proceeds
    BY <1>2, <1>4, TruncatedBelow, ScaleAssumption
  <1> DEFINE extra == sold.proceeds - p * Scale
  <1>6. extra \in Nat
    BY <1>2, <1>5
  <1>7. kept' = [kept EXCEPT ![m] = @ + extra]
    BY <1>2, <1>3, <1>5 DEF TradingTypeOK
  <1>8. TradeEffect(u, m, s, -p, units, extra)
    BY <1>3, <1>4, <1>7 DEF TradeEffect, Book
  <1>9. (-p) * Scale = -(p * Scale)
    BY <1>5, ScaleAssumption
  <1>10. shares[u][m][s] \in Nat
    BY DEF TradingTypeOK, Units, Sides
  <1>11. sold.pool.yes + sold.pool.no + units + extra = pool[m].yes + pool[m].no + (-p) * Scale
    <2>1. /\ sold.pool.yes \in Nat /\ sold.pool.no \in Nat
          /\ pool[m].yes \in Nat /\ pool[m].no \in Nat
      BY <1>1, <1>2 DEF Units
    <2>2. (sold.pool.yes + sold.pool.no) + units + extra
            = (pool[m].yes + pool[m].no) + (-(p * Scale))
      BY <1>1, <1>2, <1>5, <2>1, SaleArithmetic
    <2>3. QED
      BY <1>9, <2>2
  <1>12. shares[u][m][s] + units >= 0 /\ units \in Int /\ units < 0
    BY <1>1, <1>4, <1>10
  <1> HIDE DEF extra, units
  <1>13. -p \in Int
    BY <1>5
  <1>14. balance' = [balance EXCEPT ![u] = @ - (-p)]
    BY <1>3 DEF Book
  <1>15. QED
    BY <1>2, <1>4, <1>6, <1>8, <1>11, <1>12, <1>13, <1>14 DEF sold, units

LEMMA TradeStepKeepsIInv ==
    ASSUME Books, NEW m \in Markets, NEW u \in Users, TradeStep(u, m)
    PROVE  Books' /\ (ShareLaw => ShareLaw')
  <1>1. TradingTypeOK
    BY DEF Books
  <1>2. PICK s \in Sides, a \in Amounts : Buy(u, m, s, a) \/ Sell(u, m, s, a)
    BY DEF TradeStep
  <1>3. CASE Buy(u, m, s, a)
    <2> DEFINE bought == Bought(pool[m], s, a)
    <2>1. /\ TradeEffect(u, m, s, a, bought.shares, 0)
          /\ pool' = [pool EXCEPT ![m] = bought.pool]
          /\ a \in Int /\ bought.shares \in Int /\ bought.pool \in Units
          /\ shares[u][m][s] + bought.shares >= 0
          /\ bought.pool.yes + bought.pool.no + bought.shares + 0
               = pool[m].yes + pool[m].no + a * Scale
      BY <1>1, <1>3, BuyIsTrade
    <2> HIDE DEF bought
    <2>2. 0 \in Nat
      OBVIOUS
    <2>3. Books'
      BY <2>1, <2>2, TradeKeepsBooks
    <2>4. ShareLaw => ShareLaw'
      BY <2>1, <2>2, TradeKeepsLaw
    <2>5. QED
      BY <2>3, <2>4
  <1>4. CASE Sell(u, m, s, a)
    <2> DEFINE sold == Sold(pool[m], s, a)
               units == -(a * Scale)
    <2>1. /\ pool' = [pool EXCEPT ![m] = sold.pool]
          /\ sold.pool \in Units /\ units \in Int
          /\ shares[u][m][s] + units >= 0
          /\ \E cost \in Int, extra \in Nat :
                /\ TradeEffect(u, m, s, cost, units, extra)
                /\ sold.pool.yes + sold.pool.no + units + extra
                     = pool[m].yes + pool[m].no + cost * Scale
      BY <1>1, <1>4, SellIsTrade
    <2> HIDE DEF sold, units
    <2>2. PICK cost \in Int, extra \in Nat :
                /\ TradeEffect(u, m, s, cost, units, extra)
                /\ sold.pool.yes + sold.pool.no + units + extra
                     = pool[m].yes + pool[m].no + cost * Scale
      BY <2>1
    <2>3. Books'
      BY <2>1, <2>2, TradeKeepsBooks
    <2>4. ShareLaw => ShareLaw'
      BY <2>1, <2>2, TradeKeepsLaw
    <2>5. QED
      BY <2>3, <2>4
  <1>5. QED
    BY <1>2, <1>3, <1>4

-----------------------------------------------------------------------------

LEMMA NextKeepsIInv == IInv /\ [Next]_tradingVars => IInv'
  <1> SUFFICES ASSUME IInv, [Next]_tradingVars PROVE IInv'
    OBVIOUS
  <1> USE DEF IInv
  <1>1. ASSUME NEW m \in Markets, SettleStep(m) PROVE IInv'
    BY <1>1, SettleStepKeepsIInv
  <1>2. ASSUME NEW m \in Markets, NEW u \in Users, Create(m, u) \/ CreateShadow(m, u)
        PROVE  IInv'
    <2>1. InsertMarket(m, u) /\ shadow' \subseteq shadow \cup {m}
      BY <1>2 DEF Create, CreateShadow
    <2>2. QED
      BY <2>1, CreateKeepsIInv
  <1>3. ASSUME NEW m \in Markets, NEW u \in Users, TradeStep(u, m) PROVE IInv'
    BY <1>3, TradeStepKeepsIInv
  <1>4. CASE UNCHANGED tradingVars
    <2>1. TradingTypeOK' /\ Unpaid' /\ Created' = Created
          /\ UNCHANGED <<creator, shadow, poolVars, shares, spent>>
      BY <1>4 DEF tradingVars, market, books, poolVars, Books, TradingTypeOK, Created, Unpaid
    <2>2. QED
      BY <2>1, SettlementKeepsIInv
  <1>5. QED
    BY <1>1, <1>2, <1>3, <1>4 DEF Next

LEMMA IInvAlways == Spec => []IInv
  BY InitIInv, NextKeepsIInv, PTL DEF Spec

\* The reserves, the shares out and the kept fractions always account for the
\* collateral and the liquidity, whatever the precision of the division and
\* however many trades there were.
THEOREM ShareLawAlways == Spec => []ShareLaw
  <1>1. IInv => ShareLaw
    BY DEF IInv
  <1>2. QED
    BY <1>1, IInvAlways, PTL

\* No position is ever overdrawn and no reserve becomes negative: trading keeps
\* the types of the pools, the positions and the ledger.
THEOREM TradingTypeCorrect == Spec => []TradingTypeOK
  <1>1. IInv => TradingTypeOK
    BY DEF IInv, Books
  <1>2. QED
    BY <1>1, IInvAlways, PTL

\* The rows of positions hold the shares that the pool gave out, no more and no
\* less, however many users trade in however many markets.
THEOREM SharesAreHeldAlways == Spec => []SharesAreHeld
  <1>1. IInv => SharesAreHeld
    BY DEF IInv, Books
  <1>2. QED
    BY <1>1, IInvAlways, PTL

\* The creator's row stands for the liquidity, the others for what their users
\* spent: what a cancelled market refunds is what it holds.
LEMMA RefundsAddUp ==
    ASSUME Books
    PROVE  RefundsMatchCollateral
  <1> SUFFICES ASSUME NEW m \in Created
               PROVE  SumFunction([u \in Users |-> Refund(m, u)]) = collateral[m]
    BY DEF RefundsMatchCollateral
  <1> DEFINE refunds == [u \in Users |-> Refund(m, u)]
             c == creator[m]
  <1>1. m \in Markets /\ c \in Users
    BY DEF Created, Books, CreatorKnown
  <1>2. Costs(m) \in [Users -> Int] /\ collateral[m] \in Int /\ Liquidity \in Int
    BY <1>1, CostsType, TradingAssumption DEF Books, TradingTypeOK
  <1>3. refunds \in [Users -> Int] /\ refunds[c] = Liquidity
    BY <1>1, <1>2 DEF Refund, Costs
  <1>4. \A u \in Users \ {c} : refunds[u] = Costs(m)[u]
    BY DEF Refund, Costs
  <1>5. Costs(m)[c] = 0
    BY <1>1 DEF Books, CreatorNeverTrades, Costs
  <1>6. SumFunction(Costs(m)) = collateral[m] - Liquidity
    BY DEF Books, SpentLaw
  <1> HIDE DEF refunds, c
  <1>7. SumFunction(refunds) = SumFunction(Costs(m)) + (refunds[c] - Costs(m)[c])
    BY <1>1, <1>2, <1>3, <1>4, FunctionSumChange, FiniteAssumption
  <1>8. SumFunction(refunds) = collateral[m]
    BY <1>2, <1>3, <1>5, <1>6, <1>7
  <1>9. QED
    BY <1>8 DEF refunds

\* The refunds of a cancelled market are its collateral, after any trades.
THEOREM RefundsMatchCollateralAlways == Spec => []RefundsMatchCollateral
  <1>1. IInv => RefundsMatchCollateral
    BY RefundsAddUp DEF IInv
  <1>2. QED
    BY <1>1, IInvAlways, PTL

-----------------------------------------------------------------------------
(* What a payout credits                                                   *)

LEMMA TruncatedNear ==
    ASSUME NEW n \in Int, NEW d \in Nat \ {0}, NEW q \in Truncated(n, d)
    PROVE  q \in Int /\ q * d <= n /\ n - d <= q * d
  <1> DEFINE w == n \div d
  <1>1. w \in Int /\ w * d <= n /\ n < (w + 1) * d
    BY Z3
  <1>2. (w + 1) * d = w * d + d /\ (w - 1) * d = w * d - d /\ w * d \in Int
    BY <1>1
  <1>3. CASE q = w
    <2> HIDE DEF w
    <2>1. QED
      BY <1>1, <1>2, <1>3
  <1>4. CASE q = w - 1 /\ n % d = 0
    <2>1. n = w * d
      BY <1>4, Z3
    <2> HIDE DEF w
    <2>2. QED
      BY <1>1, <1>2, <1>4, <2>1
  <1>5. q = w \/ (q = w - 1 /\ n % d = 0)
    BY DEF Truncated
  <1>6. QED
    BY <1>3, <1>4, <1>5

LEMMA TruncatedEnds ==
    ASSUME NEW n \in Int, NEW d \in Nat \ {0}
    PROVE  Min(Truncated(n, d)) \in Truncated(n, d) /\ Max(Truncated(n, d)) \in Truncated(n, d)
  <1> DEFINE w == n \div d
             S == Truncated(n, d)
  <1>1. w \in Int
    BY Z3
  <1>2. S = {w} \/ S = {w, w - 1}
    BY DEF Truncated
  <1> HIDE DEF w, S
  <1>3. \E x \in S : \A y \in S : x >= y
    BY <1>1, <1>2
  <1>4. \E x \in S : \A y \in S : x =< y
    <2>1. CASE S = {w}
      BY <1>1, <2>1
    <2>2. CASE S = {w, w - 1}
      <3>1. w - 1 \in S /\ \A y \in S : w - 1 =< y
        BY <1>1, <2>2
      <3>2. QED
        BY <3>1
    <2>3. QED
      BY <1>2, <2>1, <2>2
  <1>5. Max(S) \in S
    BY <1>3 DEF Max
  <1>6. Min(S) \in S
    BY <1>4 DEF Min
  <1>7. QED
    BY <1>5, <1>6 DEF S

\* The holders of units get the collateral, short of a point each at most.
LEMMA DistributionAddsUp ==
    ASSUME NEW m \in Markets, NEW units \in [Users -> Nat], Distribute(m, units),
           balance \in [Users -> Int], collateral[m] \in Int
    PROVE  /\ balance' \in [Users -> Int]
           /\ \E paid \in Int :
                /\ SumFunction(balance') = SumFunction(balance) + paid
                /\ paid <= collateral[m] /\ collateral[m] - Cardinality(Users) <= paid
  <1> DEFINE total == SumFunction(units)
             C == collateral[m]
             N == Cardinality(Users)
  <1>1. PICK short \in SUBSET Users :
          balance' = [u \in Users |->
              LET due == Truncated(units[u] * C, total)
              IN  balance[u] + IF u \in short THEN Min(due) ELSE Max(due)]
    BY DEF Distribute
  <1> DEFINE due(u) == Truncated(units[u] * C, total)
             credit == [u \in Users |-> IF u \in short THEN Min(due(u)) ELSE Max(due(u))]
  <1>2. /\ IsFiniteSet(Users) /\ N \in Nat /\ total \in Nat \ {0}
        /\ units \in [Users -> Int]
    <2>1. IsFiniteSet(Users) /\ N \in Nat
      BY FiniteAssumption, FS_CardinalityType
    <2>2. total \in Nat
      BY FunctionSumIs, SumOfNaturals, FiniteAssumption
    <2>3. total > 0
      BY DEF Distribute
    <2>4. QED
      BY <2>1, <2>2, <2>3
  <1>3. ASSUME NEW u \in Users
        PROVE  /\ credit[u] \in Int /\ units[u] * C \in Int
               /\ credit[u] * total <= units[u] * C
               /\ units[u] * C - total <= credit[u] * total
    <2>1. units[u] * C \in Int
      OBVIOUS
    <2>2. credit[u] \in due(u)
      <3> HIDE DEF total, C
      <3>1. Min(due(u)) \in due(u) /\ Max(due(u)) \in due(u)
        BY <1>2, <2>1, TruncatedEnds
      <3>2. QED
        BY <3>1
    <2> HIDE DEF total, C, credit
    <2>3. QED
      BY <1>2, <2>1, <2>2, TruncatedNear
  <1>4. balance' = [u \in Users |-> balance[u] + credit[u]]
    BY <1>1
  <1> HIDE DEF credit, total, C, N
  <1>5. C \in Int
    BY DEF C
  <1> DEFINE paid == SumFunctionOnSet(credit, Users)
  <1>6. paid \in Int
    BY <1>2, <1>3, SumType
  <1>8. SumFunctionOnSet(units, Users) = total
    BY FunctionSumIs DEF total
  <1>9. paid * total <= C * total /\ (C - N) * total <= paid * total
    BY <1>2, <1>3, <1>5, <1>8, CutShares DEF N
  <1>12. paid <= C /\ C - N <= paid
    <2> HIDE DEF paid
    <2>1. C - N \in Int
      BY <1>2, <1>5
    <2>2. QED
      BY <1>2, <1>5, <1>6, <1>9, <2>1, CancelFactor
  <1>13. SumFunction(balance') = SumFunction(balance) + paid
    <2>1. \A u \in Users : /\ balance[u] \in Int /\ credit[u] \in Int
                           /\ balance'[u] = balance[u] + credit[u]
      BY <1>3, <1>4
    <2>2. DOMAIN balance' = Users /\ DOMAIN balance = Users
      BY <1>4
    <2>3. SumFunctionOnSet(balance', Users)
            = SumFunctionOnSet(balance, Users) + SumFunctionOnSet(credit, Users)
      BY <1>2, <2>1, SumPointwise
    <2>4. QED
      BY <2>2, <2>3, FunctionSumIs
  <1>14. balance' \in [Users -> Int]
    BY <1>3, <1>4
  <1> HIDE DEF paid
  <1>15. QED
    BY <1>6, <1>12, <1>13, <1>14 DEF C, N

-----------------------------------------------------------------------------
(* Points.  What the books cannot account for moves with payouts only, by  *)
(* less than a point for each user.  The lemmas say so of any step that    *)
(* keeps Books: options add to the account without disturbing it.          *)

Backing == [m \in Markets |-> collateral[m] * (1 - payouts[m])]
Backed == SumFunctionOnSet(Backing, Created)
Payments == SumFunction(payouts)
Gap == Issued - SumFunction(balance) - Backed

Balances == balance \in [Users -> Int]

\* A step that pays markets count times loses a point for each user and payment.
SettlesUp(count) ==
    /\ Balances'
    /\ Payments' = Payments + count
    /\ \E lost \in 0 .. Cardinality(Users) * count : Gap' = Gap + lost

LEMMA BackingType ==
    ASSUME Books
    PROVE  /\ \A m \in Markets : Backing[m] \in Int
           /\ IsFiniteSet(Created) /\ Created \subseteq Markets
           /\ Backed \in Int
  <1>1. \A m \in Markets : Backing[m] \in Int
    BY DEF Backing, Books, TradingTypeOK
  <1>2. Created \subseteq Markets
    BY DEF Created
  <1>3. IsFiniteSet(Created)
    BY <1>2, FiniteAssumption, FS_Subset
  <1>4. Backed \in Int
    BY <1>1, <1>2, <1>3, SumType DEF Backed
  <1>5. QED
    BY <1>1, <1>2, <1>3, <1>4

LEMMA IssuedType ==
    ASSUME Books
    PROVE  Issued \in Int
  <1>1. IsFiniteSet(shadow)
    BY FiniteAssumption, FS_Subset DEF Books, TradingTypeOK
  <1>2. Cardinality(shadow) \in Nat /\ Cardinality(Users) \in Nat
    BY <1>1, FiniteAssumption, FS_CardinalityType
  <1>3. QED
    BY <1>2, TradingAssumption DEF Issued

LEMMA PaymentsType ==
    ASSUME Books
    PROVE  Payments \in Nat
  <1>1. \A m \in Markets : payouts[m] \in Nat
    BY DEF Books, TradingTypeOK
  <1>2. SumFunctionOnSet(payouts, Markets) \in Nat
    BY <1>1, FiniteAssumption, SumOfNaturals
  <1>3. DOMAIN payouts = Markets
    BY DEF Books, TradingTypeOK
  <1>4. QED
    BY <1>2, <1>3, FunctionSumIs DEF Payments

LEMMA BalancesType ==
    ASSUME Balances
    PROVE  SumFunction(balance) \in Int
  BY FiniteAssumption, FunctionSumType DEF Balances

\* One market's backing changes.
LEMMA BackedChanges ==
    ASSUME Books, Books', NEW m \in Created, Created' = Created,
           \A n \in Created \ {m} : Backing'[n] = Backing[n]
    PROVE  Backed' = Backed + (Backing'[m] - Backing[m])
  <1>1. IsFiniteSet(Created) /\ \A n \in Created : Backing[n] \in Int
    BY BackingType
  <1>2. \A n \in Created : Backing'[n] \in Int
    BY DEF Backing, Books, TradingTypeOK, Created
  <1> DEFINE f == Backing
             g == Backing'
             S == Created
  <1>3. /\ IsFiniteSet(S) /\ m \in S
        /\ \A n \in S : f[n] \in Int /\ g[n] \in Int
        /\ \A n \in S \ {m} : g[n] = f[n]
    BY <1>1, <1>2
  <1>4. Backed = SumFunctionOnSet(f, S) /\ Backed' = SumFunctionOnSet(g, S)
    BY DEF Backed
  <1> HIDE DEF f, g, S
  <1>5. SumFunctionOnSet(g, S) = SumFunctionOnSet(f, S) + (g[m] - f[m])
    BY <1>3, SumChange
  <1>6. QED
    BY <1>4, <1>5 DEF f, g

\* A trade moves cost between a user's balance and the books.
LEMMA BalanceChanges ==
    ASSUME Balances, NEW u \in Users, NEW cost \in Int,
           balance' = [balance EXCEPT ![u] = @ - cost]
    PROVE  Balances' /\ SumFunction(balance') = SumFunction(balance) - cost
  <1>1. balance \in [Users -> Int] /\ balance' \in [Users -> Int]
    BY DEF Balances
  <1>2. \A v \in Users \ {u} : balance'[v] = balance[v]
    BY <1>1
  <1>3. balance'[u] = balance[u] - cost /\ balance[u] \in Int
    BY <1>1
  <1>4. SumFunction(balance') = SumFunction(balance) + (balance'[u] - balance[u])
    <2> DEFINE f == balance
               g == balance'
    <2>1. f \in [Users -> Int] /\ g \in [Users -> Int] /\ IsFiniteSet(Users)
      BY <1>1, FiniteAssumption
    <2>2. \A v \in Users \ {u} : g[v] = f[v]
      BY <1>2
    <2> HIDE DEF f, g
    <2>3. SumFunction(g) = SumFunction(f) + (g[u] - f[u])
      BY <2>1, <2>2, FunctionSumChange
    <2>4. QED
      BY <2>3 DEF f, g
  <1>5. SumFunction(balance) \in Int
    BY BalancesType
  <1>6. QED
    BY <1>1, <1>3, <1>4, <1>5 DEF Balances

\* A trade takes cost from a balance; into goes to the collateral of the pool,
\* all of it if it is the pool that trades and nothing if it is an option.
LEMMA TradeMovesPoints ==
    ASSUME Books, Books', Balances, NEW m \in Markets, NEW u \in Users,
           NEW cost \in Int, NEW into \in Int,
           stage[m] = "open",
           balance' = [balance EXCEPT ![u] = @ - cost],
           collateral' = [collateral EXCEPT ![m] = @ + into],
           UNCHANGED market
    PROVE  Balances' /\ Payments' = Payments /\ Gap' = Gap + cost - into
  <1>1. Balances' /\ SumFunction(balance') = SumFunction(balance) - cost
    BY BalanceChanges
  <1>2. /\ stage' = stage /\ shadow' = shadow /\ payouts' = payouts
        /\ Created' = Created /\ m \in Created
    BY DEF market, Created
  <1>3. payouts[m] = 0 /\ collateral \in [Markets -> Int]
    BY DEF Books, Unpaid, TradingTypeOK
  <1>4. \A n \in Markets \ {m} : collateral'[n] = collateral[n]
    BY <1>3
  <1>5. \A n \in Created \ {m} : Backing'[n] = Backing[n]
    BY <1>2, <1>4 DEF Backing, Created
  <1>6. Backing'[m] - Backing[m] = into
    <2>1. Backing[m] = collateral[m] * (1 - 0) /\ Backing'[m] = (collateral[m] + into) * (1 - 0)
      BY <1>2, <1>3 DEF Backing
    <2>2. QED
      BY <1>3, <2>1
  <1>7. Backed' = Backed + into
    BY <1>2, <1>5, <1>6, BackedChanges
  <1>8. Issued' = Issued
    BY <1>2 DEF Issued
  <1>9. /\ Issued \in Int /\ Backed \in Int /\ SumFunction(balance) \in Int
    BY IssuedType, BackingType, BalancesType
  <1>10. Gap' = Gap + cost - into
    BY <1>1, <1>7, <1>8, <1>9 DEF Gap
  <1>11. QED
    BY <1>1, <1>2, <1>10 DEF Payments

\* A new market's liquidity comes from its creator, or is issued with it.
LEMMA CreationMovesPoints ==
    ASSUME Books, Books', Balances, NEW m \in Markets, NEW u \in Users,
           Create(m, u) \/ CreateShadow(m, u)
    PROVE  SettlesUp(0)
  <1>1. /\ InsertMarket(m, u) /\ stage[m] = "none"
        /\ stage' = [stage EXCEPT ![m] = "open"]
        /\ collateral' = [collateral EXCEPT ![m] = Liquidity]
        /\ payouts' = payouts
    BY DEF Create, CreateShadow, InsertMarket
  <1>2. /\ Created' = Created \cup {m} /\ m \notin Created
        /\ payouts[m] = 0 /\ collateral \in [Markets -> Int]
        /\ m \notin shadow
    BY <1>1 DEF Created, Books, Unpaid, ShadowsCreated, TradingTypeOK
  <1>3. \A n \in Created : Backing[n] \in Int /\ Backing[n] = Backing'[n]
    BY <1>1, <1>2, BackingType DEF Backing, Created
  <1>4. Backing'[m] = Liquidity /\ Liquidity \in Int
    <2>1. Backing'[m] = Liquidity * (1 - 0)
      BY <1>1, <1>2 DEF Backing
    <2>2. QED
      BY <2>1, TradingAssumption
  <1>5. Backed' = Backed + Liquidity
    <2> DEFINE f == Backing
               g == Backing'
               S == Created
    <2>1. /\ IsFiniteSet(S) /\ m \notin S
          /\ \A n \in S : f[n] \in Int /\ f[n] = g[n]
      BY <1>2, <1>3, BackingType
    <2>2. \A n \in S \cup {m} : g[n] \in Int
      BY <1>3, <1>4
    <2>3. Backed = SumFunctionOnSet(f, S) /\ Backed' = SumFunctionOnSet(g, S \cup {m})
      BY <1>2 DEF Backed
    <2>4. g[m] = Liquidity
      BY <1>4
    <2> HIDE DEF f, g, S
    <2>5. SumFunctionOnSet(f, S) = SumFunctionOnSet(g, S)
      BY <2>1, SumSame
    <2>6. SumFunctionOnSet(g, S \cup {m}) = g[m] + SumFunctionOnSet(g, S)
      BY <2>1, <2>2, SumAdd
    <2>7. SumFunctionOnSet(f, S) \in Int
      BY <2>1, SumType
    <2>8. QED
      BY <1>4, <2>3, <2>4, <2>5, <2>6, <2>7
  <1>6. Issued \in Int /\ Backed \in Int /\ SumFunction(balance) \in Int /\ Payments \in Int
    BY IssuedType, BackingType, BalancesType, PaymentsType
  <1>7. Payments' = Payments
    BY <1>1 DEF Payments
  <1>8. Balances' /\ Gap' = Gap
    <2>1. CASE Create(m, u)
      <3>1. balance' = [balance EXCEPT ![u] = @ - Liquidity] /\ shadow' = shadow
        BY <2>1 DEF Create
      <3>2. Balances' /\ SumFunction(balance') = SumFunction(balance) - Liquidity
        BY <1>4, <3>1, BalanceChanges
      <3>3. Issued' = Issued
        BY <3>1 DEF Issued
      <3>4. QED
        BY <1>4, <1>5, <1>6, <3>2, <3>3 DEF Gap
    <2>2. CASE CreateShadow(m, u)
      <3>1. balance' = balance /\ shadow' = shadow \cup {m}
        BY <2>2 DEF CreateShadow
      <3>2. IsFiniteSet(shadow)
        BY FiniteAssumption, FS_Subset DEF Books, TradingTypeOK
      <3>3. Cardinality(shadow \cup {m}) = Cardinality(shadow) + 1 /\ Cardinality(shadow) \in Int
        BY <1>2, <3>2, FS_AddElement, FS_CardinalityType
      <3>4. Issued' = Issued + Liquidity
        <4> DEFINE n == Cardinality(shadow)
                   start == Cardinality(Users) * InitialBalance
        <4>1. n \in Int /\ start \in Int
          BY <3>3, FiniteAssumption, FS_CardinalityType, TradingAssumption
        <4>2. Issued = start + n * Liquidity /\ Issued' = start + (n + 1) * Liquidity
          BY <3>1, <3>3 DEF Issued
        <4> HIDE DEF n, start
        <4>3. (n + 1) * Liquidity = n * Liquidity + Liquidity /\ n * Liquidity \in Int
          BY <1>4, <4>1
        <4>4. QED
          BY <1>4, <4>1, <4>2, <4>3
      <3>5. Balances' /\ SumFunction(balance') = SumFunction(balance)
        BY <3>1 DEF Balances
      <3>6. QED
        BY <1>4, <1>5, <1>6, <3>4, <3>5 DEF Gap
    <2>3. QED
      BY <2>1, <2>2
  <1>9. Gap \in Int /\ Cardinality(Users) \in Nat
    BY <1>6, FiniteAssumption, FS_CardinalityType DEF Gap
  <1>10. QED
    BY <1>6, <1>7, <1>8, <1>9 DEF SettlesUp

\* Whoever is credited, a payment takes its market's collateral off the books.
LEMMA PaymentMovesPoints ==
    ASSUME Books, Books', Balances, Balances', NEW m \in Markets, MarkPaid(m),
           NEW paid \in Int, SumFunction(balance') = SumFunction(balance) + paid,
           paid <= collateral[m], collateral[m] - Cardinality(Users) <= paid
    PROVE  SettlesUp(1)
  <1>1. /\ stage[m] = "over" /\ stage' = [stage EXCEPT ![m] = "paid"]
        /\ payouts' = [payouts EXCEPT ![m] = @ + 1]
        /\ UNCHANGED <<collateral, shadow>>
    BY DEF MarkPaid, poolVars
  <1>2. /\ stage \in [Markets -> {"none", "open", "over", "paid"}]
        /\ payouts \in [Markets -> Int] /\ payouts' \in [Markets -> Int]
        /\ collateral[m] \in Int
    BY <1>1 DEF Books, TradingTypeOK
  <1>3. Created' = Created /\ m \in Created
    BY <1>1, <1>2 DEF Created
  <1>4. \A n \in Created \ {m} : Backing'[n] = Backing[n]
    BY <1>1, <1>2 DEF Backing, Created
  <1>5. Backing'[m] - Backing[m] = -collateral[m]
    <2> DEFINE c == collateral[m]
               p == payouts[m]
    <2>1. c \in Int /\ p \in Int
      BY <1>2
    <2>2. Backing[m] = c * (1 - p) /\ Backing'[m] = c * (1 - (p + 1))
      BY <1>1, <1>2 DEF Backing
    <2> HIDE DEF c, p
    <2>3. c * (1 - (p + 1)) = c * (1 - p) - c /\ c * (1 - p) \in Int
      BY <2>1
    <2>4. QED
      BY <2>1, <2>2, <2>3 DEF c
  <1>6. Backed' = Backed + (-collateral[m])
    BY <1>3, <1>4, <1>5, BackedChanges
  <1>7. Issued' = Issued
    BY <1>1 DEF Issued
  <1>8. Issued \in Int /\ Backed \in Int /\ SumFunction(balance) \in Int /\ Payments \in Int
    BY IssuedType, BackingType, BalancesType, PaymentsType
  <1>9. Gap' = Gap + (collateral[m] - paid)
    BY <1>2, <1>6, <1>7, <1>8 DEF Gap
  <1>10. Payments' = Payments + 1
    <2> DEFINE f == payouts
               g == payouts'
    <2>1. f \in [Markets -> Int] /\ g \in [Markets -> Int] /\ IsFiniteSet(Markets)
      BY <1>2, FiniteAssumption
    <2>2. (\A n \in Markets \ {m} : g[n] = f[n]) /\ g[m] = f[m] + 1 /\ f[m] \in Int
      BY <1>1, <1>2
    <2>3. Payments = SumFunction(f) /\ Payments' = SumFunction(g)
      BY DEF Payments
    <2> HIDE DEF f, g
    <2>4. SumFunction(g) = SumFunction(f) + (g[m] - f[m])
      BY <2>1, <2>2, FunctionSumChange
    <2>5. QED
      BY <1>8, <2>2, <2>3, <2>4
  <1>11. Gap \in Int /\ Cardinality(Users) \in Nat
    BY <1>8, FiniteAssumption, FS_CardinalityType DEF Gap
  <1>12. collateral[m] - paid \in 0 .. Cardinality(Users) * 1
    BY <1>2, <1>11
  <1>13. QED
    BY <1>9, <1>10, <1>12 DEF SettlesUp

LEMMA RefundMovesPoints ==
    ASSUME Books, Books', Balances, NEW m \in Markets, PayoutCancelled(m)
    PROVE  SettlesUp(1)
  <1> DEFINE refunds == [u \in Users |-> Refund(m, u)]
             paid == SumFunction(refunds)
  <1>1. MarkPaid(m) /\ balance' = [u \in Users |-> balance[u] + refunds[u]]
    BY DEF PayoutCancelled
  <1>2. m \in Created
    BY <1>1 DEF MarkPaid, Created
  <1>3. paid = collateral[m]
    BY <1>2, RefundsAddUp DEF RefundsMatchCollateral
  <1>4. collateral[m] \in Int /\ \A u \in Users : refunds[u] \in Int
    BY TradingAssumption DEF Refund, Books, TradingTypeOK
  <1>5. DOMAIN refunds = Users
    OBVIOUS
  <1> HIDE DEF refunds
  <1>6. Balances'
    BY <1>1, <1>4 DEF Balances
  <1>7. SumFunction(balance') = SumFunction(balance) + paid
    <2> DEFINE f == balance
               g == balance'
    <2>1. \A u \in Users : f[u] \in Int /\ refunds[u] \in Int /\ g[u] = f[u] + refunds[u]
      BY <1>1, <1>4 DEF Balances
    <2>2. DOMAIN g = Users /\ DOMAIN f = Users
      BY <1>1 DEF Balances
    <2> HIDE DEF f, g
    <2>3. SumFunctionOnSet(g, Users)
            = SumFunctionOnSet(f, Users) + SumFunctionOnSet(refunds, Users)
      BY <2>1, FiniteAssumption, SumPointwise
    <2>4. SumFunction(g) = SumFunction(f) + paid
      BY <1>5, <2>2, <2>3, FunctionSumIs
    <2>5. QED
      BY <2>4 DEF f, g
  <1> HIDE DEF paid
  <1>8. paid <= collateral[m] /\ collateral[m] - Cardinality(Users) <= paid /\ paid \in Int
    BY <1>3, <1>4, FiniteAssumption, FS_CardinalityType
  <1>9. QED
    BY <1>1, <1>6, <1>7, <1>8, PaymentMovesPoints

LEMMA DistributionMovesPoints ==
    ASSUME Books, Books', Balances, NEW m \in Markets, MarkPaid(m),
           NEW units \in [Users -> Nat], Distribute(m, units)
    PROVE  SettlesUp(1)
  <1>1. collateral[m] \in Int /\ balance \in [Users -> Int]
    BY DEF Books, TradingTypeOK, Balances
  <1>2. /\ balance' \in [Users -> Int]
        /\ \E paid \in Int :
              /\ SumFunction(balance') = SumFunction(balance) + paid
              /\ paid <= collateral[m] /\ collateral[m] - Cardinality(Users) <= paid
    BY <1>1, DistributionAddsUp
  <1>3. Balances'
    BY <1>2 DEF Balances
  <1>4. QED
    BY <1>2, <1>3, PaymentMovesPoints

LEMMA SettlementMovesPoints ==
    ASSUME Books, Books', Balances, NEW m \in Markets, SettleStep(m)
    PROVE  \E count \in {0, 1} : SettlesUp(count)
  <1>1. CASE EndTrading(m) \/ Overturn(m)
    <2>1. UNCHANGED <<shadow, payouts, collateral, balance>> /\ Created' = Created
      BY <1>1 DEF EndTrading, Overturn, poolVars, books, Created, Books, TradingTypeOK
    <2>2. Backing' = Backing
      BY <2>1 DEF Backing
    <2>3. Gap' = Gap /\ Payments' = Payments /\ Balances'
      BY <2>1, <2>2 DEF Gap, Issued, Backed, Payments, Balances
    <2>4. Gap \in Int /\ Payments \in Int /\ Cardinality(Users) \in Nat
      BY IssuedType, BackingType, BalancesType, PaymentsType, FiniteAssumption,
         FS_CardinalityType DEF Gap
    <2>5. SettlesUp(0)
      BY <2>3, <2>4 DEF SettlesUp
    <2>6. QED
      BY <2>5
  <1>2. CASE PayoutCancelled(m)
    BY <1>2, RefundMovesPoints
  <1>3. ASSUME NEW s \in Sides, PayoutSide(m, s) PROVE SettlesUp(1)
    <2>1. Positions(m, s) \in [Users -> Nat]
      BY PositionsType DEF Books
    <2>2. MarkPaid(m) /\ Distribute(m, Positions(m, s))
      BY <1>3 DEF PayoutSide, Positions
    <2>3. QED
      BY <2>1, <2>2, DistributionMovesPoints
  <1>4. QED
    BY <1>1, <1>2, <1>3 DEF SettleStep

LEMMA TradingMovesPoints ==
    ASSUME Books, Books', Balances, NEW m \in Markets, NEW u \in Users, TradeStep(u, m)
    PROVE  SettlesUp(0)
  <1>1. PICK s \in Sides, a \in Amounts : Buy(u, m, s, a) \/ Sell(u, m, s, a)
    BY DEF TradeStep
  <1>2. /\ stage[m] = "open" /\ UNCHANGED market
        /\ \E cost \in Int :
              /\ balance' = [balance EXCEPT ![u] = @ - cost]
              /\ collateral' = [collateral EXCEPT ![m] = @ + cost]
    <2>1. CASE Buy(u, m, s, a)
      <3>1. a \in Int
        BY TradingAssumption
      <3>2. QED
        BY <2>1, <3>1 DEF Buy, MayTrade, Book
    <2>2. CASE Sell(u, m, s, a)
      <3>1. PICK cost \in Int, units \in Int, extra \in Nat :
              /\ TradeEffect(u, m, s, cost, units, extra)
              /\ balance' = [balance EXCEPT ![u] = @ - cost]
        BY <2>2, SellIsTrade DEF Books
      <3>2. QED
        BY <3>1 DEF TradeEffect, MayTrade
    <2>3. QED
      BY <1>1, <2>1, <2>2
  <1>3. PICK cost \in Int :
          /\ balance' = [balance EXCEPT ![u] = @ - cost]
          /\ collateral' = [collateral EXCEPT ![m] = @ + cost]
    BY <1>2
  <1>4. Balances' /\ Payments' = Payments /\ Gap' = Gap + cost - cost
    <2>1. stage[m] = "open" /\ UNCHANGED market
      BY <1>2
    <2>2. QED
      BY <1>3, <2>1, TradeMovesPoints, Zenon
  <1>5. Gap \in Int /\ Payments \in Int /\ Cardinality(Users) \in Nat
    BY IssuedType, BackingType, BalancesType, PaymentsType, FiniteAssumption,
       FS_CardinalityType DEF Gap
  <1>6. QED
    BY <1>4, <1>5 DEF SettlesUp

LEMMA CountedGap ==
    ASSUME NEW n \in Nat, NEW gap \in Int, NEW moved \in Int, NEW paid \in Nat, NEW count \in Nat,
           gap \in 0 .. n * paid, moved \in 0 .. n * count
    PROVE  gap + moved \in 0 .. n * (paid + count)
  <1>1. n * (paid + count) = n * paid + n * count /\ n * paid \in Int /\ n * count \in Int
    OBVIOUS
  <1>2. QED
    BY <1>1

PointsInv == IInv /\ Balances /\ PointsConserved

LEMMA ConservedIsGap ==
    /\ PointsConserved <=> Gap \in 0 .. Cardinality(Users) * Payments
    /\ PointsConserved' <=> (Gap \in 0 .. Cardinality(Users) * Payments)'
  BY DEF PointsConserved, Gap, Backed, Backing, Payments

LEMMA NothingIssuedYet ==
    ASSUME Init
    PROVE  Balances /\ Gap = 0 /\ Payments = 0
  <1>1. Balances
    BY TradingAssumption DEF Init, Balances
  <1>2. Created = {} /\ shadow = {}
    BY DEF Init, Created
  <1>3. Backed = 0
    BY <1>2, SumEmpty DEF Backed
  <1>4. SumFunction(balance) = Cardinality(Users) * InitialBalance
    <2> DEFINE zero == Linear(balance, Users, 0, InitialBalance)
    <2>1. /\ \A u \in Users : balance[u] \in Int /\ balance[u] = zero[u]
          /\ DOMAIN balance = Users /\ InitialBalance \in Int
      BY <1>1, TradingAssumption DEF Init, Linear
    <2>2. SumFunctionOnSet(zero, Users)
            = 0 * SumFunctionOnSet(balance, Users) + Cardinality(Users) * InitialBalance
      BY <2>1, FiniteAssumption, SumLinear
    <2> HIDE DEF zero
    <2>3. SumFunctionOnSet(balance, Users) = SumFunctionOnSet(zero, Users)
      BY <2>1, FiniteAssumption, SumSame
    <2>4. SumFunctionOnSet(balance, Users) \in Int /\ Cardinality(Users) * InitialBalance \in Int
      BY <2>1, FiniteAssumption, SumType, FS_CardinalityType
    <2>5. SumFunctionOnSet(balance, Users) = Cardinality(Users) * InitialBalance
      BY <2>2, <2>3, <2>4
    <2>6. QED
      BY <2>1, <2>5, FunctionSumIs
  <1>5. Issued = Cardinality(Users) * InitialBalance /\ Issued \in Int
    <2>1. Cardinality(Users) \in Int /\ Cardinality(shadow) = 0
      BY <1>2, FiniteAssumption, FS_CardinalityType, FS_EmptySet
    <2>2. Cardinality(Users) * InitialBalance \in Int /\ 0 * Liquidity = 0
      BY <2>1, TradingAssumption
    <2>3. QED
      BY <2>1, <2>2 DEF Issued
  <1>6. Payments = 0
    <2>1. DOMAIN payouts = Markets /\ \A m \in Markets : payouts[m] = 0
      BY DEF Init
    <2>2. QED
      BY <2>1, FiniteAssumption, FunctionSumZero DEF Payments
  <1>7. QED
    BY <1>1, <1>3, <1>4, <1>5, <1>6 DEF Gap

LEMMA InitPointsInv == Init => PointsInv
  <1> SUFFICES ASSUME Init PROVE PointsInv
    OBVIOUS
  <1>1. Balances /\ Gap = 0 /\ Payments = 0
    BY NothingIssuedYet
  <1>2. Cardinality(Users) \in Nat
    BY FiniteAssumption, FS_CardinalityType
  <1>3. PointsConserved
    BY <1>1, <1>2, ConservedIsGap
  <1>4. QED
    BY <1>1, <1>3, InitIInv DEF PointsInv

LEMMA NextKeepsPoints == PointsInv /\ [Next]_tradingVars => PointsInv'
  <1> SUFFICES ASSUME PointsInv, [Next]_tradingVars PROVE PointsInv'
    OBVIOUS
  <1>1. IInv' /\ Books /\ Books' /\ Balances
    BY NextKeepsIInv DEF PointsInv, IInv
  <1>2. CASE Next
    <2>1. PICK count \in {0, 1} : SettlesUp(count)
      <3>1. PICK m \in Markets :
              \/ SettleStep(m)
              \/ \E u \in Users : Create(m, u) \/ CreateShadow(m, u) \/ TradeStep(u, m)
        BY <1>2 DEF Next
      <3>2. CASE SettleStep(m)
        BY <1>1, <3>2, SettlementMovesPoints
      <3>3. ASSUME NEW u \in Users, Create(m, u) \/ CreateShadow(m, u) PROVE SettlesUp(0)
        BY <1>1, <3>3, CreationMovesPoints
      <3>4. ASSUME NEW u \in Users, TradeStep(u, m) PROVE SettlesUp(0)
        BY <1>1, <3>4, TradingMovesPoints
      <3>5. QED
        BY <3>1, <3>2, <3>3, <3>4
    <2>2. Gap \in 0 .. Cardinality(Users) * Payments
      BY ConservedIsGap DEF PointsInv
    <2>3. Gap \in Int /\ Payments \in Nat /\ Cardinality(Users) \in Nat
      BY <1>1, IssuedType, BackingType, BalancesType, PaymentsType, FiniteAssumption,
         FS_CardinalityType DEF Gap
    <2>4. PICK lost \in 0 .. Cardinality(Users) * count : Gap' = Gap + lost
      BY <2>1 DEF SettlesUp
    <2>5. Gap + lost \in 0 .. Cardinality(Users) * (Payments + count)
      BY <2>2, <2>3, CountedGap
    <2>6. Payments' = Payments + count /\ Balances'
      BY <2>1 DEF SettlesUp
    <2>7. PointsConserved'
      BY <2>4, <2>5, <2>6, ConservedIsGap
    <2>8. QED
      BY <1>1, <2>6, <2>7 DEF PointsInv
  <1>3. CASE UNCHANGED tradingVars
    BY <1>1, <1>3 DEF PointsInv, Balances, PointsConserved, Issued, Created, tradingVars,
       market, poolVars, books
  <1>4. QED
    BY <1>2, <1>3

LEMMA PointsInvAlways == Spec => []PointsInv
  BY InitPointsInv, NextKeepsPoints, PTL DEF Spec

\* No creation, trade, payout, refund or overturned decision takes a table out of
\* its type; balances are whole points.
THEOREM TypesCorrect == Spec => []TypeOK
  <1>1. PointsInv => TypeOK
    BY DEF PointsInv, IInv, Books, Balances, TypeOK
  <1>2. QED
    BY <1>1, PointsInvAlways, PTL

\* Whatever is created, traded, paid, overturned and paid again, every point
\* issued is in a balance or backs a market, but for those that payouts rounded
\* away: less than one for each user and payout.
THEOREM PointsConservedAlways == Spec => []PointsConserved
  <1>1. PointsInv => PointsConserved
    BY DEF PointsInv
  <1>2. QED
    BY <1>1, PointsInvAlways, PTL
=============================================================================
