------------------------- MODULE OptionTradingProofs -------------------------
(***************************************************************************)
(* A market's options beside its pool, for any users, markets, options and *)
(* amounts.                                                                *)
(*                                                                         *)
(* RestartRepairsOptions is not inductive: a creation that runs has        *)
(* inserted a prefix of its list (Prefix), there is nothing for a market   *)
(* that is not there (Nothing), and no market that a start has found is    *)
(* one that is being created (ServedAreDone).                              *)
(*                                                                         *)
(* The ledger and the points need the books of the pool (Books), the       *)
(* repair, and tables without anything for an option that is not there     *)
(* (OptionBooks).  OptionGap is what is missing of the points issued: each *)
(* step that is not a payout leaves it as it is.                           *)
(***************************************************************************)
EXTENDS OptionTrading, BinaryTradingProofs

First(list, n) == {list[i] : i \in 1..n}

\* The options of a market under creation are the first ones of its list.
Prefix ==
    \A m \in building :
        /\ asked[m] \in OptionLists
        /\ \E n \in 0 .. Len(asked[m]) - 1 :
              rows[m] = First(asked[m], n) /\ IsFiniteSet(rows[m]) /\ Cardinality(rows[m]) = n

Nothing == \A m \in Markets \ Created : rows[m] = {} /\ m \notin building

ServedAreDone == served \subseteq Created \ building

RepairInv ==
    /\ stage \in [Markets -> {"none", "open", "over", "paid"}]
    /\ DOMAIN rows = Markets /\ DOMAIN asked = Markets
    /\ building \subseteq Markets
    /\ \A m \in Markets : IsFiniteSet(rows[m])
    /\ Prefix
    /\ Nothing
    /\ ServedAreDone
    /\ RestartRepairsOptions

-----------------------------------------------------------------------------
(* Counting options                                                        *)

LEMMA AtLeastTwo ==
  ASSUME NEW S, IsFiniteSet(S), NEW x \in S, NEW y \in S, x # y
  PROVE  Cardinality(S) >= 2
<1>1. Cardinality(S) \in Nat
  BY FS_CardinalityType
<1>2. Cardinality(S) # 0
  BY FS_EmptySet
<1>3. Cardinality(S) # 1
  BY FS_Singleton
<1>4. QED BY <1>1, <1>2, <1>3

\* A set of two that shares two elements with another one is part of it.
LEMMA PairWithin ==
  ASSUME NEW a, NEW b, NEW T, Cardinality({a, b} \cap T) >= 2
  PROVE  a \in T /\ b \in T
<1> DEFINE S == {a, b} \cap T
<1>1. Cardinality({}) = 0 /\ Cardinality({a}) = 1 /\ Cardinality({b}) = 1
  BY FS_EmptySet, FS_Singleton
<1>2. Cardinality(S) >= 2
  OBVIOUS
<1> HIDE DEF S
<1>3. S # {} /\ S # {a} /\ S # {b}
  BY <1>1, <1>2
<1> USE DEF S
<1>4. CASE a \notin T
  BY <1>3, <1>4
<1>5. CASE b \notin T
  BY <1>3, <1>5
<1>6. QED BY <1>4, <1>5

LEMMA SidesAreLabels == Sides \subseteq Labels
<1>1. ASSUME NEW s \in Sides PROVE s \in Labels
  BY <1>1 DEF Labels
<1>2. QED BY <1>1

LEMMA ListShape ==
  ASSUME NEW list \in OptionLists
  PROVE  /\ Len(list) \in Nat /\ Len(list) >= 2
         /\ DOMAIN list = 1 .. Len(list)
         /\ \A i, j \in DOMAIN list : list[i] = list[j] => i = j
         /\ Range(list) \subseteq Labels
         /\ \A n \in 0 .. Len(list) : First(list, n) \subseteq Range(list)
<1>1. list \in Seq(STRING)
  BY OptionAssumption
<1>2. Len(list) \in Nat /\ DOMAIN list = 1 .. Len(list)
  BY <1>1
<1>3. Range(list) \subseteq Labels
  BY DEF Labels
<1>4. \A n \in 0 .. Len(list) : First(list, n) \subseteq Range(list)
  BY <1>2 DEF First, Range
<1>5. QED BY <1>2, <1>3, <1>4, OptionAssumption

LEMMA FirstGrows ==
  ASSUME NEW list \in OptionLists, NEW n \in 0 .. Len(list) - 1,
         IsFiniteSet(First(list, n)), Cardinality(First(list, n)) = n
  PROVE  /\ First(list, n) \cup {list[n + 1]} = First(list, n + 1)
         /\ list[n + 1] \notin First(list, n)
         /\ list[n + 1] \in Labels
         /\ IsFiniteSet(First(list, n + 1))
         /\ Cardinality(First(list, n + 1)) = n + 1
<1>1. Len(list) \in Nat /\ DOMAIN list = 1 .. Len(list) /\ n + 1 \in DOMAIN list
  BY ListShape
<1>2. 1 .. n + 1 = (1 .. n) \cup {n + 1}
  BY <1>1
<1>3. First(list, n) \cup {list[n + 1]} = First(list, n + 1)
  BY <1>2 DEF First
<1>4. list[n + 1] \notin First(list, n)
  BY <1>1, ListShape DEF First
<1>5. list[n + 1] \in Labels
  BY <1>1, ListShape DEF Range
<1> DEFINE S == First(list, n)
<1>6. IsFiniteSet(S) /\ Cardinality(S) = n /\ list[n + 1] \notin S
  BY <1>4
<1> HIDE DEF S
<1>7. IsFiniteSet(S \cup {list[n + 1]}) /\ Cardinality(S \cup {list[n + 1]}) = n + 1
  BY <1>6, FS_AddElement
<1>8. QED
  BY <1>3, <1>4, <1>5, <1>7 DEF S

\* What a start finds missing of a market is not there, unless NO stands alone; with
\* it the market has two options, and nothing of its own beside two that were asked.
LEMMA RestartAddsOptions ==
  ASSUME NEW m \in Markets, IsFiniteSet(rows[m]), rows[m] # {"no"}
  PROVE  /\ IsFiniteSet(Missing(m)) /\ Missing(m) \subseteq Sides /\ Missing(m) \subseteq Labels
         /\ rows[m] \cap Missing(m) = {}
         /\ IsFiniteSet(rows[m] \cup Missing(m))
         /\ Cardinality(rows[m] \cup Missing(m)) >= 2
         /\ Missing(m) # {} => \E a, b : rows[m] \cup Missing(m) = {a, b}
<1> DEFINE all == rows[m] \cup Missing(m)
<1>1. Missing(m) \in {{}, {"no"}, {"no"} \cup {"yes"}}
  BY DEF Missing
<1>2. IsFiniteSet({}) /\ IsFiniteSet({"no"}) /\ IsFiniteSet({"no"} \cup {"yes"})
  BY FS_EmptySet, FS_Singleton, FS_AddElement
<1>3. IsFiniteSet(Missing(m)) /\ Missing(m) \subseteq Sides /\ Missing(m) \subseteq Labels
  <2>1. IsFiniteSet(Missing(m))
    BY <1>1, <1>2
  <2>2. Missing(m) \subseteq Sides
    BY <1>1 DEF Sides
  <2>3. QED BY <2>1, <2>2, SidesAreLabels
<1>4. IsFiniteSet(all)
  <2>1. IsFiniteSet(Missing(m))
    BY <1>3
  <2>2. QED BY <2>1, FS_Union
<1>5. CASE rows[m] = {}
  <2>1. all = {"yes", "no"} /\ rows[m] \cap Missing(m) = {}
    BY <1>5, FS_EmptySet DEF Missing
  <2>2. "yes" \in all /\ "no" \in all
    BY <2>1
  <2>3. Cardinality(all) >= 2
    BY <1>4, <2>2, AtLeastTwo
  <2>4. QED BY <1>3, <1>4, <2>1, <2>3
<1>6. CASE rows[m] # {} /\ Cardinality(rows[m]) = 1
  <2>1. PICK x : rows[m] = {x}
    BY <1>6, FS_Singleton
  <2>2. x # "no" /\ Missing(m) = {"no"} /\ all = {x, "no"}
    BY <1>6, <2>1 DEF Missing
  <2>3. QED BY <1>3, <1>4, <2>1, <2>2, AtLeastTwo
<1>7. CASE rows[m] # {} /\ Cardinality(rows[m]) # 1
  <2>1. all = rows[m] /\ Missing(m) = {}
    BY <1>7 DEF Missing
  <2>2. Cardinality(rows[m]) \in Nat /\ Cardinality(rows[m]) # 0
    BY <1>7, FS_CardinalityType, FS_EmptySet
  <2>3. QED BY <1>3, <1>4, <1>7, <2>1, <2>2
<1>8. QED BY <1>5, <1>6, <1>7

\* Where NO stands alone, a start inserts YES before it fails, and only where there
\* is no option.
LEMMA FailedStartAdds ==
  ASSUME NEW m \in Markets, IsFiniteSet(rows[m])
  PROVE  /\ Missing(m) \ {"no"} = IF rows[m] = {} THEN {"yes"} ELSE {}
         /\ IsFiniteSet(Missing(m) \ {"no"}) /\ Missing(m) \ {"no"} \subseteq Labels
         /\ rows[m] \cap (Missing(m) \ {"no"}) = {}
<1> DEFINE more == Missing(m) \ {"no"}
<1>1. CASE rows[m] = {}
  <2>1. more = {"yes"} /\ {"yes"} \subseteq Labels
    <3>1. Missing(m) = {"yes", "no"}
      BY <1>1, FS_EmptySet DEF Missing
    <3>2. more = {"yes"}
      BY <3>1
    <3>3. QED BY <3>2, SidesAreLabels DEF Sides
  <2>2. IsFiniteSet({"yes"})
    BY FS_Singleton
  <2>3. QED BY <1>1, <2>1, <2>2
<1>2. CASE rows[m] # {}
  <2>1. Missing(m) \in {{"no"}, {}}
    BY <1>2 DEF Missing
  <2>2. more = {}
    BY <2>1
  <2>3. IsFiniteSet({})
    BY FS_EmptySet
  <2>4. QED BY <1>2, <2>2, <2>3
<1>3. QED BY <1>1, <1>2

-----------------------------------------------------------------------------
(* One lemma for each kind of step                                         *)

\* Trading and settling create no market and touch no row of market_options.
LEMMA StageFrame ==
  ASSUME RepairInv, UNCHANGED <<asked, rows, building, served>>,
         stage' \in [Markets -> {"none", "open", "over", "paid"}],
         Created' = Created
  PROVE  RepairInv'
  BY DEF RepairInv, Prefix, Nothing, ServedAreDone, RestartRepairsOptions, Asked

LEMMA SettlingCreatesNothing ==
  ASSUME RepairInv, NEW m \in Markets,
         \/ SettleStep(m)
         \/ \E l \in Labels : PayoutOption(m, l)
         \/ \E u \in Users : TradeStep(u, m)
         \/ \E u \in Users, l \in Labels : OptionStep(u, m, l)
  PROVE  /\ stage' \in [Markets -> {"none", "open", "over", "paid"}]
         /\ Created' = Created
<1>1. CASE EndTrading(m) \/ Overturn(m)
  BY <1>1 DEF EndTrading, Overturn, RepairInv, Created
<1>2. CASE MarkPaid(m)
  BY <1>2 DEF MarkPaid, RepairInv, Created
<1>3. ASSUME NEW u \in Users, TradeStep(u, m) \/ \E l \in Labels : OptionStep(u, m, l)
      PROVE  UNCHANGED market
  BY <1>3 DEF TradeStep, OptionStep, Buy, Sell, BuyOption, SellOption
<1>4. QED
  BY <1>1, <1>2, <1>3
     DEF SettleStep, PayoutCancelled, PayoutSide, PayoutOption, RepairInv, Created, market

LEMMA CreationKeeps ==
  ASSUME RepairInv, NEW m \in Markets, NEW u \in Users,
         CreateMarket(m, u) \/ (CreateShadow(m, u) /\ UNCHANGED optionVars)
  PROVE  RepairInv'
<1> USE DEF RepairInv
<1>1. /\ stage[m] = "none" /\ stage' = [stage EXCEPT ![m] = "open"]
      /\ rows' = rows /\ served' = served
      /\ DOMAIN asked' = Markets /\ \A k \in Markets \ {m} : asked'[k] = asked[k]
  BY DEF CreateMarket, CreateShadow, Create, InsertMarket, optionVars, optionRows, server
<1>2. /\ stage' \in [Markets -> {"none", "open", "over", "paid"}]
      /\ m \notin Created /\ Created' = Created \cup {m}
  BY <1>1 DEF Created
<1>3. rows[m] = {} /\ m \notin building
  BY <1>2 DEF Nothing
<1>4. RestartRepairsOptions'
  BY <1>1, <1>2, <1>3 DEF RestartRepairsOptions, Asked, Created
<1>5. CASE CreateMarket(m, u)
  <2>1. building' = building \cup {m}
    BY <1>5 DEF CreateMarket
  <2>2. /\ rows[m] = First(asked'[m], 0) /\ IsFiniteSet({}) /\ Cardinality({}) = 0
    BY <1>3, FS_EmptySet DEF First
  <2>3. Prefix'
    <3>1. asked'[m] \in OptionLists
      BY <1>5 DEF CreateMarket
    <3>2. 0 \in 0 .. Len(asked'[m]) - 1
      BY <3>1, ListShape
    <3>3. QED BY <1>1, <1>3, <2>1, <2>2, <3>1, <3>2 DEF Prefix
  <2>4. Nothing' /\ ServedAreDone'
    BY <1>1, <1>2, <2>1 DEF Nothing, ServedAreDone
  <2>5. QED BY <1>1, <1>2, <1>4, <2>1, <2>3, <2>4
<1>6. CASE CreateShadow(m, u) /\ UNCHANGED optionVars
  <2>1. building' = building /\ asked' = asked
    BY <1>6 DEF optionVars, optionRows
  <2>2. Prefix' /\ Nothing' /\ ServedAreDone'
    BY <1>1, <1>2, <2>1 DEF Prefix, Nothing, ServedAreDone
  <2>3. QED BY <1>1, <1>2, <1>4, <2>1, <2>2
<1>7. QED BY <1>5, <1>6

LEMMA UpsertKeeps ==
  ASSUME RepairInv, NEW m \in Markets, UpsertOption(m)
  PROVE  RepairInv'
<1> USE DEF RepairInv
<1> DEFINE list == asked[m]
<1>1. PICK n \in 0 .. Len(list) - 1 :
          /\ list \in OptionLists
          /\ rows[m] = First(list, n)
          /\ IsFiniteSet(First(list, n)) /\ Cardinality(First(list, n)) = n
  BY DEF UpsertOption, Prefix
<1>2. /\ m \in building
      /\ rows' = [rows EXCEPT ![m] = First(list, n) \cup {list[n + 1]}]
      /\ building' = IF n + 1 = Len(list) THEN building \ {m} ELSE building
      /\ UNCHANGED <<stage, served, asked>>
  BY <1>1 DEF UpsertOption, InsertOption, tradingVars, market, server
<1>3. /\ rows'[m] = First(list, n + 1) /\ IsFiniteSet(First(list, n + 1))
      /\ Cardinality(First(list, n + 1)) = n + 1
      /\ \A k \in Markets \ {m} : rows'[k] = rows[k]
      /\ DOMAIN rows' = Markets
  BY <1>1, <1>2, FirstGrows
<1>4. Created' = Created /\ Created \subseteq Markets /\ m \in Created
  BY <1>2 DEF Created, Nothing
<1>5. Len(list) \in Nat
  BY <1>1, ListShape
<1>6. Prefix'
  <2>1. ASSUME NEW k \in building'
        PROVE  /\ asked[k] \in OptionLists
               /\ \E i \in 0 .. Len(asked[k]) - 1 :
                     /\ rows'[k] = First(asked[k], i)
                     /\ IsFiniteSet(rows'[k]) /\ Cardinality(rows'[k]) = i
    <3>1. CASE k = m
      <4>1. n + 1 \in 0 .. Len(list) - 1
        BY <1>2, <1>5, <2>1, <3>1
      <4>2. QED BY <1>1, <1>3, <3>1, <4>1
    <3>2. CASE k # m
      BY <1>2, <1>3, <2>1, <3>2 DEF Prefix
    <3>3. QED BY <3>1, <3>2
  <2>2. QED BY <1>2, <2>1 DEF Prefix
<1>7. Nothing' /\ ServedAreDone'
  BY <1>2, <1>3, <1>4 DEF Nothing, ServedAreDone
<1>8. RestartRepairsOptions'
  <2>1. \A k \in served : k # m /\ rows'[k] = rows[k]
    BY <1>2, <1>3, <1>4 DEF ServedAreDone
  <2>2. rows'[m] \subseteq Asked(m)
    <3>1. n + 1 \in 0 .. Len(list)
      BY <1>5
    <3>2. QED BY <1>1, <1>3, <3>1, ListShape DEF Asked
  <2>3. QED BY <1>2, <1>3, <1>4, <2>1, <2>2 DEF RestartRepairsOptions, Asked
<1>9. QED BY <1>2, <1>3, <1>6, <1>7, <1>8

LEMMA StopKeeps ==
  ASSUME RepairInv, NEW m \in Markets, StopCreating(m)
  PROVE  RepairInv'
<1>1. /\ building' = building \ {m} /\ UNCHANGED <<stage, asked, rows, served>>
  BY DEF StopCreating, tradingVars, market, server
<1>2. Created' = Created
  BY <1>1 DEF Created
<1>3. QED
  BY <1>1, <1>2 DEF RepairInv, Prefix, Nothing, ServedAreDone, RestartRepairsOptions, Asked

LEMMA RestartKeeps ==
  ASSUME RepairInv, Restart
  PROVE  RepairInv'
<1> USE DEF RepairInv
<1>1. /\ building' = {} /\ served' = Created /\ stage' = stage /\ asked' = asked
      /\ rows' = [m \in Markets |->
            rows[m] \cup IF m \in Created THEN Missing(m) ELSE {}]
      /\ \A m \in Created : rows[m] # {"no"}
  BY DEF Restart, Backfill, Clashing, tradingVars, market
<1>2. Created' = Created /\ Created \subseteq Markets
  BY <1>1 DEF Created
<1>3. ASSUME NEW m \in Created
      PROVE  IsFiniteSet(rows'[m]) /\ Cardinality(rows'[m]) >= 2
  BY <1>1, <1>2, RestartAddsOptions
<1>4. \A m \in Markets \ Created : rows'[m] = {}
  BY <1>1 DEF Nothing
<1>5. \A m \in Markets : IsFiniteSet(rows'[m])
  BY <1>3, <1>4, FS_EmptySet
<1>6. Nothing' /\ Prefix' /\ ServedAreDone'
  BY <1>1, <1>2, <1>4 DEF Nothing, Prefix, ServedAreDone
<1>7. ASSUME NEW m \in Created, Cardinality(rows'[m] \cap Asked(m)) >= 2
      PROVE  rows'[m] \subseteq Asked(m)
  <2>1. rows'[m] = rows[m] \cup Missing(m) /\ m \in Markets
    BY <1>1, <1>2
  <2>2. CASE Missing(m) = {}
    BY <1>7, <2>1, <2>2 DEF RestartRepairsOptions
  <2>3. CASE Missing(m) # {}
    <3>1. PICK a, b : rows'[m] = {a, b}
      BY <1>1, <2>1, <2>3, RestartAddsOptions
    <3>2. a \in Asked(m) /\ b \in Asked(m)
      BY <1>7, <3>1, PairWithin
    <3>3. QED BY <3>1, <3>2
  <2>4. QED BY <2>2, <2>3
<1>8. RestartRepairsOptions'
  BY <1>1, <1>2, <1>3, <1>7 DEF RestartRepairsOptions, Asked
<1>9. QED BY <1>1, <1>5, <1>6, <1>8

LEMMA FailedStartKeeps ==
  ASSUME RepairInv, FailedStart
  PROVE  RepairInv'
<1> USE DEF RepairInv
<1>1. /\ building' = {} /\ UNCHANGED <<stage, asked, served>>
      /\ rows' = [m \in Markets |->
            rows[m] \cup IF m \in Created THEN Missing(m) \ {"no"} ELSE {}]
  BY DEF FailedStart, Backfill, tradingVars, market
<1>2. Created' = Created /\ Created \subseteq Markets
  BY <1>1 DEF Created
<1>3. ASSUME NEW m \in Markets
      PROVE  rows'[m] = rows[m] \/ (m \in Created /\ rows[m] = {} /\ rows'[m] = {"yes"})
  BY <1>1, FailedStartAdds
<1>4. \A m \in Markets : IsFiniteSet(rows'[m])
  <2>1. IsFiniteSet({"yes"})
    BY FS_Singleton
  <2>2. QED BY <1>3, <2>1
<1>5. Nothing' /\ Prefix' /\ ServedAreDone'
  BY <1>1, <1>2, <1>3 DEF Nothing, Prefix, ServedAreDone
<1>6. \A m \in served : rows'[m] = rows[m]
  <2>1. ~(Cardinality({}) >= 2)
    BY FS_EmptySet
  <2>2. QED BY <1>2, <1>3, <2>1 DEF RestartRepairsOptions, ServedAreDone
<1>7. ASSUME NEW m \in Created, Cardinality(rows'[m] \cap Asked(m)) >= 2
      PROVE  rows'[m] \subseteq Asked(m)
  <2>1. m \in Markets
    BY <1>2
  <2>2. CASE rows'[m] = rows[m]
    BY <1>7, <2>2 DEF RestartRepairsOptions
  <2>3. CASE rows'[m] = {"yes"}
    <3>1. {"yes", "yes"} = {"yes"}
      OBVIOUS
    <3>2. "yes" \in Asked(m)
      BY <1>7, <2>3, <3>1, PairWithin
    <3>3. QED BY <2>3, <3>2
  <2>4. QED BY <1>3, <2>1, <2>2, <2>3
<1>8. RestartRepairsOptions'
  BY <1>1, <1>2, <1>6, <1>7 DEF RestartRepairsOptions, Asked
<1>9. QED BY <1>1, <1>4, <1>5, <1>8

-----------------------------------------------------------------------------

LEMMA NextKeepsRepair ==
  ASSUME RepairInv, [OptionNext]_allVars
  PROVE  RepairInv'
<1>1. ASSUME NEW m \in Markets,
             \/ SettleStep(m) /\ UNCHANGED optionVars
             \/ \E l \in Labels : PayoutOption(m, l)
             \/ \E u \in Users : TradeStep(u, m) /\ UNCHANGED optionVars
             \/ \E u \in Users, l \in Labels : OptionStep(u, m, l)
      PROVE  RepairInv'
  <2>1. UNCHANGED <<server, optionRows>>
    BY <1>1 DEF PayoutOption, OptionStep, BuyOption, SellOption, optionVars
  <2>2. QED
    BY <1>1, <2>1, SettlingCreatesNothing, StageFrame DEF optionRows, server
<1>2. CASE UNCHANGED allVars
  BY <1>2, StageFrame
     DEF allVars, tradingVars, market, optionVars, optionRows, server, RepairInv, Created
<1>3. QED
  BY <1>1, <1>2, CreationKeeps, UpsertKeeps, StopKeeps, RestartKeeps, FailedStartKeeps
     DEF OptionNext, Reached

LEMMA InitRepair == OptionInit => RepairInv
<1>1. IsFiniteSet({})
  BY FS_EmptySet
<1>2. QED
  BY <1>1 DEF OptionInit, Init, RepairInv, Prefix, Nothing, ServedAreDone, Created,
     RestartRepairsOptions

\* For any lists of options, in any order: wherever creations were cut short, by an
\* error in a running server or by its end, every market that a start has found has
\* two options at least, and the start leaves two options of a list as they are.
THEOREM RestartRepairsOptionsAlways == OptionSpec => []RestartRepairsOptions
<1>1. RepairInv => RestartRepairsOptions
  BY DEF RepairInv
<1>2. QED BY <1>1, InitRepair, NextKeepsRepair, PTL DEF OptionSpec

-----------------------------------------------------------------------------
(* The books of the options.  The pools' books, BinaryTradingProofs' Books, *)
(* also hold with options: a sale that falls back on pool shares moves them *)
(* without a cost.  A backfill divides by a pool's reserves (PoolsAlive),   *)
(* and a trade, but for a total of 0, by a probability that is not 0.       *)

OptionTables ==
    /\ down \in BOOLEAN
    /\ served \subseteq Markets
    /\ asked \in [Markets -> OptionLists \cup {<<>>}]
    /\ rows \in [Markets -> SUBSET Labels]
    /\ building \subseteq Markets
    /\ optCollateral \in [Markets -> [Labels -> Int]]
    /\ optShares \in [Users -> [Markets -> [Labels -> Nat \cup {NoRow, NaN}]]]
    /\ optSpent \in [Users -> [Markets -> Int]]
    /\ seeded \in [Markets -> Int]
    /\ optHeld \in [Markets -> [Labels -> Int]]

PoolsAlive == \A m \in Created : pool[m].yes + pool[m].no > 0

OptionsUntouched ==
    \A m \in Markets \ Created : seeded[m] = 0 /\ \A u \in Users : optSpent[u][m] = 0

OptionCosts(m) == [u \in Users |-> optSpent[u][m]]

OptionLedger == \A m \in Created : SumFunction(OptionCosts(m)) = Traded(m)

OptionBooks ==
    /\ Books
    /\ Balances
    /\ PoolsAlive
    /\ OptionTables
    /\ OptionsUntouched
    /\ OptionLedger
    /\ RepairInv

LEMMA LargerOfTwo ==
  ASSUME NEW x \in Int, NEW y \in Int
  PROVE  Max({x, y}) \in {x, y} /\ Max({x, y}) >= x
<1>1. \E z \in {x, y} : \A w \in {x, y} : z >= w
  OBVIOUS
<1>2. Max({x, y}) \in {x, y} /\ \A w \in {x, y} : Max({x, y}) >= w
  BY <1>1 DEF Max
<1>3. QED BY <1>2

LEMMA LabelsOfRows ==
  ASSUME OptionTables, RepairInv, NEW m \in Markets
  PROVE  /\ IsFiniteSet(rows[m]) /\ rows[m] \subseteq Labels
         /\ \A l \in Labels : optCollateral[m][l] \in Int
         /\ Total(m) \in Int
<1>1. IsFiniteSet(rows[m]) /\ rows[m] \subseteq Labels /\ optCollateral[m] \in [Labels -> Int]
  BY DEF OptionTables, RepairInv
<1>2. \A l \in rows[m] : optCollateral[m][l] \in Int
  BY <1>1
<1>3. Total(m) \in Int
  BY <1>1, <1>2, SumType DEF Total
<1>4. QED BY <1>1, <1>3

LEMMA TradedType ==
  ASSUME OptionTables, RepairInv, NEW m \in Markets
  PROVE  Traded(m) \in Int
<1>1. Total(m) \in Int /\ seeded[m] \in Int
  BY LabelsOfRows DEF OptionTables
<1>2. QED BY <1>1 DEF Traded

\* A probability is never 0, nor anything over 0.
LEMMA ProbabilityPositive ==
  ASSUME OptionTables, RepairInv, NEW m \in Markets, NEW l \in Labels
  PROVE  Probability(m, l).num \in Nat \ {0} /\ Probability(m, l).den \in Nat \ {0}
<1> DEFINE c == optCollateral[m][l]
           t == Total(m)
<1>1. c \in Int /\ t \in Int
  BY LabelsOfRows
<1>2. Probability(m, l) = IF c * t > 0 THEN [num |-> Magnitude(c), den |-> Magnitude(t)]
                                       ELSE [num |-> 1, den |-> 20]
  BY DEF Probability
<1> HIDE DEF c, t
<1>3. CASE c * t > 0
  <2>1. c # 0 /\ t # 0
    BY <1>1, <1>3
  <2>2. Magnitude(c) \in Nat \ {0} /\ Magnitude(t) \in Nat \ {0}
    BY <1>1, <2>1 DEF Magnitude
  <2>3. QED BY <1>2, <1>3, <2>2
<1>4. CASE ~(c * t > 0)
  BY <1>2, <1>4
<1>5. QED BY <1>3, <1>4

LEMMA PerOptionType ==
  ASSUME NEW m \in Markets, asked[m] \in OptionLists
  PROVE  PerOption(m) \in Int
<1>1. Len(asked[m]) \in Nat \ {0} /\ Liquidity \in Nat
  BY ListShape, TradingAssumption
<1> DEFINE share == Liquidity \div Len(asked[m])
<1>2. share \in Int
  BY <1>1, DivisionOfNaturals
<1>3. PerOption(m) = Max({1, share})
  BY DEF PerOption
<1> HIDE DEF share
<1>4. Max({1, share}) \in {1, share}
  BY <1>2, LargerOfTwo
<1>5. QED BY <1>2, <1>3, <1>4

\* What migrate.Run reads of a pool gives a collateral: it never divides by 0.
LEMMA BackfillType ==
  ASSUME Books, PoolsAlive, NEW m \in Created, NEW l
  PROVE  BackfilledCollateral(m, l) \in Int
<1> DEFINE n == collateral[m] * pool[m].no
           d == pool[m].yes + pool[m].no
           yes == n \div d
<1>1. collateral[m] \in Int /\ pool[m].no \in Nat /\ pool[m].yes \in Nat
  BY DEF Books, TradingTypeOK, Units, Created
<1>2. n \in Int /\ d \in Nat \ {0}
  BY <1>1 DEF PoolsAlive
<1> HIDE DEF n, d
<1>3. yes \in Int
  BY <1>2, Z3
<1> DEFINE points == IF l = "yes" THEN yes ELSE collateral[m] - yes
<1>4. points \in Int
  BY <1>1, <1>3
<1>5. BackfilledCollateral(m, l) = Max({1, points})
  BY DEF BackfilledCollateral, n, d
<1> HIDE DEF points
<1>6. QED BY <1>4, <1>5, LargerOfTwo

-----------------------------------------------------------------------------
(* Points in the options                                                   *)

TradedOf == [m \in Markets |-> Traded(m)]
OptionTraded == SumFunctionOnSet(TradedOf, Created)
OptionGap == Gap - OptionTraded

\* SettlesUp, with what trades put into the options counted in.
OptionSettlesUp(count) ==
    /\ Payments' = Payments + count
    /\ \E lost \in 0 .. Cardinality(Users) * count : OptionGap' = OptionGap + lost

LEMMA GapType ==
  ASSUME Books, Balances
  PROVE  Gap \in Int /\ Payments \in Nat /\ Cardinality(Users) \in Nat
BY IssuedType, BackingType, BalancesType, PaymentsType, FiniteAssumption, FS_CardinalityType DEF Gap

LEMMA OptionTradedType ==
  ASSUME Books, OptionTables, RepairInv
  PROVE  /\ \A m \in Markets : TradedOf[m] \in Int
         /\ IsFiniteSet(Created) /\ Created \subseteq Markets
         /\ OptionTraded \in Int
<1>1. \A m \in Markets : TradedOf[m] \in Int
  BY TradedType DEF TradedOf
<1>2. IsFiniteSet(Created) /\ Created \subseteq Markets
  BY BackingType
<1>3. OptionTraded \in Int
  BY <1>1, <1>2, SumType DEF OptionTraded
<1>4. QED BY <1>1, <1>2, <1>3

LEMMA TradedStays ==
  ASSUME Books, OptionTables, RepairInv, Created' = Created,
         \A m \in Created : Traded(m)' = Traded(m)
  PROVE  OptionTraded' = OptionTraded
<1> DEFINE f == TradedOf
           g == TradedOf'
           S == Created
<1>1. IsFiniteSet(S) /\ \A m \in S : f[m] \in Int /\ f[m] = g[m]
  BY OptionTradedType DEF TradedOf
<1>2. OptionTraded = SumFunctionOnSet(f, S) /\ OptionTraded' = SumFunctionOnSet(g, S)
  BY DEF OptionTraded
<1> HIDE DEF f, g, S
<1>3. QED BY <1>1, <1>2, SumSame

LEMMA TradedChanges ==
  ASSUME Books, OptionTables, RepairInv, Created' = Created,
         NEW m \in Created, NEW cost \in Int, Traded(m)' = Traded(m) + cost,
         \A n \in Created \ {m} : Traded(n)' = Traded(n)
  PROVE  OptionTraded' = OptionTraded + cost
<1> DEFINE f == TradedOf
           g == TradedOf'
           S == Created
<1>1. \A n \in Created : Traded(n) \in Int /\ f[n] = Traded(n) /\ g[n] = Traded(n)'
  BY OptionTradedType DEF TradedOf
<1>2. \A n \in S : f[n] \in Int /\ g[n] \in Int
  BY <1>1
<1>3. /\ IsFiniteSet(S) /\ m \in S
      /\ \A n \in S \ {m} : g[n] = f[n]
  BY <1>1, OptionTradedType
<1>4. g[m] = f[m] + cost
  BY <1>1
<1>5. OptionTraded = SumFunctionOnSet(f, S) /\ OptionTraded' = SumFunctionOnSet(g, S)
  BY DEF OptionTraded
<1>6. OptionTraded \in Int /\ f[m] \in Int
  BY <1>2, OptionTradedType
<1> HIDE DEF f, g, S
<1>7. SumFunctionOnSet(g, S) = SumFunctionOnSet(f, S) + (g[m] - f[m])
  BY <1>2, <1>3, SumChange
<1>8. QED BY <1>4, <1>5, <1>6, <1>7

LEMMA SettlesUpWithOptions ==
  ASSUME OptionBooks, NEW count \in Nat, SettlesUp(count), OptionTraded' = OptionTraded
  PROVE  OptionSettlesUp(count) /\ Balances'
<1>1. Gap \in Int /\ OptionTraded \in Int /\ Cardinality(Users) \in Nat
  BY GapType, OptionTradedType DEF OptionBooks
<1>2. PICK lost \in 0 .. Cardinality(Users) * count : Gap' = Gap + lost
  BY DEF SettlesUp
<1>3. OptionGap' = OptionGap + lost
  BY <1>1, <1>2 DEF OptionGap
<1>4. QED BY <1>2, <1>3 DEF OptionSettlesUp, SettlesUp

-----------------------------------------------------------------------------
(* Steps that leave the options' tables alone                              *)

LEMMA TradedFrame ==
  ASSUME UNCHANGED <<rows, seeded, optCollateral>>
  PROVE  \A m : Traded(m)' = Traded(m)
BY DEF Traded, Total

LEMMA PoolStepKeeps ==
  ASSUME OptionBooks, RepairInv', Books', PoolsAlive', UNCHANGED optionVars, Created' = Created,
         NEW count \in Nat, SettlesUp(count)
  PROVE  OptionBooks' /\ OptionSettlesUp(count)
<1> USE DEF OptionBooks, optionVars, server, optionRows, optionBooks
<1>1. \A m : Traded(m)' = Traded(m)
  BY TradedFrame
<1>2. OptionTraded' = OptionTraded
  BY <1>1, TradedStays
<1>3. OptionSettlesUp(count) /\ Balances'
  BY <1>2, SettlesUpWithOptions
<1>4. OptionTables' /\ OptionsUntouched'
  BY DEF OptionTables, OptionsUntouched
<1>5. OptionLedger'
  <2>1. \A m \in Created : OptionCosts(m)' = OptionCosts(m)
    BY DEF OptionCosts
  <2>2. QED BY <1>1, <2>1 DEF OptionLedger
<1>6. QED BY <1>3, <1>4, <1>5

LEMMA NewPoolAlive == New(Liquidity).yes + New(Liquidity).no > 0
<1>1. Liquidity * Scale \in Nat \ {0}
  BY TradingAssumption, ScaleAssumption
<1>2. QED BY <1>1 DEF New

LEMMA TradesLeavePoolsAlive ==
  ASSUME NEW p \in Units, NEW s \in Sides, NEW a \in Nat \ {0}
  PROVE  /\ Bought(p, s, a).pool.yes + Bought(p, s, a).pool.no > 0
         /\ Sold(p, s, a).pool.yes + Sold(p, s, a).pool.no > 0
<1>1. p.yes \in Nat /\ p.no \in Nat /\ p[s] \in Nat /\ p[Opposite(s)] \in Nat
  BY DEF Units, Sides, Opposite
<1>2. a * Scale \in Nat \ {0}
  BY UnitsOfAmount
<1>3. Bought(p, s, a).pool \in Units /\ Sold(p, s, a).pool \in Units
  BY BuyingMovesReserves, SellingMovesReserves
<1> DEFINE b == Bought(p, s, a).pool
           t == Sold(p, s, a).pool
<1>4. b[Opposite(s)] = p[Opposite(s)] + a * Scale
  BY <1>1 DEF Bought, Units, Sides, Opposite
<1>5. t[s] = p[s] + a * Scale
  BY <1>1 DEF Sold, Units, Sides, Opposite
<1> HIDE DEF b, t
<1>6. b[Opposite(s)] > 0 /\ t[s] > 0
  BY <1>1, <1>2, <1>4, <1>5
<1>7. b.yes \in Nat /\ b.no \in Nat /\ t.yes \in Nat /\ t.no \in Nat
  BY <1>3 DEF Units, b, t
<1>8. b.yes + b.no > 0 /\ t.yes + t.no > 0
  BY <1>6, <1>7 DEF Sides, Opposite
<1>9. QED BY <1>8 DEF b, t

LEMMA TradeStepKeepsPools ==
  ASSUME Books, PoolsAlive, NEW m \in Markets, NEW u \in Users, TradeStep(u, m)
  PROVE  PoolsAlive' /\ Created' = Created
<1>1. PICK s \in Sides, a \in Amounts : Buy(u, m, s, a) \/ Sell(u, m, s, a)
  BY DEF TradeStep
<1>2. pool \in [Markets -> Units] /\ a \in Nat \ {0} /\ stage' = stage
  BY <1>1, TradingAssumption DEF Books, TradingTypeOK, Buy, Sell, market
<1>3. PICK next \in {Bought(pool[m], s, a).pool, Sold(pool[m], s, a).pool} :
          pool' = [pool EXCEPT ![m] = next]
  BY <1>1 DEF Buy, Sell
<1>4. next.yes + next.no > 0
  BY <1>2, <1>3, TradesLeavePoolsAlive
<1>5. Created' = Created /\ Created \subseteq Markets
  BY <1>2 DEF Created
<1>6. QED BY <1>2, <1>3, <1>4, <1>5 DEF PoolsAlive

LEMMA SettleStepKeepsPools ==
  ASSUME Books, PoolsAlive, NEW m \in Markets,
         SettleStep(m) \/ MarkPaid(m)
  PROVE  PoolsAlive' /\ Created' = Created
<1>1. pool' = pool
  BY DEF SettleStep, EndTrading, Overturn, PayoutCancelled, PayoutSide, MarkPaid, poolVars
<1>2. Created' = Created
  <2>1. stage[m] # "none" /\ \E st \in {"over", "paid"} : stage' = [stage EXCEPT ![m] = st]
    BY DEF SettleStep, EndTrading, Overturn, PayoutCancelled, PayoutSide, MarkPaid
  <2>2. QED BY <2>1 DEF Books, TradingTypeOK, Created
<1>3. QED BY <1>1, <1>2 DEF PoolsAlive

LEMMA SettleStepKeepsOptions ==
  ASSUME OptionBooks, RepairInv', NEW m \in Markets,
         \/ SettleStep(m) /\ UNCHANGED optionVars
         \/ \E l \in Labels : PayoutOption(m, l)
  PROVE  OptionBooks' /\ \E count \in {0, 1} : OptionSettlesUp(count)
<1> USE DEF OptionBooks
<1>1. CASE SettleStep(m) /\ UNCHANGED optionVars
  <2>1. Books'
    BY <1>1, SettleStepKeepsIInv
  <2>2. PICK count \in {0, 1} : SettlesUp(count)
    BY <1>1, <2>1, SettlementMovesPoints
  <2>3. PoolsAlive' /\ Created' = Created
    BY <1>1, SettleStepKeepsPools
  <2>4. QED BY <1>1, <2>1, <2>2, <2>3, PoolStepKeeps
<1>2. ASSUME NEW l \in Labels, PayoutOption(m, l)
      PROVE  OptionBooks' /\ OptionSettlesUp(1)
  <2> DEFINE units == [u \in Users |-> Max({0, optShares[u][m][l]})]
  <2>1. MarkPaid(m) /\ Distribute(m, units) /\ UNCHANGED optionVars
    BY <1>2 DEF PayoutOption
  <2>2. units \in [Users -> Nat]
    <3>0. l \in Labels
      BY <1>2
    <3>1. ASSUME NEW u \in Users PROVE Max({0, optShares[u][m][l]}) \in Nat
      <4>1. optShares[u][m][l] \in Nat \cup {NoRow, NaN}
        BY <3>0 DEF OptionTables
      <4>2. optShares[u][m][l] \in Int
        BY <4>1 DEF NoRow, NaN
      <4>3. QED BY <4>2, LargerOfTwo
    <3>2. QED BY <3>1
  <2> HIDE DEF units
  <2>3. Books'
    BY <2>1, MarkPaidKeepsIInv
  <2>4. SettlesUp(1)
    BY <2>1, <2>2, <2>3, DistributionMovesPoints
  <2>5. PoolsAlive' /\ Created' = Created
    BY <2>1, SettleStepKeepsPools
  <2>6. QED BY <2>1, <2>3, <2>4, <2>5, PoolStepKeeps
<1>3. QED BY <1>1, <1>2

LEMMA TradeStepKeepsOptions ==
  ASSUME OptionBooks, RepairInv', NEW m \in Markets, NEW u \in Users,
         TradeStep(u, m), UNCHANGED optionVars
  PROVE  OptionBooks' /\ OptionSettlesUp(0)
<1> USE DEF OptionBooks
<1>1. Books'
  BY TradeStepKeepsIInv
<1>2. SettlesUp(0)
  BY <1>1, TradingMovesPoints
<1>3. PoolsAlive' /\ Created' = Created
  BY TradeStepKeepsPools
<1>4. QED BY <1>1, <1>2, <1>3, PoolStepKeeps

\* A new market has no options yet, or none at all.
LEMMA CreationKeepsOptions ==
  ASSUME OptionBooks, RepairInv', NEW m \in Markets, NEW u \in Users,
         CreateMarket(m, u) \/ (CreateShadow(m, u) /\ UNCHANGED optionVars)
  PROVE  OptionBooks' /\ OptionSettlesUp(0)
<1> USE DEF OptionBooks
<1>1. /\ Create(m, u) \/ CreateShadow(m, u)
      /\ InsertMarket(m, u) /\ shadow' \subseteq shadow \cup {m}
      /\ UNCHANGED <<down, served, rows, seeded, optCollateral, optShares, optSpent, optHeld>>
      /\ building' \subseteq building \cup {m}
  BY DEF CreateMarket, Create, CreateShadow, optionVars, server, optionRows, optionBooks
<1>2. Books'
  BY <1>1, CreateKeepsIInv
<1>3. SettlesUp(0)
  BY <1>1, <1>2, CreationMovesPoints
<1>4. /\ Created' = Created \cup {m} /\ m \notin Created
      /\ pool' = [pool EXCEPT ![m] = New(Liquidity)] /\ pool \in [Markets -> Units]
  BY <1>1 DEF InsertMarket, Created, Books, TradingTypeOK
<1>5. PoolsAlive'
  BY <1>4, NewPoolAlive DEF PoolsAlive, Created
<1>6. OptionTables'
  <2>1. asked' \in [Markets -> OptionLists \cup {<<>>}]
    BY DEF CreateMarket, optionVars, optionRows, OptionTables
  <2>2. QED BY <1>1, <2>1 DEF OptionTables
<1>7. OptionsUntouched'
  BY <1>1, <1>4 DEF OptionsUntouched
<1>8. rows[m] = {} /\ seeded[m] = 0 /\ \A v \in Users : optSpent[v][m] = 0
  BY <1>4 DEF RepairInv, Nothing, OptionsUntouched
<1>9. Traded(m) = 0
  BY <1>8, SumEmpty DEF Traded, Total
<1>10. \A n : Traded(n)' = Traded(n) /\ OptionCosts(n)' = OptionCosts(n)
  BY <1>1, TradedFrame DEF OptionCosts
<1>11. OptionLedger'
  <2>1. SumFunction(OptionCosts(m)) = 0
    <3>1. DOMAIN OptionCosts(m) = Users /\ \A v \in Users : OptionCosts(m)[v] = 0
      BY <1>8 DEF OptionCosts
    <3>2. QED BY <3>1, FiniteAssumption, FunctionSumZero
  <2>2. ASSUME NEW n \in Created' PROVE SumFunction(OptionCosts(n)') = Traded(n)'
    BY <1>4, <1>9, <1>10, <2>1 DEF OptionLedger
  <2>3. QED BY <2>2 DEF OptionLedger
<1>12. OptionTraded' = OptionTraded
  <2> DEFINE f == TradedOf
             S == Created
  <2>1. TradedOf' = TradedOf
    BY <1>10 DEF TradedOf
  <2>2. f[m] = 0 /\ \A n \in S \cup {m} : f[n] \in Int
    BY <1>9, OptionTradedType DEF TradedOf
  <2>3. IsFiniteSet(S) /\ m \notin S
    BY <1>4, OptionTradedType
  <2>4. OptionTraded = SumFunctionOnSet(f, S) /\ OptionTraded' = SumFunctionOnSet(f, S \cup {m})
    BY <1>4, <2>1 DEF OptionTraded
  <2>5. OptionTraded \in Int
    BY OptionTradedType
  <2> HIDE DEF f, S
  <2>6. SumFunctionOnSet(f, S \cup {m}) = f[m] + SumFunctionOnSet(f, S)
    BY <2>2, <2>3, SumAdd
  <2>7. QED BY <2>2, <2>4, <2>5, <2>6
<1>13. OptionSettlesUp(0) /\ Balances'
  BY <1>3, <1>12, SettlesUpWithOptions
<1>14. QED BY <1>2, <1>5, <1>6, <1>7, <1>11, <1>13

-----------------------------------------------------------------------------
(* Steps that add options                                                  *)

\* Whoever inserts options, they are seeded with what they hold: that is not
\* traded, and no balance moves.
LEMMA SeedingKeepsOptions ==
  ASSUME OptionBooks, RepairInv', OptionTables', OptionsUntouched',
         UNCHANGED <<tradingVars, optSpent>>,
         \A m \in Created : Traded(m)' = Traded(m)
  PROVE  OptionBooks' /\ OptionSettlesUp(0)
<1> USE DEF OptionBooks
<1>1. UNCHANGED <<stage, creator, shadow, payouts, balance, shares, spent, pool, collateral,
                  held, kept, trades>>
  BY DEF tradingVars, market, books, poolVars
<1>2. Created' = Created
  BY <1>1 DEF Created
<1>3. Books'
  <2>1. TradingTypeOK' /\ Unpaid'
    BY <1>1 DEF Books, TradingTypeOK, Unpaid
  <2>2. QED BY <1>1, <1>2, <2>1, SettlementKeepsIInv DEF poolVars
<1>4. PoolsAlive' /\ Balances'
  BY <1>1, <1>2 DEF PoolsAlive, Balances
<1>5. OptionLedger'
  <2>1. \A m \in Created : OptionCosts(m)' = OptionCosts(m)
    BY DEF OptionCosts
  <2>2. QED BY <1>2, <2>1 DEF OptionLedger
<1>6. OptionTraded' = OptionTraded
  BY <1>2, TradedStays
<1>7. Gap' = Gap /\ Payments' = Payments
  <2>1. Backing' = Backing
    BY <1>1 DEF Backing
  <2>2. QED BY <1>1, <1>2, <2>1 DEF Gap, Issued, Backed, Payments
<1>8. SettlesUp(0)
  BY <1>4, <1>7, GapType DEF SettlesUp
<1>9. OptionSettlesUp(0)
  BY <1>6, <1>8, SettlesUpWithOptions
<1>10. QED BY <1>3, <1>4, <1>5, <1>9

LEMMA UpsertKeepsOptions ==
  ASSUME OptionBooks, RepairInv', NEW m \in Markets, UpsertOption(m)
  PROVE  OptionBooks' /\ OptionSettlesUp(0)
<1> USE DEF OptionBooks
<1>1. PICK n \in 0 .. Len(asked[m]) - 1 :
          /\ asked[m] \in OptionLists
          /\ rows[m] = First(asked[m], n)
          /\ IsFiniteSet(First(asked[m], n)) /\ Cardinality(First(asked[m], n)) = n
  BY DEF UpsertOption, RepairInv, Prefix
<1> DEFINE l == asked[m][n + 1]
           p == PerOption(m)
<1>2. /\ m \in building /\ InsertOption(m, l, p)
      /\ building' \subseteq building
      /\ UNCHANGED <<tradingVars, down, served, asked, optShares, optSpent, optHeld>>
  BY <1>1 DEF UpsertOption, server
<1>3. l \in Labels /\ l \notin rows[m] /\ p \in Int
  BY <1>1, FirstGrows, PerOptionType
<1> HIDE DEF l, p
<1>4. /\ rows' = [rows EXCEPT ![m] = @ \cup {l}]
      /\ optCollateral' = [optCollateral EXCEPT ![m][l] = p]
      /\ seeded' = [seeded EXCEPT ![m] = @ + p]
  BY <1>2 DEF InsertOption
<1>5. /\ rows \in [Markets -> SUBSET Labels]
      /\ optCollateral \in [Markets -> [Labels -> Int]]
      /\ seeded \in [Markets -> Int]
  BY DEF OptionTables
<1>6. OptionTables'
  <2>1. rows' \in [Markets -> SUBSET Labels] /\ seeded' \in [Markets -> Int]
    BY <1>3, <1>4, <1>5
  <2>2. optCollateral' \in [Markets -> [Labels -> Int]]
    <3>1. optCollateral' = [optCollateral EXCEPT ![m] = [optCollateral[m] EXCEPT ![l] = p]]
      BY <1>3, <1>4, <1>5
    <3>2. [optCollateral[m] EXCEPT ![l] = p] \in [Labels -> Int]
      BY <1>3, <1>5
    <3>3. QED BY <1>5, <3>1, <3>2
  <2>3. QED BY <1>2, <2>1, <2>2 DEF OptionTables
<1>7. m \in Created /\ Created' = Created
  BY <1>2 DEF RepairInv, Nothing, tradingVars, market, Created
<1>8. OptionsUntouched'
  BY <1>2, <1>4, <1>5, <1>7 DEF OptionsUntouched
<1>9. Traded(m)' = Traded(m)
  <2> DEFINE f == optCollateral[m]
             g == optCollateral'[m]
             S == rows[m]
  <2>1. IsFiniteSet(S) /\ l \notin S
    BY <1>3, LabelsOfRows
  <2>2. g[l] = p /\ rows'[m] = S \cup {l} /\ seeded'[m] = seeded[m] + p /\ seeded[m] \in Int
    BY <1>3, <1>4, <1>5
  <2>3. \A k \in S : f[k] \in Int /\ f[k] = g[k]
    BY <1>3, <1>4, <1>5
  <2>4. \A k \in S \cup {l} : g[k] \in Int
    BY <1>3, <2>2, <2>3
  <2>5. /\ Traded(m) = SumFunctionOnSet(f, S) - seeded[m]
        /\ Traded(m)' = SumFunctionOnSet(g, S \cup {l}) - (seeded[m] + p)
    BY <2>2 DEF Traded, Total
  <2> HIDE DEF f, g, S
  <2>6. SumFunctionOnSet(g, S \cup {l}) = p + SumFunctionOnSet(f, S)
    <3>1. SumFunctionOnSet(f, S) = SumFunctionOnSet(g, S)
      BY <2>1, <2>3, SumSame
    <3>2. SumFunctionOnSet(g, S \cup {l}) = g[l] + SumFunctionOnSet(g, S)
      BY <2>1, <2>4, SumAdd
    <3>3. QED BY <2>2, <3>1, <3>2
  <2>7. SumFunctionOnSet(f, S) \in Int
    BY <2>1, <2>3, SumType
  <2>8. QED BY <1>3, <2>2, <2>5, <2>6, <2>7
<1>10. ASSUME NEW k \in Created, k # m PROVE Traded(k)' = Traded(k)
  <2>1. rows'[k] = rows[k] /\ optCollateral'[k] = optCollateral[k] /\ seeded'[k] = seeded[k]
    BY <1>4, <1>5, <1>10 DEF Created
  <2>2. QED BY <2>1 DEF Traded, Total
<1>11. QED
  BY <1>2, <1>6, <1>8, <1>9, <1>10, SeedingKeepsOptions

LEMMA StopKeepsOptions ==
  ASSUME OptionBooks, RepairInv', NEW m \in Markets, StopCreating(m)
  PROVE  OptionBooks' /\ OptionSettlesUp(0)
<1>1. /\ building' \subseteq building
      /\ UNCHANGED <<tradingVars, server, asked, rows, seeded, optionBooks>>
  BY DEF StopCreating
<1>2. OptionTables' /\ OptionsUntouched'
  BY <1>1 DEF OptionBooks, OptionTables, OptionsUntouched, Created, server, optionBooks,
     tradingVars, market
<1>3. \A n \in Created : Traded(n)' = Traded(n)
  BY <1>1, TradedFrame DEF optionBooks
<1>4. UNCHANGED <<tradingVars, optSpent>>
  BY <1>1 DEF optionBooks
<1>5. QED BY <1>2, <1>3, <1>4, SeedingKeepsOptions

\* Whatever labels a start inserts, if none of them is there yet.
LEMMA BackfillKeepsOptions ==
  ASSUME OptionBooks, RepairInv', NEW found, Backfill(found),
         \A m \in Markets : /\ IsFiniteSet(found[m]) /\ found[m] \subseteq Labels
                            /\ rows[m] \cap found[m] = {}
                            /\ m \notin Created => found[m] = {},
         optShares' \in [Users -> [Markets -> [Labels -> Nat \cup {NoRow, NaN}]]],
         down' \in BOOLEAN, served' \subseteq Markets
  PROVE  OptionBooks' /\ OptionSettlesUp(0)
<1> USE DEF OptionBooks
<1>1. /\ building' = {}
      /\ rows' = [m \in Markets |-> rows[m] \cup found[m]]
      /\ optCollateral' = [m \in Markets |-> [l \in Labels |->
            IF l \in found[m] THEN BackfilledCollateral(m, l) ELSE optCollateral[m][l]]]
      /\ seeded' = [m \in Markets |->
            seeded[m] + SumFunctionOnSet(optCollateral'[m], found[m])]
      /\ UNCHANGED <<tradingVars, asked, optSpent, optHeld>>
  BY DEF Backfill
<1>2. /\ rows \in [Markets -> SUBSET Labels]
      /\ optCollateral \in [Markets -> [Labels -> Int]]
      /\ seeded \in [Markets -> Int]
  BY DEF OptionTables
<1>3. Created' = Created /\ Created \subseteq Markets
  BY <1>1 DEF tradingVars, market, Created
<1>4. optCollateral' \in [Markets -> [Labels -> Int]]
  <2>1. ASSUME NEW m \in Markets, NEW l \in Labels
        PROVE  (IF l \in found[m]
                THEN BackfilledCollateral(m, l) ELSE optCollateral[m][l]) \in Int
    <3>1. CASE l \in found[m]
      BY <3>1, BackfillType
    <3>2. CASE l \notin found[m]
      BY <1>2, <3>2
    <3>3. QED BY <3>1, <3>2
  <2>2. QED BY <1>1, <2>1
<1>5. \A m \in Markets : SumFunctionOnSet(optCollateral'[m], found[m]) \in Int
  <2>1. ASSUME NEW m \in Markets PROVE SumFunctionOnSet(optCollateral'[m], found[m]) \in Int
    <3>1. \A l \in found[m] : optCollateral'[m][l] \in Int
      BY <1>4
    <3>2. QED BY <3>1, SumType
  <2>2. QED BY <2>1
<1>6. OptionTables'
  <2>1. rows' \in [Markets -> SUBSET Labels]
    BY <1>1, <1>2
  <2>2. seeded' \in [Markets -> Int]
    <3> DEFINE more(m) == SumFunctionOnSet(optCollateral'[m], found[m])
    <3>1. \A m \in Markets : more(m) \in Int
      BY <1>5
    <3>2. seeded' = [m \in Markets |-> seeded[m] + more(m)]
      BY <1>1
    <3> HIDE DEF more
    <3>3. QED BY <1>2, <3>1, <3>2
  <2>3. /\ asked' = asked /\ optSpent' = optSpent /\ optHeld' = optHeld
        /\ building' \subseteq Markets
    BY <1>1
  <2>4. QED BY <1>4, <2>1, <2>2, <2>3 DEF OptionTables
<1>7. OptionsUntouched'
  <2>1. ASSUME NEW m \in Markets, m \notin Created PROVE seeded'[m] = 0
    <3>1. seeded[m] = 0 /\ SumFunctionOnSet(optCollateral'[m], found[m]) = 0
      BY <2>1, SumEmpty DEF OptionsUntouched
    <3>2. QED BY <1>1, <3>1
  <2>2. QED BY <1>1, <1>3, <2>1 DEF OptionsUntouched
<1>8. ASSUME NEW m \in Created PROVE Traded(m)' = Traded(m)
  <2> DEFINE f == optCollateral[m]
             g == optCollateral'[m]
             S == rows[m]
             R == found[m]
  <2>1. m \in Markets
    BY <1>3
  <2>2. S \cap R = {}
    BY <2>1
  <2>3. IsFiniteSet(S) /\ IsFiniteSet(R) /\ S \subseteq Labels /\ R \subseteq Labels
    BY <2>1, LabelsOfRows
  <2>4. \A l \in S : f[l] \in Int /\ f[l] = g[l]
    BY <1>1, <1>2, <2>1, <2>2, <2>3
  <2>5. \A l \in S \cup R : g[l] \in Int
    BY <1>4, <2>1, <2>3
  <2>6. /\ Traded(m) = SumFunctionOnSet(f, S) - seeded[m]
        /\ Traded(m)' = SumFunctionOnSet(g, S \cup R)
                          - (seeded[m] + SumFunctionOnSet(g, R))
    BY <1>1, <2>1 DEF Traded, Total
  <2>7. seeded[m] \in Int
    BY <1>2, <2>1
  <2> HIDE DEF f, g, S, R
  <2>8. SumFunctionOnSet(f, S) = SumFunctionOnSet(g, S) /\ SumFunctionOnSet(f, S) \in Int
    BY <2>3, <2>4, SumSame, SumType
  <2>9. SumFunctionOnSet(g, S \cup R) = SumFunctionOnSet(g, S) + SumFunctionOnSet(g, R)
    BY <2>2, <2>3, <2>5, SumUnion
  <2>10. SumFunctionOnSet(g, R) \in Int
    BY <2>3, <2>5, SumType
  <2>11. QED BY <2>6, <2>7, <2>8, <2>9, <2>10
<1>9. QED
  BY <1>1, <1>6, <1>7, <1>8, SeedingKeepsOptions

LEMMA StartKeepsOptions ==
  ASSUME OptionBooks, RepairInv', Restart \/ FailedStart
  PROVE  OptionBooks' /\ OptionSettlesUp(0)
<1> USE DEF OptionBooks
<1>1. \A m \in Markets : IsFiniteSet(rows[m]) /\ (m \notin Created => rows[m] = {})
  BY DEF RepairInv, Nothing
<1>2. IsFiniteSet({}) /\ Created \subseteq Markets
  BY FS_EmptySet DEF Created
<1>3. optShares \in [Users -> [Markets -> [Labels -> Nat \cup {NoRow, NaN}]]]
      /\ down \in BOOLEAN /\ served \subseteq Markets
  BY DEF OptionTables
<1>4. CASE Restart
  <2> DEFINE found == [m \in Markets |-> IF m \in Created THEN Missing(m) ELSE {}]
  <2>1. /\ Backfill(found) /\ served' = Created /\ down' = down
        /\ \A m \in Created : rows[m] # {"no"}
    BY <1>4 DEF Restart, Clashing
  <2>2. \A m \in Markets : /\ IsFiniteSet(found[m]) /\ found[m] \subseteq Labels
                           /\ rows[m] \cap found[m] = {}
                           /\ m \notin Created => found[m] = {}
    BY <1>1, <1>2, <2>1, RestartAddsOptions
  <2>3. optShares' \in [Users -> [Markets -> [Labels -> Nat \cup {NoRow, NaN}]]]
    <3>1. ASSUME NEW u \in Users, NEW m \in Markets, NEW l \in Labels
          PROVE  Copied(u, m, l) \in Nat \cup {NoRow, NaN}
      <4>1. l \in Sides => shares[u][m][l] \in Nat
        BY DEF Books, TradingTypeOK, Units, Sides
      <4>2. QED BY <1>3, <4>1 DEF Copied
    <3>2. optShares' = [u \in Users |-> [m \in Markets |-> [l \in Labels |->
             IF m \in Created THEN Copied(u, m, l) ELSE optShares[u][m][l]]]]
      BY <1>4 DEF Restart
    <3>3. QED BY <1>3, <3>1, <3>2
  <2> HIDE DEF found
  <2>4. QED BY <1>2, <1>3, <2>1, <2>2, <2>3, BackfillKeepsOptions
<1>5. CASE FailedStart
  <2> DEFINE found == [m \in Markets |-> IF m \in Created THEN Missing(m) \ {"no"} ELSE {}]
  <2>1. Backfill(found) /\ down' = TRUE /\ served' = served /\ optShares' = optShares
    BY <1>5 DEF FailedStart
  <2>2. \A m \in Markets : /\ IsFiniteSet(found[m]) /\ found[m] \subseteq Labels
                           /\ rows[m] \cap found[m] = {}
                           /\ m \notin Created => found[m] = {}
    BY <1>1, <1>2, FailedStartAdds
  <2> HIDE DEF found
  <2>3. QED BY <1>3, <2>1, <2>2, BackfillKeepsOptions
<1>6. QED BY <1>4, <1>5

-----------------------------------------------------------------------------
(* Option trades                                                           *)

\* What a trade in option l at cost does to the options' books; the market stays
\* as it is, but for the pool shares that a sale may take.
OptionTradeEffect(u, m, l, cost) ==
    /\ stage[m] = "open" /\ creator[m] # u
    /\ l \in rows[m]
    /\ BookOption(u, m, l, cost)
    /\ UNCHANGED <<market, pool, collateral, server, optionRows>>

LEMMA OptionTradeKeeps ==
  ASSUME OptionBooks, RepairInv', Books', NEW m \in Markets, NEW u \in Users, NEW l \in Labels,
         NEW cost \in Int, OptionTradeEffect(u, m, l, cost),
         optShares' \in [Users -> [Markets -> [Labels -> Nat \cup {NoRow, NaN}]]],
         optHeld' \in [Markets -> [Labels -> Int]]
  PROVE  OptionBooks' /\ OptionSettlesUp(0)
<1> USE DEF OptionBooks, OptionTradeEffect
<1>1. /\ UNCHANGED <<stage, payouts, shadow, pool, collateral, down, served,
                      asked, rows, building, seeded>>
      /\ l \in rows[m] /\ stage[m] = "open"
      /\ balance' = [balance EXCEPT ![u] = @ - cost]
      /\ optCollateral' = [optCollateral EXCEPT ![m][l] = @ + cost]
      /\ optSpent' = [optSpent EXCEPT ![u][m] = @ + cost]
  BY DEF BookOption, market, server, optionRows
<1>2. /\ optCollateral \in [Markets -> [Labels -> Int]]
      /\ optSpent \in [Users -> [Markets -> Int]]
      /\ seeded \in [Markets -> Int] /\ collateral \in [Markets -> Int]
  BY DEF OptionTables, Books, TradingTypeOK
<1>3. Created' = Created /\ m \in Created /\ Created \subseteq Markets
  BY <1>1 DEF Created
<1>4. OptionTables'
  <2>1. optCollateral' \in [Markets -> [Labels -> Int]]
    <3>1. /\ optCollateral' = [optCollateral EXCEPT ![m] =
                                  [optCollateral[m] EXCEPT ![l] = optCollateral[m][l] + cost]]
          /\ optCollateral[m] \in [Labels -> Int]
      BY <1>1, <1>2
    <3>2. [optCollateral[m] EXCEPT ![l] = optCollateral[m][l] + cost] \in [Labels -> Int]
      BY <3>1
    <3>3. QED BY <1>2, <3>1, <3>2
  <2>2. optSpent' \in [Users -> [Markets -> Int]]
    BY <1>1, <1>2
  <2>3. QED BY <1>1, <2>1, <2>2 DEF OptionTables
<1>5. PoolsAlive' /\ OptionsUntouched'
  <2>1. \A v \in Users, n \in Markets \ {m} : optSpent'[v][n] = optSpent[v][n]
    BY <1>1, <1>2
  <2>2. QED BY <1>1, <1>3, <2>1 DEF PoolsAlive, OptionsUntouched
<1>6. Traded(m)' = Traded(m) + cost
  <2> DEFINE f == optCollateral[m]
             g == optCollateral'[m]
             S == rows[m]
  <2>1. IsFiniteSet(S) /\ S \subseteq Labels /\ l \in S
    BY <1>1, LabelsOfRows
  <2>2. \A k \in S : f[k] \in Int /\ g[k] \in Int
    BY <1>1, <1>2, <2>1
  <2>3. \A k \in S \ {l} : g[k] = f[k]
    BY <1>1, <1>2, <2>1
  <2>3a. g[l] = f[l] + cost
    BY <1>1, <1>2, <2>1
  <2>4. /\ Traded(m) = SumFunctionOnSet(f, S) - seeded[m]
        /\ Traded(m)' = SumFunctionOnSet(g, S) - seeded[m]
        /\ seeded[m] \in Int
    BY <1>1, <1>2 DEF Traded, Total
  <2> HIDE DEF f, g, S
  <2>5. SumFunctionOnSet(g, S) = SumFunctionOnSet(f, S) + (g[l] - f[l])
    BY <2>1, <2>2, <2>3, SumChange
  <2>6. SumFunctionOnSet(f, S) \in Int /\ f[l] \in Int
    BY <2>1, <2>2, SumType
  <2>7. QED BY <2>3a, <2>4, <2>5, <2>6
<1>7. ASSUME NEW n \in Created, n # m
      PROVE  Traded(n)' = Traded(n) /\ OptionCosts(n)' = OptionCosts(n)
  <2>1. optCollateral'[n] = optCollateral[n] /\ rows'[n] = rows[n] /\ seeded'[n] = seeded[n]
    BY <1>1, <1>2, <1>3, <1>7
  <2>2. \A v \in Users : optSpent'[v][n] = optSpent[v][n]
    BY <1>1, <1>2, <1>3, <1>7
  <2>3. QED BY <2>1, <2>2 DEF Traded, Total, OptionCosts
<1>8. SumFunction(OptionCosts(m)') = SumFunction(OptionCosts(m)) + cost
  <2> DEFINE f == OptionCosts(m)
             g == OptionCosts(m)'
  <2>1. f \in [Users -> Int] /\ g \in [Users -> Int]
    BY <1>2, <1>4 DEF OptionCosts, OptionTables
  <2>2. \A v \in Users \ {u} : g[v] = f[v]
    BY <1>1, <1>2 DEF OptionCosts
  <2>2a. g[u] = f[u] + cost
    BY <1>1, <1>2 DEF OptionCosts
  <2> HIDE DEF f, g
  <2>3. SumFunction(g) = SumFunction(f) + (g[u] - f[u])
    <3>1. IsFiniteSet(Users)
      BY FiniteAssumption
    <3>2. QED BY <2>1, <2>2, <3>1, FunctionSumChange
  <2>4. f[u] \in Int /\ SumFunction(f) \in Int
    BY <2>1, FiniteAssumption, FunctionSumType
  <2>5. SumFunction(g) = SumFunction(f) + cost
    BY <2>2a, <2>3, <2>4
  <2>6. QED BY <2>5 DEF f, g
<1>9. OptionLedger'
  <2>1. SumFunction(OptionCosts(m)) = Traded(m)
    BY <1>3 DEF OptionLedger
  <2>2. ASSUME NEW n \in Created PROVE SumFunction(OptionCosts(n)') = Traded(n)'
    <3>1. CASE n = m
      BY <1>6, <1>8, <2>1, <3>1
    <3>2. CASE n # m
      BY <1>7, <3>2 DEF OptionLedger
    <3>3. QED BY <3>1, <3>2
  <2>3. QED BY <1>3, <2>2 DEF OptionLedger
<1>10. OptionTraded' = OptionTraded + cost
  BY <1>3, <1>6, <1>7, TradedChanges
<1>11. Balances' /\ Payments' = Payments /\ Gap' = Gap + cost - 0
  <2>1. collateral' = [collateral EXCEPT ![m] = @ + 0]
    BY <1>1, <1>2
  <2>2. stage[m] = "open" /\ UNCHANGED market /\ 0 \in Int
    OBVIOUS
  <2>3. balance' = [balance EXCEPT ![u] = @ - cost]
    BY <1>1
  <2>4. QED BY <2>1, <2>2, <2>3, TradeMovesPoints, Zenon
<1>12. OptionSettlesUp(0)
  <2>1. Gap \in Int /\ OptionTraded \in Int /\ Cardinality(Users) \in Nat
    BY GapType, OptionTradedType
  <2>2. OptionGap' = OptionGap + 0 /\ 0 \in 0 .. Cardinality(Users) * 0 /\ Payments' = Payments + 0
    BY <1>10, <1>11, <2>1, PaymentsType DEF OptionGap
  <2>3. QED BY <2>2 DEF OptionSettlesUp
<1>13. QED BY <1>4, <1>5, <1>9, <1>11, <1>12

LEMMA OptionUnits ==
  ASSUME OptionTables, NEW u \in Users, NEW m \in Markets, NEW l \in Labels,
         NEW next \in Nat \cup {NoRow, NaN}, NEW more \in Int
  PROVE  /\ [optShares EXCEPT ![u][m][l] = next]
              \in [Users -> [Markets -> [Labels -> Nat \cup {NoRow, NaN}]]]
         /\ [optHeld EXCEPT ![m][l] = @ + more] \in [Markets -> [Labels -> Int]]
<1>1. /\ optShares \in [Users -> [Markets -> [Labels -> Nat \cup {NoRow, NaN}]]]
      /\ optHeld \in [Markets -> [Labels -> Int]]
  BY DEF OptionTables
<1>2. [optShares EXCEPT ![u][m][l] = next]
        = [optShares EXCEPT ![u] = [optShares[u] EXCEPT ![m] = [optShares[u][m] EXCEPT ![l] = next]]]
  BY <1>1
<1>3. [optShares[u][m] EXCEPT ![l] = next] \in [Labels -> Nat \cup {NoRow, NaN}]
  BY <1>1
<1>4. [optHeld EXCEPT ![m][l] = @ + more]
        = [optHeld EXCEPT ![m] = [optHeld[m] EXCEPT ![l] = optHeld[m][l] + more]]
  BY <1>1
<1>5. [optHeld[m] EXCEPT ![l] = optHeld[m][l] + more] \in [Labels -> Int]
  BY <1>1
<1>6. QED BY <1>1, <1>2, <1>3, <1>4, <1>5

LEMMA BuyOptionKeeps ==
  ASSUME OptionBooks, RepairInv', NEW m \in Markets, NEW u \in Users, NEW l \in Labels,
         NEW a \in Amounts, BuyOption(u, m, l, a)
  PROVE  OptionBooks' /\ OptionSettlesUp(0)
<1> USE DEF OptionBooks
<1> DEFINE bought == SharesFor(m, l, a)
           next == Plus(optShares[u][m][l], bought)
           more == IF bought = NaN THEN 0 ELSE bought
<1>1. a \in Nat \ {0} /\ Scale \in Nat
  BY TradingAssumption, ScaleAssumption
<1>2. bought \in Nat \cup {NaN}
  <2> DEFINE p == Probability(m, l)
             rounded == Quotient(a * Scale * p.den, p.num)
  <2>1. p.num \in Nat \ {0} /\ p.den \in Nat \ {0}
    BY ProbabilityPositive
  <2>2. bought \in {NaN, 0, rounded}
    BY DEF SharesFor
  <2>3. rounded \in Nat
    <3> HIDE DEF p
    <3>1. a * Scale \in Nat
      BY <1>1
    <3>2. a * Scale * p.den \in Nat
      BY <2>1, <3>1
    <3>3. QED BY <2>1, <3>2, QuotientIsNatural
  <2> HIDE DEF rounded, bought
  <2>4. QED BY <2>2, <2>3
<1>3. /\ optShares' = [optShares EXCEPT ![u][m][l] = Plus(@, bought)]
      /\ optHeld' = [optHeld EXCEPT ![m][l] = @ + more]
  BY DEF BuyOption
<1> HIDE DEF bought
<1>4. next \in Nat \cup {NoRow, NaN} /\ more \in Int
  <2>1. optShares[u][m][l] \in Nat \cup {NoRow, NaN}
    BY DEF OptionTables
  <2>2. QED BY <1>2, <2>1 DEF Plus, NaN, NoRow
<1>5. optShares' = [optShares EXCEPT ![u][m][l] = next]
  BY <1>3 DEF OptionTables
<1> HIDE DEF next, more
<1>6. /\ optShares' \in [Users -> [Markets -> [Labels -> Nat \cup {NoRow, NaN}]]]
      /\ optHeld' \in [Markets -> [Labels -> Int]]
  BY <1>3, <1>4, <1>5, OptionUnits
<1>7. /\ UNCHANGED <<stage, creator, shadow, payouts, pool, collateral, held, kept, shares, spent>>
      /\ trades' \in Nat
  BY DEF BuyOption, MayTradeOption, MayTrade, market, poolVars, Books, TradingTypeOK
<1>8. Books'
  <2>1. TradingTypeOK' /\ Unpaid' /\ Created' = Created
    BY <1>7 DEF Books, TradingTypeOK, Unpaid, Created
  <2>2. QED BY <1>7, <2>1, SettlementKeepsIInv DEF poolVars
<1>9. OptionTradeEffect(u, m, l, a) /\ a \in Int
  BY <1>1 DEF BuyOption, MayTradeOption, MayTrade, OptionTradeEffect, poolVars
<1>10. QED BY <1>6, <1>8, <1>9, OptionTradeKeeps

\* A sale takes shares of the option, or else of the pool: these at no cost.
LEMMA SellOptionKeeps ==
  ASSUME OptionBooks, RepairInv', NEW m \in Markets, NEW u \in Users, NEW l \in Labels,
         NEW a \in Amounts, SellOption(u, m, l, a)
  PROVE  OptionBooks' /\ OptionSettlesUp(0)
<1> USE DEF OptionBooks
<1> DEFINE units == a * Scale
           p == Probability(m, l)
           s == FallbackSide(l)
<1>1. a \in Nat \ {0} /\ units \in Nat
  BY TradingAssumption, ScaleAssumption
<1>2. PICK proceeds \in Truncated(a * p.num, p.den) \ {0} : BookOption(u, m, l, -proceeds)
  BY DEF SellOption
<1>3. -proceeds \in Int
  <2>1. p.num \in Nat \ {0} /\ p.den \in Nat \ {0}
    BY ProbabilityPositive
  <2> HIDE DEF p
  <2>2. a * p.num \in Nat
    BY <1>1, <2>1
  <2>3. proceeds \in Nat
    BY <1>2, <2>1, <2>2, TruncatedBelow
  <2>4. QED BY <2>3
<1>4. OptionTradeEffect(u, m, l, -proceeds)
  BY <1>2 DEF SellOption, MayTradeOption, MayTrade, OptionTradeEffect
<1>5. /\ MayTrade(u, m) /\ UNCHANGED market
      /\ UNCHANGED <<pool, collateral, kept, spent>>
      /\ TakeShares(u, m, l, a)
  BY DEF SellOption, MayTradeOption
<1>6. CASE optShares[u][m][l] # NoRow
  <2> DEFINE next == IF optShares[u][m][l] = NaN THEN NaN ELSE optShares[u][m][l] - units
             more == -units
  <2>1. /\ optShares[u][m][l] # NaN => optShares[u][m][l] >= units
        /\ optShares' = [optShares EXCEPT ![u][m][l] = IF @ = NaN THEN @ ELSE @ - units]
        /\ optHeld' = [optHeld EXCEPT ![m][l] = @ - units]
        /\ UNCHANGED <<shares, held>>
    BY <1>5, <1>6 DEF TakeShares, TakeOptionShares
  <2> HIDE DEF units
  <2>2. optShares[u][m][l] \in Nat \cup {NaN} /\ optHeld[m][l] \in Int
    BY <1>6 DEF OptionTables
  <2>3. next \in Nat \cup {NoRow, NaN} /\ more \in Int
    BY <1>1, <2>1, <2>2 DEF NaN
  <2>4. /\ optShares' = [optShares EXCEPT ![u][m][l] = next]
        /\ optHeld' = [optHeld EXCEPT ![m][l] = @ + more]
    BY <1>1, <2>1, <2>2 DEF OptionTables
  <2> HIDE DEF next, more
  <2>5. /\ optShares' \in [Users -> [Markets -> [Labels -> Nat \cup {NoRow, NaN}]]]
        /\ optHeld' \in [Markets -> [Labels -> Int]]
    BY <2>3, <2>4, OptionUnits
  <2>6. Books'
    <3>1. TradingTypeOK' /\ Unpaid' /\ Created' = Created
      BY <1>5, <2>1 DEF MayTrade, market, Books, TradingTypeOK, Unpaid, Created
    <3>2. QED BY <1>5, <2>1, <3>1, SettlementKeepsIInv DEF market, poolVars
  <2>7. QED BY <1>3, <1>4, <2>5, <2>6, OptionTradeKeeps
<1>7. CASE optShares[u][m][l] = NoRow
  <2>1. /\ shares[u][m][s] >= units
        /\ MoveShares(u, m, s, -units)
        /\ UNCHANGED <<optShares, optHeld>>
    BY <1>5, <1>7 DEF TakeShares
  <2>2. s \in Sides /\ pool[m] \in Units /\ shares[u][m][s] \in Nat
    BY DEF FallbackSide, Sides, Books, TradingTypeOK, Units
  <2> HIDE DEF units, s
  <2>3. -units \in Int /\ shares[u][m][s] + (-units) >= 0
    BY <1>1, <2>1, <2>2
  <2>4. /\ TradeEffect(u, m, s, 0, -units, 0)
        /\ pool' = [pool EXCEPT ![m] = pool[m]]
    <3>1. /\ collateral' = [collateral EXCEPT ![m] = @ + 0]
          /\ spent' = [spent EXCEPT ![u][m] = @ + 0]
          /\ kept' = [kept EXCEPT ![m] = @ + 0]
          /\ pool' = [pool EXCEPT ![m] = pool[m]]
      BY <1>5 DEF Books, TradingTypeOK
    <3>2. QED BY <1>5, <2>1, <3>1 DEF TradeEffect
  <2>5. Books'
    <3>1. 0 \in Int /\ 0 \in Nat
      OBVIOUS
    <3>2. QED BY <2>2, <2>3, <2>4, <3>1, TradeKeepsBooks, Zenon
  <2>6. /\ optShares' \in [Users -> [Markets -> [Labels -> Nat \cup {NoRow, NaN}]]]
        /\ optHeld' \in [Markets -> [Labels -> Int]]
    BY <2>1 DEF OptionTables
  <2>7. QED BY <1>3, <1>4, <2>5, <2>6, OptionTradeKeeps
<1>8. QED BY <1>6, <1>7

-----------------------------------------------------------------------------

LEMMA InitOptionBooks ==
  ASSUME OptionInit
  PROVE  OptionBooks /\ OptionGap = 0 /\ Payments = 0
<1>1. Init /\ Created = {}
  BY DEF OptionInit, Init, Created
<1>2. Books /\ RepairInv
  BY <1>1, InitIInv, InitRepair DEF IInv
<1>3. Balances /\ Gap = 0 /\ Payments = 0
  BY <1>1, NothingIssuedYet
<1>4. OptionTables
  <2>1. down \in BOOLEAN /\ served \subseteq Markets
    BY DEF OptionInit
  <2>2. optShares \in [Users -> [Markets -> [Labels -> Nat \cup {NoRow, NaN}]]]
    BY DEF OptionInit
  <2>3. QED BY <2>1, <2>2 DEF OptionInit, OptionTables
<1>5. PoolsAlive /\ OptionLedger
  BY <1>1 DEF PoolsAlive, OptionLedger
<1>6. OptionsUntouched
  BY DEF OptionInit, OptionsUntouched
<1>7. OptionTraded = 0
  BY <1>1, SumEmpty DEF OptionTraded
<1>8. QED BY <1>2, <1>3, <1>4, <1>5, <1>6, <1>7 DEF OptionBooks, OptionGap

LEMMA NextKeepsOptionBooks ==
  ASSUME OptionBooks, [OptionNext]_allVars
  PROVE  OptionBooks' /\ \E count \in {0, 1} : OptionSettlesUp(count)
<1>1. RepairInv'
  BY NextKeepsRepair DEF OptionBooks
<1>2. ASSUME Restart \/ FailedStart PROVE OptionBooks' /\ OptionSettlesUp(0)
  BY <1>1, <1>2, StartKeepsOptions
<1>3. ASSUME NEW m \in Markets,
             \/ SettleStep(m) /\ UNCHANGED optionVars
             \/ \E l \in Labels : PayoutOption(m, l)
      PROVE  OptionBooks' /\ \E count \in {0, 1} : OptionSettlesUp(count)
  BY <1>1, <1>3, SettleStepKeepsOptions
<1>4. ASSUME NEW m \in Markets, UpsertOption(m) \/ StopCreating(m)
      PROVE  OptionBooks' /\ OptionSettlesUp(0)
  BY <1>1, <1>4, UpsertKeepsOptions, StopKeepsOptions
<1>5. ASSUME NEW m \in Markets, NEW u \in Users,
             CreateMarket(m, u) \/ (CreateShadow(m, u) /\ UNCHANGED optionVars)
      PROVE  OptionBooks' /\ OptionSettlesUp(0)
  BY <1>1, <1>5, CreationKeepsOptions
<1>6. ASSUME NEW m \in Markets, NEW u \in Users, TradeStep(u, m) /\ UNCHANGED optionVars
      PROVE  OptionBooks' /\ OptionSettlesUp(0)
  BY <1>1, <1>6, TradeStepKeepsOptions
<1>7. ASSUME NEW m \in Markets, NEW u \in Users, NEW l \in Labels, OptionStep(u, m, l)
      PROVE  OptionBooks' /\ OptionSettlesUp(0)
  BY <1>1, <1>7, BuyOptionKeeps, SellOptionKeeps DEF OptionStep
<1>8. CASE UNCHANGED allVars
  <2>1. UNCHANGED <<tradingVars, optionVars>>
    BY <1>8 DEF allVars
  <2>2. \A m \in Created : Traded(m)' = Traded(m)
    BY <2>1, TradedFrame DEF optionVars, optionRows, optionBooks
  <2>3. OptionTables' /\ OptionsUntouched'
    BY <2>1 DEF OptionBooks, OptionTables, OptionsUntouched, Created, optionVars, server,
       optionRows, optionBooks, tradingVars, market
  <2>4. UNCHANGED <<tradingVars, optSpent>>
    BY <2>1 DEF optionVars, optionBooks
  <2>5. OptionBooks' /\ OptionSettlesUp(0)
    BY <1>1, <2>2, <2>3, <2>4, SeedingKeepsOptions
  <2>6. QED BY <2>5
<1>9. QED
  BY <1>2, <1>3, <1>4, <1>5, <1>6, <1>7, <1>8 DEF OptionNext, Reached

\* What the property sums up is what backs the markets and what is in the options.
LEMMA OptionGapIsMissing ==
  ASSUME OptionBooks
  PROVE  OptionPointsConserved <=> OptionGap \in 0 .. Cardinality(Users) * Payments
<1> DEFINE f == Backing
           g == TradedOf
           h == [m \in Markets |-> collateral[m] * (1 - payouts[m]) + Traded(m)]
           S == Created
<1>1. /\ \A m \in Markets : f[m] \in Int /\ g[m] \in Int
      /\ IsFiniteSet(S) /\ S \subseteq Markets
      /\ Backed \in Int /\ OptionTraded \in Int
  BY BackingType, OptionTradedType DEF OptionBooks
<1>2. \A m \in S : f[m] \in Int /\ g[m] \in Int /\ h[m] = f[m] + g[m]
  BY <1>1 DEF Backing, TradedOf
<1>3. Backed = SumFunctionOnSet(f, S) /\ OptionTraded = SumFunctionOnSet(g, S)
  BY DEF Backed, OptionTraded
<1>4. /\ OptionPointsConserved <=>
            Issued - SumFunction(balance) - SumFunctionOnSet(h, S)
                \in 0 .. (Cardinality(Users) * Payments)
      /\ Issued \in Int /\ SumFunction(balance) \in Int
  BY IssuedType, BalancesType DEF OptionBooks, OptionPointsConserved, Payments
<1> HIDE DEF f, g, h, S
<1>5. SumFunctionOnSet(h, S) = SumFunctionOnSet(f, S) + SumFunctionOnSet(g, S)
  BY <1>1, <1>2, SumPointwise
<1>6. Issued - SumFunction(balance) - SumFunctionOnSet(h, S) = OptionGap
  BY <1>1, <1>3, <1>4, <1>5 DEF OptionGap, Gap
<1>7. QED BY <1>4, <1>6

GapInv == OptionBooks /\ OptionGap \in 0 .. Cardinality(Users) * Payments

LEMMA GapInvAlways == OptionSpec => []GapInv
<1>1. OptionInit => GapInv
  <2>1. Cardinality(Users) \in Nat
    BY FiniteAssumption, FS_CardinalityType
  <2>2. QED BY <2>1, InitOptionBooks DEF GapInv
<1>2. GapInv /\ [OptionNext]_allVars => GapInv'
  <2> SUFFICES ASSUME GapInv, [OptionNext]_allVars PROVE GapInv'
    OBVIOUS
  <2>1. OptionBooks' /\ \E count \in {0, 1} : OptionSettlesUp(count)
    BY NextKeepsOptionBooks DEF GapInv
  <2>2. PICK count \in {0, 1} : OptionSettlesUp(count)
    BY <2>1
  <2>3. PICK lost \in 0 .. Cardinality(Users) * count : OptionGap' = OptionGap + lost
    BY <2>2 DEF OptionSettlesUp
  <2>4. /\ Payments \in Nat /\ Cardinality(Users) \in Nat /\ OptionGap \in Int
        /\ OptionGap \in 0 .. Cardinality(Users) * Payments
    BY GapType, OptionTradedType DEF GapInv, OptionBooks, OptionGap
  <2>5. OptionGap + lost \in 0 .. Cardinality(Users) * (Payments + count)
    BY <2>4, CountedGap
  <2>6. Payments' = Payments + count
    BY <2>2 DEF OptionSettlesUp
  <2>7. QED BY <2>1, <2>3, <2>5, <2>6 DEF GapInv
<1>3. QED BY <1>1, <1>2, PTL DEF OptionSpec

\* No trade, sale from either position, backfill or payout takes a table of the
\* options, the pools or the balances out of its type, trades at a total of 0
\* included: no position is overdrawn, but one may be not a number, and no backfill
\* is a division by zero.
THEOREM OptionTypesCorrect == OptionSpec => []OptionTypeOK
<1>1. GapInv => OptionTypeOK
  BY DEF GapInv, OptionBooks, OptionTables, OptionTypeOK, TypeOK, Books, Balances
<1>2. QED BY <1>1, GapInvAlways, PTL

\* The sum of a market's option trades is what its options hold beyond their
\* seed, also when a creation stops between two options, a restart fills in the
\* others, or a sale takes pool shares.
THEOREM OptionLedgerMatchesAlways == OptionSpec => []OptionLedgerMatches
<1>1. GapInv => OptionLedgerMatches
  BY DEF GapInv, OptionBooks, OptionLedger, OptionCosts, OptionLedgerMatches
<1>2. QED BY <1>1, GapInvAlways, PTL

\* Options and pools together conserve points, for any number of markets, users
\* and restarts: only payouts lose some, less than one for each user and payout.
THEOREM OptionPointsConservedAlways == OptionSpec => []OptionPointsConserved
<1>1. GapInv => OptionPointsConserved
  BY OptionGapIsMissing DEF GapInv
<1>2. QED BY <1>1, GapInvAlways, PTL

\* Option trades break none of the laws of the pool they trade beside, not even
\* sales of pool shares: positions still add up to the shares out, and what a
\* cancelled market refunds is what its pool holds.
THEOREM PoolLawsBesideOptions == OptionSpec => [](SharesAreHeld /\ RefundsMatchCollateral)
<1>1. GapInv => SharesAreHeld /\ RefundsMatchCollateral
  BY RefundsAddUp DEF GapInv, OptionBooks, Books
<1>2. QED BY <1>1, GapInvAlways, PTL
=============================================================================
