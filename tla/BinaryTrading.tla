---------------------------- MODULE BinaryTrading ----------------------------
(***************************************************************************)
(* Points, pools and shares: market.Repository.Create, the binary trades   *)
(* of trade.Repository.execute and the amounts that Repository.Payout      *)
(* credits.  When a market is resolved, disputed and paid is               *)
(* MarketLifecycle's subject; here a market is open, over (it can be       *)
(* paid) or paid, and an overturned decision makes a paid market over      *)
(* again, with its collateral still on the books.                          *)
(*                                                                         *)
(* A trade locks the market's and the pool's rows and runs SERIALIZABLE,   *)
(* so it is one action.  A trade that fails leaves nothing behind (its     *)
(* UPDATE of a market past closes_at is rolled back with the rest).        *)
(***************************************************************************)
EXTENDS Cpmm, FiniteSets, FiniteSetsExt, Functions

CONSTANTS
    Users,
    Markets,
    InitialBalance,  \* users.balance of a new user
    Liquidity,       \* initial_liquidity of every market
    Amounts,         \* the "cost" of a request: points to spend or shares to sell
    MaxTrades,       \* bound: trades in all markets together
    MaxPayouts       \* bound: payouts of one market

ASSUME TradingAssumption ==
    /\ InitialBalance \in Nat
    /\ Liquidity \in Nat \ {0}
    /\ Amounts \subseteq Nat \ {0}
    /\ MaxTrades \in Nat
    /\ MaxPayouts \in Nat

NoUser == "none"
ASSUME UserAssumption == NoUser \notin Users

\* Rows and requests: there is an end to both.
ASSUME FiniteAssumption ==
    /\ IsFiniteSet(Users)
    /\ IsFiniteSet(Markets)
    /\ IsFiniteSet(Amounts) /\ Amounts # {}

VARIABLES
    stage,       \* "none" before the creation, then "open", "over" and "paid"
    creator,     \* markets.creator_id
    shadow,      \* the markets with is_shadow
    balance,     \* users.balance, in points
    pool,        \* pools.yes_reserve and no_reserve, in units
    collateral,  \* pools.total_collateral, in points
    shares,      \* positions.yes_shares and no_shares, in units
    spent,       \* SUM(trades.cost) of a user in a market, in points
    trades,      \* trades so far
    payouts,     \* history: how often the market was paid
    held,        \* history: shares bought less shares sold, in units
    kept         \* history: units of proceeds that truncation kept from sellers

market == <<stage, creator, shadow, payouts>>
poolVars == <<pool, collateral, held, kept>>
books == <<balance, shares, spent>>
tradingVars == <<market, poolVars, books, trades>>

Units == [yes : Nat, no : Nat]
NoShares == [yes |-> 0, no |-> 0]

\* All that a payout does not change.
TradingTypeOK ==
    /\ stage \in [Markets -> {"none", "open", "over", "paid"}]
    /\ creator \in [Markets -> Users \cup {NoUser}]
    /\ shadow \subseteq Markets
    /\ pool \in [Markets -> Units]
    /\ collateral \in [Markets -> Int]
    /\ shares \in [Users -> [Markets -> Units]]
    /\ spent \in [Users -> [Markets -> Int]]
    /\ trades \in Nat
    /\ payouts \in [Markets -> Nat]
    /\ held \in [Markets -> [yes : Int, no : Int]]
    /\ kept \in [Markets -> Nat]

TypeOK == TradingTypeOK /\ balance \in [Users -> Int]

Init ==
    /\ stage = [m \in Markets |-> "none"]
    /\ creator = [m \in Markets |-> NoUser]
    /\ shadow = {}
    /\ balance = [u \in Users |-> InitialBalance]
    /\ pool = [m \in Markets |-> NoShares]
    /\ collateral = [m \in Markets |-> 0]
    /\ shares = [u \in Users |-> [m \in Markets |-> NoShares]]
    /\ spent = [u \in Users |-> [m \in Markets |-> 0]]
    /\ trades = 0
    /\ payouts = [m \in Markets |-> 0]
    /\ held = [m \in Markets |-> NoShares]
    /\ kept = [m \in Markets |-> 0]

-----------------------------------------------------------------------------
(* Creation and trading                                                    *)

\* The rows of a new market and its pool.
InsertMarket(m, u) ==
    /\ stage[m] = "none"
    /\ stage' = [stage EXCEPT ![m] = "open"]
    /\ creator' = [creator EXCEPT ![m] = u]
    /\ pool' = [pool EXCEPT ![m] = New(Liquidity)]
    /\ collateral' = [collateral EXCEPT ![m] = Liquidity]
    /\ UNCHANGED <<shares, spent, trades, payouts, held, kept>>

\* Faulty variant: the creator's points are not taken.
CreateForFree(m, u) ==
    /\ InsertMarket(m, u)
    /\ balance[u] >= Liquidity
    /\ UNCHANGED <<balance, shadow>>

\* The market, its pool and the debit of the creator, in one transaction.
Create(m, u) ==
    /\ InsertMarket(m, u)
    /\ balance[u] >= Liquidity
    /\ balance' = [balance EXCEPT ![u] = @ - Liquidity]
    /\ UNCHANGED shadow

\* The market that shadows a forecast question has the owner as its creator, and
\* its liquidity is nobody's.  (A shadow market left without a pool cannot be
\* traded and is not modelled here.)
CreateShadow(m, u) ==
    /\ InsertMarket(m, u)
    /\ shadow' = shadow \cup {m}
    /\ UNCHANGED balance

\* Faulty variant: creators trade in their own markets.
AnyoneMayTrade(u, m) ==
    /\ stage[m] = "open"
    /\ trades < MaxTrades
    /\ trades' = trades + 1

MayTrade(u, m) ==
    /\ stage[m] = "open"
    /\ creator[m] # u
    /\ trades < MaxTrades
    /\ trades' = trades + 1

\* Faulty variant: a sale leaves the collateral alone.
BookWithoutDebit(u, m, cost) ==
    /\ balance' = [balance EXCEPT ![u] = @ - cost]
    /\ collateral' = IF cost > 0 THEN [collateral EXCEPT ![m] = @ + cost] ELSE collateral
    /\ spent' = [spent EXCEPT ![u][m] = @ + cost]

\* cost is negative for a sale, as in the trades table.
Book(u, m, cost) ==
    /\ balance' = [balance EXCEPT ![u] = @ - cost]
    /\ collateral' = [collateral EXCEPT ![m] = @ + cost]
    /\ spent' = [spent EXCEPT ![u][m] = @ + cost]

\* Faulty variant: the upsert overwrites the position.
ReplaceShares(u, m, s, units) ==
    /\ shares' = [shares EXCEPT ![u][m][s] = IF units > 0 THEN units ELSE @ + units]
    /\ held' = [held EXCEPT ![m][s] = @ + units]

MoveShares(u, m, s, units) ==
    /\ shares' = [shares EXCEPT ![u][m][s] = @ + units]
    /\ held' = [held EXCEPT ![m][s] = @ + units]

Buy(u, m, s, cost) ==
    LET bought == Bought(pool[m], s, cost)
    IN  /\ MayTrade(u, m)
        /\ bought.shares > 0
        /\ balance[u] >= cost
        /\ Book(u, m, cost)
        /\ pool' = [pool EXCEPT ![m] = bought.pool]
        /\ MoveShares(u, m, s, bought.shares)
        /\ UNCHANGED <<market, kept>>

\* Faulty variant: any position will do.
CoversSome(u, m, s, amount) == shares[u][m][s] > 0

Covers(u, m, s, amount) == shares[u][m][s] >= amount * Scale

\* Truncation may leave nothing: the shares are then sold for 0 points.
Sell(u, m, s, amount) ==
    LET sold == Sold(pool[m], s, amount)
    IN  /\ MayTrade(u, m)
        /\ Covers(u, m, s, amount)
        /\ sold.proceeds > 0
        /\ \E proceeds \in Truncated(sold.proceeds, Scale) :
              /\ Book(u, m, -proceeds)
              /\ kept' = [kept EXCEPT ![m] = @ + sold.proceeds - proceeds * Scale]
        /\ pool' = [pool EXCEPT ![m] = sold.pool]
        /\ MoveShares(u, m, s, -(amount * Scale))
        /\ UNCHANGED market

-----------------------------------------------------------------------------
(* Settlement                                                              *)

\* closes_at passes or the market is resolved: either way nobody trades any more.
EndTrading(m) ==
    /\ stage[m] = "open"
    /\ stage' = [stage EXCEPT ![m] = "over"]
    /\ UNCHANGED <<creator, shadow, payouts, poolVars, books, trades>>

MarkPaid(m) ==
    /\ stage[m] = "over"
    /\ payouts[m] < MaxPayouts
    /\ stage' = [stage EXCEPT ![m] = "paid"]
    /\ payouts' = [payouts EXCEPT ![m] = @ + 1]
    /\ UNCHANGED <<creator, shadow, poolVars, shares, spent, trades>>

\* The query joins a user with one row only: the creator has no trades to refund.
Refund(m, u) == IF u = creator[m] THEN Liquidity ELSE spent[u][m]

PayoutCancelled(m) ==
    /\ MarkPaid(m)
    /\ balance' = [u \in Users |-> balance[u] + Refund(m, u)]

\* Faulty variant: what is left of a point goes to the winner.
DistributeRoundedUp(m, units) ==
    LET total == SumFunction(units)
    IN  /\ total > 0
        /\ balance' = [u \in Users |->
              balance[u] + (units[u] * collateral[m] + total - 1) \div total]

\* FLOOR(shares * (total_collateral / total_winning)) to each holder; short are
\* the holders whose float product ends up below the whole number it should be.
Distribute(m, units) ==
    LET total == SumFunction(units)
    IN  /\ total > 0
        /\ \E short \in SUBSET Users :
              balance' = [u \in Users |->
                  LET due == Truncated(units[u] * collateral[m], total)
                  IN  balance[u] + IF u \in short THEN Min(due) ELSE Max(due)]

PayoutSide(m, s) ==
    /\ MarkPaid(m)
    /\ Distribute(m, [u \in Users |-> shares[u][m][s]])

\* A dispute review overturned the decision and cleared payout_at.
Overturn(m) ==
    /\ stage[m] = "paid"
    /\ stage' = [stage EXCEPT ![m] = "over"]
    /\ UNCHANGED <<creator, shadow, payouts, poolVars, books, trades>>

-----------------------------------------------------------------------------

TradeStep(u, m) ==
    \E s \in Sides, a \in Amounts : Buy(u, m, s, a) \/ Sell(u, m, s, a)

SettleStep(m) ==
    \/ EndTrading(m)
    \/ PayoutCancelled(m)
    \/ \E s \in Sides : PayoutSide(m, s)
    \/ Overturn(m)

Next ==
    \E m \in Markets :
        \/ SettleStep(m)
        \/ \E u \in Users : Create(m, u) \/ CreateShadow(m, u) \/ TradeStep(u, m)

Spec == Init /\ [][Next]_tradingVars

-----------------------------------------------------------------------------
(* Properties                                                              *)

Created == {m \in Markets : stage[m] # "none"}

\* Every point there is: the users' at the start and the shadow markets' liquidity.
Issued == Cardinality(Users) * InitialBalance + Cardinality(shadow) * Liquidity

\* Points are neither made nor lost by creating markets and trading.  A payout
\* credits the collateral of its market, short of at most a point for each user,
\* and a refund credits all of it: so whatever was paid more than once is known.
PointsConserved ==
    LET backed == SumFunctionOnSet([m \in Markets |-> collateral[m] * (1 - payouts[m])], Created)
        missing == Issued - SumFunction(balance) - backed
    IN  missing \in 0 .. (Cardinality(Users) * SumFunction(payouts))

\* The reserves and the shares out together are worth the collateral and the
\* liquidity: what a buyer pays and a seller gets is what the reserves moved by,
\* but for the fractions that were kept from sellers.
ShareLaw ==
    \A m \in Created :
        pool[m].yes + pool[m].no + held[m].yes + held[m].no + kept[m]
            = (collateral[m] + Liquidity) * Scale

\* positions hold exactly the shares that the pool gave out.
SharesAreHeld ==
    \A m \in Markets, s \in Sides :
        SumFunction([u \in Users |-> shares[u][m][s]]) = held[m][s]

\* What rounding may have cost the reserves so far, in units: each trade rounds
\* one reserve to the nearest unit, at a price that the trades before it moved.
Drift == trades + (trades * trades * Max(Amounts)) \div Liquidity

\* However the trades went, the liquidity is still there, and beyond it a point
\* for every share of either side, but for the rounding: a winning share never
\* pays less than a point.
PoolSolvent ==
    \A m \in Created :
        held[m].yes + held[m].no <= (collateral[m] - Liquidity) * Scale + Drift

\* The refunds of a cancelled market, the ledger's sums and the creator's
\* liquidity, add up to its collateral.
RefundsMatchCollateral ==
    \A m \in Created :
        SumFunction([u \in Users |-> Refund(m, u)]) = collateral[m]

\* In every pool that trading reaches, the shares that a cost buys are quoted at
\* that cost, or a point more.
QuoteMatchesTrade ==
    \A m \in Created, s \in Sides, c \in Amounts :
        CostForShares(pool[m], s, Bought(pool[m], s, c).shares) \in {c, c + 1}

\* A price moves the way of the trade: up for the side that is bought.
PriceFollowsTrade ==
    [][\A m \in Created, u \in Users :
          LET moved(s) == shares'[u][m][s] - shares[u][m][s]
          IN  /\ moved("yes") > 0 \/ moved("no") < 0 => YesPriceAbove(pool'[m], pool[m])
              /\ moved("yes") < 0 \/ moved("no") > 0 => YesPriceAbove(pool[m], pool'[m])]_tradingVars

-----------------------------------------------------------------------------
(* What the documents say and the code does not do                         *)

\* DATA_MODEL.md: "user balance cannot go negative".  The refund of a cancelled market
\* takes back what a user gained by selling, when it may be spent elsewhere.
BalanceNeverNegative == \A u \in Users : balance[u] >= 0
=============================================================================
