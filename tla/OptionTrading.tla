---------------------------- MODULE OptionTrading ----------------------------
(***************************************************************************)
(* Trading in the options of a market, beside its pool: the options that   *)
(* market.Service.Create and migrate.Run insert, trade.executeMulti, and   *)
(* the payout to the holders of a flagged option.  Option trades and pool  *)
(* trades share the balances and the market's row, and an option sale      *)
(* falls back on the shares bought from the pool.                          *)
(*                                                                         *)
(* BinaryTrading is the part that does not know options; its actions are   *)
(* taken here with the options' tables unchanged.                          *)
(***************************************************************************)
EXTENDS BinaryTrading, Sequences

CONSTANT OptionLists   \* lists of labels that the options of a market may be asked for

\* normalizeOptions leaves no label twice, and for fewer than two Create takes YES and NO.
ASSUME OptionAssumption ==
    /\ OptionLists \subseteq Seq(STRING)
    /\ \A list \in OptionLists :
          /\ Len(list) >= 2
          /\ \A i, j \in DOMAIN list : list[i] = list[j] => i = j

Labels == Sides \cup UNION {Range(list) : list \in OptionLists}

NoRow == -1   \* no row in option_positions
NaN == -2     \* a row whose shares are not a number

VARIABLES
    down,           \* a start of the server failed, as every later one does
    served,         \* history: the markets that the last start found
    asked,          \* asked[m]: the labels that Create was given, in sort_order
    rows,           \* rows[m]: the labels market_options has for market m
    building,       \* markets whose creation still inserts options
    optCollateral,  \* market_options.collateral
    optShares,      \* option_positions.shares, in units
    optSpent,       \* SUM(option_trades.cost) of a user in a market
    seeded,         \* history: option collateral that no trade put in
    optHeld         \* history: shares bought less shares sold of an option, in units

server == <<down, served>>
optionRows == <<asked, rows, building, seeded>>
optionBooks == <<optCollateral, optShares, optSpent, optHeld>>
optionVars == <<server, optionRows, optionBooks>>
allVars == <<tradingVars, optionVars>>

Asked(m) == Range(asked[m])

OptionTypeOK ==
    /\ TypeOK
    /\ down \in BOOLEAN
    /\ served \subseteq Markets
    /\ asked \in [Markets -> OptionLists \cup {<<>>}]
    /\ rows \in [Markets -> SUBSET Labels]
    /\ building \subseteq Markets
    /\ optCollateral \in [Markets -> [Labels -> Int]]
    /\ optShares \in [Users -> [Markets -> [Labels -> Nat \cup {NoRow, NaN}]]]
    /\ optSpent \in [Users -> [Markets -> Int]]
    /\ seeded \in [Markets -> Int]
    /\ optHeld \in [Markets -> [Labels -> Int]]

OptionInit ==
    /\ Init
    /\ down = FALSE
    /\ served = {}
    /\ asked = [m \in Markets |-> <<>>]
    /\ rows = [m \in Markets |-> {}]
    /\ building = {}
    /\ optCollateral = [m \in Markets |-> [l \in Labels |-> 0]]
    /\ optShares = [u \in Users |-> [m \in Markets |-> [l \in Labels |-> NoRow]]]
    /\ optSpent = [u \in Users |-> [m \in Markets |-> 0]]
    /\ seeded = [m \in Markets |-> 0]
    /\ optHeld = [m \in Markets |-> [l \in Labels |-> 0]]

-----------------------------------------------------------------------------
(* The rows of market_options                                              *)

CreateMarket(m, u) ==
    /\ Create(m, u)
    /\ \E list \in OptionLists : asked' = [asked EXCEPT ![m] = list]
    /\ building' = building \cup {m}
    /\ UNCHANGED <<server, rows, seeded, optionBooks>>

InsertOption(m, l, points) ==
    /\ rows' = [rows EXCEPT ![m] = @ \cup {l}]
    /\ optCollateral' = [optCollateral EXCEPT ![m][l] = points]
    /\ seeded' = [seeded EXCEPT ![m] = @ + points]

PerOption(m) == Max({1, Liquidity \div Len(asked[m])})

\* UpsertOptions, one statement: the market is open to trades already.
UpsertOption(m) ==
    /\ m \in building
    /\ LET next == Cardinality(rows[m]) + 1
       IN  /\ InsertOption(m, asked[m][next], PerOption(m))
           /\ building' = IF next = Len(asked[m]) THEN building \ {m} ELSE building
    /\ UNCHANGED <<tradingVars, server, asked, optShares, optSpent, optHeld>>

\* The request ends, or a statement fails: the rows there are stay.
StopCreating(m) ==
    /\ m \in building
    /\ building' = building \ {m}
    /\ UNCHANGED <<tradingVars, server, asked, rows, seeded, optionBooks>>

\* Faulty variant: only a market without any option is looked at.
MissingAll(m) == IF rows[m] = {} THEN {"yes", "no"} ELSE {}

\* What migrate.Run finds missing: YES where there is no option, NO then and
\* where there is one.
Missing(m) ==
    CASE rows[m] = {} -> {"yes", "no"}
      [] Cardinality(rows[m]) = 1 -> {"no"}
      [] OTHER -> {}

\* YES gets the collateral at the pool's price and NO the rest.
BackfilledCollateral(m, l) ==
    LET yes == (collateral[m] * pool[m].no) \div (pool[m].yes + pool[m].no)
    IN  Max({1, IF l = "yes" THEN yes ELSE collateral[m] - yes})

\* Positions are copied to the options YES and NO of holders without a row there.
Copied(u, m, l) ==
    IF /\ l \in Sides \cap (rows[m] \cup Missing(m))
       /\ shares[u][m][l] > 0
       /\ optShares[u][m][l] = NoRow
    THEN shares[u][m][l] ELSE optShares[u][m][l]

\* The rows that a start inserts; found has the labels for each market.
Backfill(found) ==
    /\ building' = {}
    /\ rows' = [m \in Markets |-> rows[m] \cup found[m]]
    /\ optCollateral' = [m \in Markets |-> [l \in Labels |->
          IF l \in found[m] THEN BackfilledCollateral(m, l) ELSE optCollateral[m][l]]]
    /\ seeded' = [m \in Markets |-> seeded[m] + SumFunctionOnSet(optCollateral'[m], found[m])]
    /\ UNCHANGED <<tradingVars, asked, optSpent, optHeld>>

\* One statement inserts NO wherever there is a single option: it fails when that
\* option of a market is NO itself.
Clashing == \E m \in Created : rows[m] = {"no"}

\* A start of the server; one that changes nothing is not told apart.
Restart ==
    /\ ~Clashing
    /\ Backfill([m \in Markets |-> IF m \in Created THEN Missing(m) ELSE {}])
    /\ optShares' = [u \in Users |-> [m \in Markets |-> [l \in Labels |->
          IF m \in Created THEN Copied(u, m, l) ELSE optShares[u][m][l]]]]
    /\ served' = Created
    /\ UNCHANGED down

\* A start that fails: the statement before has inserted YES, none after it runs.
FailedStart ==
    /\ Clashing
    /\ Backfill([m \in Markets |-> IF m \in Created THEN Missing(m) \ {"no"} ELSE {}])
    /\ down' = TRUE
    /\ UNCHANGED <<served, optShares>>

-----------------------------------------------------------------------------
(* executeMulti                                                            *)

Total(m) == SumFunctionOnSet(optCollateral[m], rows[m])

Magnitude(n) == IF n < 0 THEN -n ELSE n

\* collateral / total with a total of 0: not a number for an option without
\* collateral, infinite for one with some.
Undefined(m, l) == Total(m) = 0 /\ optCollateral[m][l] = 0
Infinite(m, l) == Total(m) = 0 /\ optCollateral[m][l] > 0

\* Otherwise the probability is the quotient, or 0.05 if that is not positive: a
\* ratio of two positive numbers either way.
Probability(m, l) ==
    IF optCollateral[m][l] * Total(m) > 0
    THEN [num |-> Magnitude(optCollateral[m][l]), den |-> Magnitude(Total(m))]
    ELSE [num |-> 1, den |-> 20]

\* cost / probability, in units.
SharesFor(m, l, cost) ==
    LET p == Probability(m, l)
    IN  CASE Undefined(m, l) -> NaN
          [] Infinite(m, l) -> 0
          [] OTHER -> Quotient(cost * Scale * p.den, p.num)

MayTradeOption(u, m, l) == MayTrade(u, m) /\ l \in rows[m]

\* Faulty variant: the ledger is not told of sales.
BookOptionBuys(u, m, l, cost) ==
    /\ balance' = [balance EXCEPT ![u] = @ - cost]
    /\ optCollateral' = [optCollateral EXCEPT ![m][l] = @ + cost]
    /\ optSpent' = [optSpent EXCEPT ![u][m] = IF cost > 0 THEN @ + cost ELSE @]

\* Faulty variant: a sale leaves the option's collateral alone.
BookOptionWithoutDebit(u, m, l, cost) ==
    /\ balance' = [balance EXCEPT ![u] = @ - cost]
    /\ optCollateral' = [optCollateral EXCEPT ![m][l] = IF cost > 0 THEN @ + cost ELSE @]
    /\ optSpent' = [optSpent EXCEPT ![u][m] = @ + cost]

BookOption(u, m, l, cost) ==
    /\ balance' = [balance EXCEPT ![u] = @ - cost]
    /\ optCollateral' = [optCollateral EXCEPT ![m][l] = @ + cost]
    /\ optSpent' = [optSpent EXCEPT ![u][m] = @ + cost]

\* A position that is not a number stays that.
Plus(units, bought) ==
    CASE NaN \in {units, bought} -> NaN
      [] units = NoRow -> bought
      [] OTHER -> units + bought

BuyOption(u, m, l, cost) ==
    LET bought == SharesFor(m, l, cost)
    IN  /\ MayTradeOption(u, m, l)
        /\ balance[u] >= cost
        /\ BookOption(u, m, l, cost)
        /\ optShares' = [optShares EXCEPT ![u][m][l] = Plus(@, bought)]
        /\ optHeld' = [optHeld EXCEPT ![m][l] = @ + IF bought = NaN THEN 0 ELSE bought]
        /\ UNCHANGED <<market, poolVars, shares, spent, server, optionRows>>

\* Every label but YES stands for the NO shares.
FallbackSide(l) == IF l = "yes" THEN "yes" ELSE "no"

\* No comparison with what is not a number holds: such a position covers any sale.
TakeOptionShares(u, m, l, amount) ==
    /\ optShares[u][m][l] # NaN => optShares[u][m][l] >= amount * Scale
    /\ optShares' = [optShares EXCEPT ![u][m][l] = IF @ = NaN THEN @ ELSE @ - amount * Scale]
    /\ optHeld' = [optHeld EXCEPT ![m][l] = @ - amount * Scale]
    /\ UNCHANGED <<shares, held>>

\* Faulty variant: a user without a row in option_positions takes from the YES
\* shares without a look at how many there are.
TakeUnchecked(u, m, l, amount) ==
    \/ /\ optShares[u][m][l] # NoRow
       /\ TakeOptionShares(u, m, l, amount)
    \/ /\ optShares[u][m][l] = NoRow
       /\ shares[u][m].yes > 0
       /\ MoveShares(u, m, "yes", -(amount * Scale))
       /\ UNCHANGED <<optShares, optHeld>>

\* The shares to sell, from option_positions if the user has a row there and from
\* positions otherwise.
TakeShares(u, m, l, amount) ==
    \/ /\ optShares[u][m][l] # NoRow
       /\ TakeOptionShares(u, m, l, amount)
    \/ /\ optShares[u][m][l] = NoRow
       /\ shares[u][m][FallbackSide(l)] >= amount * Scale
       /\ MoveShares(u, m, FallbackSide(l), -(amount * Scale))
       /\ UNCHANGED <<optShares, optHeld>>

\* An infinite or undefined price is refused when it is converted to int64 and
\* found negative (on amd64), or overflows the seller's balance (on arm64, where a
\* balance of 0 or less would take it: that case is left out).
SellOption(u, m, l, amount) ==
    /\ ~Undefined(m, l) /\ ~Infinite(m, l)
    /\ MayTradeOption(u, m, l)
    /\ TakeShares(u, m, l, amount)
    /\ LET p == Probability(m, l)
       IN  \E proceeds \in Truncated(amount * p.num, p.den) \ {0} :
              BookOption(u, m, l, -proceeds)
    /\ UNCHANGED <<market, pool, collateral, kept, spent, server, optionRows>>

-----------------------------------------------------------------------------

\* The holders of a flagged option get the collateral of the pool.  With a position
\* that is not a number the statement fails, and the payout is rolled back.
PayoutOption(m, l) ==
    /\ l \in rows[m]
    /\ \A u \in Users : optShares[u][m][l] # NaN
    /\ MarkPaid(m)
    /\ Distribute(m, [u \in Users |-> Max({0, optShares[u][m][l]})])
    /\ UNCHANGED optionVars

OptionStep(u, m, l) ==
    \E a \in Amounts : BuyOption(u, m, l, a) \/ SellOption(u, m, l, a)

Reached == {m \in Markets : ~down}   \* the markets that requests reach

OptionNext ==
    \/ \E m \in Reached :
          \/ SettleStep(m) /\ UNCHANGED optionVars
          \/ UpsertOption(m)
          \/ StopCreating(m)
          \/ \E l \in Labels : PayoutOption(m, l)
          \/ \E u \in Users :
                \/ CreateMarket(m, u)
                \/ CreateShadow(m, u) /\ UNCHANGED optionVars
                \/ TradeStep(u, m) /\ UNCHANGED optionVars
                \/ \E l \in Labels : OptionStep(u, m, l)
    \/ ~down /\ Restart
    \/ ~down /\ FailedStart

OptionSpec == OptionInit /\ [][OptionNext]_allVars

-----------------------------------------------------------------------------
(* Properties                                                              *)

\* What trades put into the options of m, less what they took out.
Traded(m) == Total(m) - seeded[m]

\* Points are conserved across pools, options and balances: whatever an option
\* trade pays more than was put in shows as option collateral below what it was
\* seeded with, and a payout credits the collateral of the pool, no more.
OptionPointsConserved ==
    LET backed == SumFunctionOnSet(
            [m \in Markets |-> collateral[m] * (1 - payouts[m]) + Traded(m)], Created)
        missing == Issued - SumFunction(balance) - backed
    IN  missing \in 0 .. (Cardinality(Users) * SumFunction(payouts))

\* The option ledger and the options' collateral agree, also when a creation was
\* cut short, a restart filled in options, and sales fell back on pool shares.
OptionLedgerMatches ==
    \A m \in Created : SumFunction([u \in Users |-> optSpent[u][m]]) = Traded(m)

\* What a creation that stopped between two options leaves, in a server that runs on
\* or with it, is repaired by the next start that succeeds: the markets it finds have
\* two options at least to trade in.  (The rest of a longer list is not inserted.)
\* And the repair adds nothing of its own to a market with two of the options asked.
RestartRepairsOptions ==
    /\ \A m \in served : Cardinality(rows[m]) >= 2
    /\ \A m \in Created :
          Cardinality(rows[m] \cap Asked(m)) >= 2 => rows[m] \subseteq Asked(m)

-----------------------------------------------------------------------------
(* What the documents say and the code does not do                         *)

\* API.md: "checks user has ... sufficient shares (for sells)".  A restart copies
\* pool shares to option_positions, and both copies can be sold.
NoMoreSoldThanBought ==
    \A m \in Markets, s \in Sides : held[m][s] + optHeld[m][s] >= 0

\* The same sentence, of one sale: whoever sells in a market has the shares for the
\* smallest amount in one of its positions.  A position that is not a number sells
\* without any.
SalesAreCovered ==
    [][\A u \in Users, m \in Markets : optSpent'[u][m] < optSpent[u][m] =>
          \/ \E l \in Labels : optShares[u][m][l] >= Min(Amounts) * Scale
          \/ \E s \in Sides : shares[u][m][s] >= Min(Amounts) * Scale]_allVars

\* PRD.md: "migrations run reliably on startup".  A creation that stopped after NO, with
\* YES still to come, makes the next start fail.
StartsSucceed == ~down
=============================================================================
