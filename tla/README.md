# Formal models of inhousePredictor

inhousePredictor is an internal prediction market: colleagues trade play-money
points on questions, a resolver decides the outcome, and holders of the winning
side share what was paid in.  Beside the markets, contributors give probabilities
for roadmap commitments (forecast questions), and their median is the official
forecast.  The server is one Go program over PostgreSQL; every change of state is
an SQL transaction, and what makes it hard to get right is what happens between
two transactions of one request, between requests, and between two starts of the
server.

This directory holds TLA+ modules that model those transactions, TLC
configurations that check them on small instances, and TLAPS proofs of the main
safety properties for every value of the constants.  All source paths below are
relative to `src/`.

## 1. The system

| component | state | operations | who calls it |
|---|---|---|---|
| market lifecycle (`internal/market`) | `markets`, `market_options`, `disputes` | `Create`, `Resolve`, `Dispute`, `ReviewDispute`, `Get`, `List`, `CreateShadow`, `SyncShadowLifecycle`, `UpsertOptions` | HTTP handlers; forecast service |
| settlement (`internal/trade`: `Payout`, `ReadyForPayout`, `FinalizeEligiblePayouts`) | `markets.payout_at`, `users.balance` | pay a side, pay an option, refund | market service, after a resolution or an override and before each read of a market; positions view |
| market maker (`internal/cpmm`) | none (values) | buy, sell, quote, price | trade repository |
| binary trading (`trade.execute`) | `pools`, `positions`, `trades`, `users.balance` | buy and sell YES and NO | trade service |
| option trading (`trade.executeMulti`) | `market_options.collateral`, `option_positions`, `option_trades`, `users.balance` | buy and sell an option | trade service |
| migration (`internal/migrate`) | schema; backfill of options, option positions and winner flags | `Run`, at every start | `main` |
| forecast questions (`internal/forecast`) | `forecast_questions`, `_latest_active`, `_projections`, `_snapshots`, `_score_records` | `CreateQuestion`, `SubmitForecast`, `ResolveQuestion` | HTTP handlers |
| background jobs (`forecast.Worker`) | `background_jobs` | enqueue, fetch, complete, fail | forecast service; a goroutine that ticks |
| trade service (`trade.Service`) | none (a call's attempts and its answer) | `Execute`: try, try again, broadcast, answer | HTTP handler |
| websocket hub (`internal/ws`) | the set of clients, the channels of the hub and of each client | `Run`, `Broadcast`, `Shutdown`; subscribe, unsubscribe and two pumps per connection | trade service; websocket handler; `main` |
| connection pool (`internal/db`) | connections in use | taken by a transaction or a statement, kept by an open query | every repository |
| shutdown (`cmd/server`) | | signal, `server.Shutdown`, `hub.Shutdown`, exit | the operating system |
| users and authentication | `users` | register, log in, check a token | HTTP handlers |

How they interact: the components share the database and call each other
directly.  A resolution commits the outcome and then calls the payout; a read of a
market or of the positions first pays whatever is due; a forecast question creates
a shadow market and, when it is resolved, overwrites that market's status and
outcome; the start of the server rewrites options and option positions.  A trade that
committed is announced through the hub, whose loop is reached over bounded channels
only; senders wait while a channel is full.  All requests share one pool of database
connections.  There is no queue between components except `background_jobs`, the
hub's channels and the wait for a connection.

What is hard:

* requests of several transactions (resolve and pay, review and pay, list and pay
  one after the other, resolve a question and sync and score and notify), which
  can be cut off or overtaken after each of them;
* values read in one transaction and used in a later one (the outcome handed to
  `Payout`, the status of a question checked before its revision is written);
* READ COMMITTED transactions of `forecast` side by side;
* a server that ends at any point, and a migration that repairs and copies at
  every start; clients that leave, which cancels what their request does next;
* goroutines that meet in the hub's channels: full buffers, slow and dead clients,
  a `select` that takes the ready cases in any order, a shutdown meanwhile;
* trades that are tried again, and answers that must not lie about them;
* queries kept open while their rows need further connections;
* rounding: float64 shares, int64 points, and divisions by totals that trades can bring
  to zero;
* two clocks, the server's and the database's, for one dispute window;
* two sets of books for one market, the pool's and the options'.

What makes each component correct:

* lifecycle and settlement: nobody is paid before a decision, each decision is
  paid for at most once, only what was declared is paid, a settled market stays
  settled, what is due is paid in the end;
* trading: points are neither made nor lost, positions are exactly the shares
  given out, the pool can pay for them, refunds are what it holds;
* options: their ledger, their collateral and the balances agree, and a market whose
  creation stopped half-way can be traded in after a start;
* forecasts: the official forecast is the median, scores are those of the
  snapshot, the resolution stands, its effects all happen;
* trade service and hub: a trade happens at most once whatever its trader is told,
  updates never contradict what a trader could know, a subscriber gets what the hub
  promises and no message twice, no channel is used after it was closed, and neither
  traders nor leavers wait for ever;
* jobs: each is handled once, by one worker, and ends.

`PROJECT.json` lists the hazards of this code line by line with the properties
that cover them.

## 2. The modules

    Settlement        what a settlement promises (abstract)
      ^ implemented by
    MarketLifecycle   <- MarketLifecycleProofs, MCMarketLifecycle

    Cpmm              the market maker, as operators
      ^ extended by
    BinaryTrading     <- BinaryTradingProofs <- PoolProofs; MCBinaryTrading
      ^ extended by
    OptionTrading     <- OptionTradingProofs, MCOptionTrading

    SumProofs         lemmas about sums over finite sets, for the proofs about
                      points, shares, collateral and forecasts

    Feed              what the hub promises its subscribers (abstract)
      ^ implemented by
    TradeFeed         <- TradeFeedProofs, MCTradeFeed
      | extends
    Hub               the hub's loop, its channels and its clients

    Forecast          <- ForecastProofs, MCForecast
    JobQueue          <- JobQueueProofs, MCJobQueue

Modules named `MC...` add model values and symmetry sets for TLC.  A definition
whose comment begins with "Faulty variant" is not part of a model: it is a
plausible mistake in the definition that follows it, with which the property it
was written for fails.

### MarketLifecycle and Settlement

One action per transaction; each locks the market's row first, so it is atomic.
`Resolve`, `Dispute`, `ConfirmOriginal`, `OverrideOutcome`, `CancelMarket`,
`SyncShadow`, `ListDuePayouts` and `PayoutTx` are the transactions, `DeadlinePasses`
is time by one of two clocks, `Abort` is a client that leaves or a statement that fails, `Restart` is the
server with the backfill of `migrate.Run`.  What a request has still to pay is
`todo[r]`; it is chosen in one transaction and used in another, with everything in
between.  Who trades matters only as to which sides and options have holders
(`binHolders`, `optHolders`), since a payout without holders commits nothing, and which
options somebody holds NaN shares of (`spoiled`, by `TradeOptionForNaN`), since their
payout fails (`PayoutFails`).

* `status` never is `"closed"`: the only UPDATE that writes it is rolled back by the
  error returned right after it (`trade/repository.go:76`).
* Resolution does not look at `closes_at`, so time before the dispute window is not
  modelled.  `window[m]` is the dispute deadline as each clock sees it - none, running,
  passed: `Dispute` asks the server's (`time.Now()`, `market/repository.go:419`), the list of
  due payouts the database's (`NOW()`, `trade/repository.go:668`), and either may be ahead.
  `SettledIsFinal` therefore starts when the window is over by both.
* `resolvedAt` is a logical time.  It matters because the due payouts are made in
  the order of `resolved_at` and the first error ends the list.
* `rows` is how far a creation got.  Creation is in several commits, and every
  prefix of them is an initial state.
* `decisions`, `declared` and `paid` are history variables.  The code never reads them.

`Settlement` has three variables: markets with a decision not yet paid for, the
number of decisions, the number of payouts.  `SettlementContract` substitutes
`{m : status[m] # "open" /\ ~payoutAt[m]}` for the first: the meaning that `payout_at`
has, through resolutions, overrides, syncs, restarts and payouts in flight, is that
of an open settlement.

### Cpmm, BinaryTrading and OptionTrading

`Cpmm` computes with integers, in units of `1/Scale` of a point.  A division, which
in float64 has an error far below a unit, is rounded to the nearest unit; the
truncation of proceeds to int64, whose loss is up to a point, is kept exactly, with
both results where the float may be just below a whole number (`Truncated`).  Overflow
of int64 is out of reach: balances start at 10000 points.

`BinaryTrading` has a market's creation, buys and sales, the end of its trading and
the amounts of the payouts (`PayoutSide`, `PayoutCancelled`).  `stage` abstracts the
lifecycle: open, over, paid, and over again after an override, which is the interface
to `MarketLifecycle` - when a payout happens is decided there, what it credits here.
`Distribute` lets each holder's FLOOR be one lower (`short`), for the float quotient.
Market and pool rows are locked and the isolation is SERIALIZABLE, so a trade is one
action; a trade that fails is rolled back and is no action.

`OptionTrading` adds `market_options` and `option_positions`.  Its actions are those of
`BinaryTrading` with the options unchanged, plus `UpsertOption` (one statement of the
creation; trading is possible before it is done), `StopCreating` (the request ends or a
statement fails, in a server that runs on), `Restart` (the backfill), `FailedStart`,
`BuyOption`, `SellOption` and `PayoutOption`.

* The labels asked for are any two or more (`normalizeOptions`), NO first included.  If a
  creation stops after that one, the backfill's second statement inserts NO again, breaks
  `UNIQUE (market_id, label)`, and no start succeeds from then on (`down`).
* The total of the options' collateral may be zero or below: sales are paid from it.
  At zero a purchase books `cost / probability` all the same, 0 shares at an infinite
  probability, NaN at 0/0, and a position that is NaN stays NaN and covers any sale.  It
  cannot be paid out.
* A sale at a price of 0/0 or infinity is taken as refused: the conversion to int64 gives
  a negative number on amd64 and the largest one on arm64, which overflows the seller's
  balance.  With a balance of 0 or less it would not overflow there; that case is left out.
  Purchases convert nothing, and none is left out.

### Feed, Hub and TradeFeed

`Hub` has an action for each case of the `select` in `Hub.Run`, for each step of a
connection's handler, and for what others call (`Broadcast`, `Shutdown`).  `TradeFeed`
adds the calls of `trade.Service.Execute` - `Begin`, `Commit`, `AttemptFails` (which tries
again or answers), `Announce` - and the shutdown in `main`: `Drain`, `ShutdownHub`, `Exit`.
It is the composition: a call's broadcast waits for the hub, `main` waits for the calls.

* The channels `subscribe` and `unsubscribe` are sets with a capacity: a client is in
  each at most once, and its place makes no difference, since `select` lets anything come
  in between.  `broadcast` and the clients' channels are logs with a cursor (`sent` and
  `taken`, `send[c]` and `read[c]`); what is in the channel is what is after the cursor.
* `Receive` is the write pump.  A slow one is one that has not read yet, and one that
  ended with a failed write, while its client is still registered, is one that never
  reads again; no fairness makes it read.
* An attempt may fail with a serialization failure, with any other error that rolled it
  back (a cancelled context included), or with a connection lost during the commit, and
  then nobody knows whether it committed.
* A client whose unsubscription the hub takes before its subscription stays registered
  for ever ("ghost").  Its channel fills up and everything for it is dropped, so nobody
  waits for it; `NoPanic` and `FeedContract` hold with ghosts in the picture.
* The case `ctx.Done()` of `Run` cannot happen: `main` passes `context.Background()`.
* `joinedAt`, `dropped`, `commits` and `before` are history variables.

`Feed` has three variables: how many updates were published, who listens, what each was
sent.  Publishing is the hub's taking a message, not the trader's putting it in;
listening is registration, and it ends with the closing of the channel.

### Forecast

One question, its contributors, its shadow market and submissions as processes.
`AddRevision` runs at READ COMMITTED: `Check`, `Write`, `Compute` and `Commit` are the
points between which others can act, and `Seen` is what the transaction's query sees.
`ResolveQuestion` is `Resolve`, `SyncShadow`, `QuerySnapshots`, a `CreateScore` per snapshot
and `NotifyResolution`; `CreateQuestion` and `CreateShadowMarket` are two commits.  `Crash`
loses every request in progress and keeps what it committed; `GiveUp` does it for one
request, whose client has left.

All of it shares a pool of `Connections`.  A transaction holds one from its first
statement to its commit, a statement by itself needs one for as long as it takes, and
`CreateScores` keeps one for its query while each insert takes another.
`market.Repository.List` does the same: it keeps its rows open while `GetOptions` and
`ListSnapshots` run for each of them (`market/repository.go:147`).  `others` are the
`CreateScores` of other questions and `lists` the lists of markets that hold a connection
and want a second one (`OtherQueries`, `ListQueries`, `OtherEnds`, `ListEnds`, `OtherLeaves`);
requests that give back each connection before they take the next one are not modelled.

Abstractions: submissions are numbered in the order of their checks, which loses no
behaviour; coverage scores, rationales and revisions other than the latest are left
out; `last_change_bps` and the consensus-change job are left out.

### JobQueue

The table `background_jobs` and any number of workers.  `FetchDueJobs` takes up to
`BatchLimit` due jobs with FOR UPDATE SKIP LOCKED and marks them in one commit;
`HandleJob`, then `CompleteJob` or `FailJob`, follow for each.  `LoseUpdate` is an error
of those updates, which `Run` ignores, and `Crash` is the end of a server.  Which due
job is first is left open.  `Undecodable` are jobs whose payload is not a JSON object:
the only way `handleJob` fails.  The callers of today enqueue objects only, so this is
the path for rows written by other versions of the program.

## 3. What is checked

Passing runs (TLC explores every reachable state within the bounds):

| run | instance | what it shows |
|---|---|---|
| `market_lifecycle` | 1 market with options YES, NO and another, 2 requests, 2 disputes, 1 restart, 2 trades | `SettlementContract`, `SettledIsFinal`, `PaidOnlyDeclared`, `DisputeRowsAgree`, types |
| `lifecycle_pair` | 2 markets, one a shadow market, 1 request, 1 trade | `SettlementContract` with a sync at any time, and under fairness `EventuallyPaid` |
| `binary_trading` | 3 users, 1 market, 4 trades of 30 or 80, 2 payouts, `Scale` 10 | `PointsConserved`, `ShareLaw`, `SharesAreHeld`, `PoolSolvent`, `RefundsMatchCollateral`, `QuoteMatchesTrade`, `PriceFollowsTrade`, types |
| `option_trading` | 3 users, 1 market created with YES and another option (NO is added by the backfill where it is missing) or with NO and YES, stops after any statement, 3 trades of 50 or 100, 1 payout, any number of starts | `OptionPointsConserved`, `OptionLedgerMatches`, `RestartRepairsOptions`, types |
| `job_queue` | 4 jobs, one undecodable, 2 workers, 2 attempts, batches of 2, 2 faults | `OneWorkerEach`, `ProcessedOnce`, `FailedWhenExhausted`, `OnlyFaultsStrand`, `EveryJobEnds` |
| `forecast` | 2 contributors, 2 submissions of 2000 or 2601 bps, outcomes delivered and cancelled, 2 connections, 1 other resolution, 1 list of markets, 1 crash or request given up | `SerialOfficial`, `ScoresFollowSnapshot`, `NotifiedAreScored`, `ShadowFollows`, `ResolvedStands`, `EventuallyScored` |
| `trade_feed` | 2 trades in 2 markets, a client that watches all and one that watches a single market, channels of 1, 2 attempts | `FeedContract`, `AnswersTellTruth`, `UpdatesInRealTimeOrder`, `PoolUpdatesSent`, `NoPanic`, and under fairness `EveryTradeAnswered` and `LeaversRemoved` |

Each property's comment in its module says what it states about the code.

Violation runs: in each, TLC finds a behaviour of the code that contradicts a document.

| run | the document says | the code |
|---|---|---|
| `payout_once` | `DATA_MODEL.md:283`: payout cannot apply twice | a resolution pays at once (though `API.md:299` has the payout pending until the dispute deadline); an override clears `payout_at`, and the new outcome is paid on top of the old one |
| `cancelled_refund` | `API.md:359`: cancelling refunds spent points | `market/service.go:184` pays overrides only, and the list of due payouts has resolved markets only |
| `option_double_sale` | `API.md:393`: a sale checks for sufficient shares | the backfill at each start copies pool positions to option positions; both copies can be sold |
| `official_median` | `docs/designs/roadmap-forecast-workflow.md:127`: median of each contributor's latest forecast | two transactions side by side miss each other's revision |
| `override_pays` | `API.md:358`: an override finalizes the payout | the payout looks for a flagged option before the outcome (`trade/repository.go:610`), and an override leaves `is_winner` alone: the overruled option is paid |

The properties of the passing runs are stated around these disagreements, at full
strength where the code keeps them: `PointsConserved` accounts for a market paid twice by
subtracting its collateral twice, `SettlementContract` opens a new settlement at an
override, `PaidOnlyDeclared` accepts what was ever declared, `PoolUpdatesSent` asks nothing
about the updates of option trades, and `RestartRepairsOptions` speaks of starts that succeed.

### Further configurations

These answer narrower questions and are not in `PROJECT.json`.  In all but the first two
TLC finds a counterexample: a disagreement like those above, or a variant of one of them.

| configuration | module | what it shows |
|---|---|---|
| `ShadowLifecycle.cfg` | `MCMarketLifecycle` | `SettlementContract` for a shadow market that is disputed, reviewed and synced, with 2 requests, 1 restart and 1 trade; holds |
| `OptionFeed.cfg` | `MCTradeFeed` | `PoolUpdatesSent` with an option trade, whose update the hub drops (0/0 cannot be encoded, `ws/hub.go:94`), between two pool trades; holds |
| `EveryUpdate.cfg` | `MCTradeFeed` | `EveryUpdateSent` fails: the update of an option trade reaches nobody, though `ARCHITECTURE.md:252` has a message go to the clients subscribed to its market |
| `StalePayout.cfg` | `MCMarketLifecycle` | `UnflaggedFollowOutcome` fails: `Payout` believes the outcome it is called with, so a resolution's payout that is overtaken by a dispute and an override pays the overturned side (`trade/repository.go:567` speaks of winning share holders).  It leaves out markets with a flagged option, whose payouts are `override_pays` |
| `NegativeBalance.cfg` | `MCBinaryTrading` | `BalanceNeverNegative` fails: the refund of a trader with profitable sales is negative (`trade/repository.go:589`), and nothing checks the balance (`DATA_MODEL.md:279`: a balance cannot go negative) |
| `OptionSale.cfg` | `MCOptionTrading` | `SalesAreCovered` fails: shares bought at a total of zero are NaN, and no comparison with NaN refuses a sale (`trade/repository.go:321`; `API.md:393`: a sale checks for sufficient shares) |
| `FailedStart.cfg` | `MCOptionTrading` | `StartsSucceed` fails: the backfill adds NO to a market that has only NO (`migrate/migrate.go:231`; `PRD.md:257`: migrations run reliably on startup) |
| `LateForecast.cfg` | `MCForecast` | `ClosedStaysClosed` fails: `closes_at` is looked at before the transaction of the revision (`forecast/service.go:146`), never in it (`docs/designs/roadmap-forecast-workflow.md:197`: revisions after the close alter neither snapshot nor official forecast) |

### Bounds and why they are enough

* `MaxDisputes` 2: an override of an override is the first case in which a payout in
  flight can be two decisions old.  `MaxRestarts` 1: a second backfill repeats the first.
  `lifecycle_pair` has no dispute, since a review puts a market back into a list it was in;
  `ShadowLifecycle.cfg` has one, which a sync can meet in each of its states.
* `MaxTrades` in `MarketLifecycle` counts changes of "has holders" and of "has NaN": two give
  two labels holders, or one label holders and take them away, or spoil it.
* Two requests: all races of the settlement are between the request that made a
  decision and another one; three add no new pair.
* Trades of 30 and 80 on a liquidity of 100 move the price far in one step, and neither
  divides evenly, so that every division rounds.  Balances of 200 let a user run out.  `Scale` 10 is coarse on
  purpose: rounding shows at once.
* In `option_trading` options start with 50 points each, and trades of 50 and 100 bring
  totals to exactly zero and below.  Three trades are enough: where a creation stopped at
  YES, a purchase from the pool and a sale of those shares as an option bring the total to
  zero, and the next purchase books NaN.  A sale of such a position is the fourth
  (`OptionSale.cfg`).  The list YES and another option lacks NO when it is cut short, the
  list NO and YES makes the start fail.
* `NegativeBalance.cfg` has two markets because a balance below zero takes a gain in one of
  them that is spent in the other.
* `MaxFaults` (crashes and lost updates) and `MaxCutOffs` (crashes and requests given up)
  bound what fails; 2 of the former strand two batches.
* Two connections are the fewest with which scoring can go on at all, and one other
  resolution or one list of markets is enough to take what the inserts of this one need.
* In `trade_feed` every channel holds one element, so that each of them is full in some
  states and empty in others; larger ones fill up later and in no other way.  Two trades
  give two updates, which is what order, loss and a late subscription need; two attempts
  give a retry and the end of the retries (the code has three).  Two clients are needed
  for one that is slow beside one that is not.
* 2000 and 2601 bps have a middle that is not whole, so that the rounding of the median
  shows.

Deadlock checking is off in all runs because every instance may come to rest: all
bounds used up, all jobs done, the process ended.  What may wait for something that never
comes is the subject of liveness properties instead: `EveryTradeAnswered` and
`LeaversRemoved` for the hub's channels, `EventuallyScored` for the connection pool.  The
last one has an exception, `Exhausted`: when resolutions that score and lists of markets
hold every connection, each of them waits for a second one, and only a client that leaves
ends it (`forecast/repository.go:420`, `market/repository.go:147`).  Without the exception TLC
finds that state.  Submissions hold one connection and want no other: that they cannot
bring scoring to a halt is what the property says of the pool.

### Fairness

* `MarketLifecycle`: weak fairness of `ListDuePayouts` (markets are read again and again,
  each read lists what is due) and strong fairness of `PayoutTx` (a payout that
  is tried again and again is not cut off each time).  No fairness of trading,
  resolving, disputing or reviewing: nothing makes people act.
* `JobQueue`: time passes, and each worker goes on (`Run` ticks every two seconds).  No
  fairness of enqueuing or faults.
* `Forecast`: a handler that has begun goes on unless the server ends.  The steps of a
  resolution have strong fairness: they are enabled whenever a connection is free, and
  the pool serves who waits in their order.  No fairness of submissions or resolutions.
* `TradeFeed`, while the process lives: the hub takes the next message (weak), a client
  that is leaving gets into the channel and out of it (strong), a call that has begun
  goes on (strong).  Strong, because the hub's `select` chooses at random among the ready
  cases and Go serves the senders of a full channel in their order.  Nobody has to
  connect, to read or to leave, and nothing makes the server end.

## 4. What is proved

Every safety property that a passing run checks, invariant or action property, is also
a theorem: TLAPS proves it for every value of the constants that satisfies the named
assumptions (`ConstantsAssumption`, `TradingAssumption`, `ScaleAssumption`,
`UserAssumption`, `FiniteAssumption`, `OptionAssumption`, `JobAssumption`,
`ForecastAssumption`, `HubAssumption`, `CallAssumption`), among them any number of markets,
users, requests, jobs, workers, clients, trades and connections, and any capacities and
bounds.  `FiniteAssumption` and the first line of `ForecastAssumption` say that users,
markets, amounts and contributors are finite sets: they are rows of tables, and a sum or
a median over them would mean nothing otherwise.

Two theorems have a condition besides, on how coarse a unit may be; both are about
rounding, and float64 meets them by many orders of magnitude (`WinnersPaidAlways`,
`QuoteMatchesTradeAlways`, below).

* `MarketLifecycleProofs`: `TypeCorrect`, `PaidOnlyDeclaredAlways`,
  `LifecycleImplementsSettlement`, `DisputeRowsAgreeAlways`, `SettledIsFinalAlways`.
  `PaidOnlyDeclared` is not inductive: a payout credits what some request carries or what
  the tables say, so the invariant `IInv` adds `ReadsDeclared` (outcome, flagged options and
  the outcomes in flight were all declared) and `Decided` (an open market is unpaid, a
  market that is not open has an outcome, and no request carries a payout for an open
  market).  `Decided` is also what the refinement needs: a payout credits only if
  `payout_at` is NULL, and because the market cannot be open, it is then in the abstract
  set of due ones.
* `SumProofs`: how `SumFunctionOnSet` and `SumFunction` change with a single value, add up,
  stay between bounds, and how cut shares of a whole compare with it.  These are inductions
  over the subsets of a finite set.  The library's induction theorems take a predicate as a
  parameter, which the provers cannot instantiate; the lemmas use that the subset relation
  is well-founded instead, and refute a minimal counterexample (`MinimalSubset`,
  `SubsetInduction`).
* `BinaryTradingProofs`: `TypesCorrect`, `ShareLawAlways`, `SharesAreHeldAlways`,
  `RefundsMatchCollateralAlways`, `PointsConservedAlways`.
  `Books` is the invariant behind them.  It adds `Untouched` (what is not created has no
  shares, costs or reserves), `CreatorKnown`, `Unpaid` and `ShadowsCreated` (what the number
  of payouts and the shadow markets say about the stage), and `SpentLaw`: a market's ledger
  sums up to its collateral less the liquidity.  A refund takes the ledger's sums and the
  liquidity for the creator, so that it is the collateral only because of `SpentLaw` and
  because creators never trade.  `PointsConserved` is a statement about three sums; the
  proof looks at `Gap`, the points issued that are neither in a balance nor behind a
  market, and shows of each action what it does to it (`SettlesUp`): nothing, except that a
  payout to holders may add less than one for each user.
* `PoolProofs`: `PriceFollowsTradeAlways`, `PoolSolventAlways`, `WinnersPaidAlways`,
  `QuoteMatchesTradeAlways`.  `PoolSolvent` needs `DriftLaw`: no reserve is larger than the
  trades so far can have made it (`Reserve`), and since a trade rounds one reserve to the
  nearest unit, it costs the doubled product of the reserves at most the reserve that grew
  (`Loss`).  With `ShareLaw` and y + n >= 2 sqrt(yn) the shares out then exceed the
  collateral above the liquidity by `Drift` at most, `trades + trades^2 * Max(Amounts) \div
  Liquidity` units.  (A unit for each trade, as one might think, is not enough when the
  trades are large beside the liquidity: the proof failed there, and the property was
  restated.)  `WinnersPaidAlways` concludes that the collateral has a point for each share of
  either side, provided that the drift of all trades is below the liquidity
  (`DriftIsSmall`).  `QuoteMatchesTradeAlways` takes the most lopsided pool there may be
  and assumes that a unit is fine enough for it (`QuotesArePrecise`: for the liquidity,
  the amounts and the number of trades of the run, from `Scale` 14 on; that the property
  holds at 10 too is what the run shows).
* `OptionTradingProofs`: `RestartRepairsOptionsAlways`, `OptionTypesCorrect`,
  `OptionLedgerMatchesAlways`, `OptionPointsConservedAlways`, `PoolLawsBesideOptions`.
  `RestartRepairsOptionsAlways` holds for any lists of options, NO first included, and for
  creations that stop anywhere, with the server or without it.  It says what the start
  repairs: every market that it found has two options at least, and no market with two of
  those asked for gets a YES or NO that was not.  The rest of a longer list is not
  completed.  `RepairInv` is the invariant behind it: the options of a market under creation
  are the first of its list and fewer than all (`Prefix`), a market not created has none
  (`Nothing`), and a market that a start found is not being created (`ServedAreDone`).
  `OptionBooks` puts it beside `Books`, the types of the options' tables, pools
  that are never empty (the backfill divides by their reserves, `PoolsAlive`) and what the
  tables hold for options that are not there (`OptionsUntouched`).  `PoolLawsBesideOptions`
  says that the laws of the pool survive its second set of books, sales of pool shares as
  options included.  `ShareLaw` is not among them: as an equation it fails there, since
  such a sale takes shares from the positions and pays for them from the option's
  collateral.  `PoolSolvent`, which is derived from it, is stated for the pool by itself only.
* `JobQueueProofs`: `JobTypeCorrect`, `ProcessedOnceAlways`, `OneWorkerEachAlways`,
  `FailedWhenExhaustedAlways`, `OnlyFaultsStrandAlways`.  `HandledKnown` is the strengthening for
  the second: a job that was processed is marked, and the one worker that may have it in
  its batch knows it as handled.  For the last one, `SmallBatches`: a fault strands at most
  the batch it hits, and no batch is larger than the limit of the query.
* `ForecastProofs`: `ForecastTypesCorrect`, `ScoresFollowSnapshotAlways`, `NotifiedAreScoredAlways`, `ShadowFollowsAlways`,
  `ResolvedStandsAlways`, `SerialOfficialAlways`.  `Shape` is what is known of the records' form;
  `Resolved` ties the progress of a resolution to the status, the snapshot and the jobs;
  `Serial` says what a submission that nobody overlapped has computed.  There the median is not
  expanded: the theorem holds for any function of the latest forecasts.  For the types it is:
  `MedianType` shows that the k-th forecast in ascending order exists, so that the `CHOOSE`
  in `Ranked` has a value, and that the rounded middle is a probability.  `NextKeepsConnections`
  is the part about the pool: whatever is cut off, no connection is given twice.
* `TradeFeedProofs`: `FeedTypeCorrect`, `NoPanicAlways`, `HubImplementsFeed`,
  `AnswersTellTruthAlways`, `UpdatesInRealTimeOrderAlways`, `PoolUpdatesSentAlways`.  `NoPanic` needs
  `SubscribedOnce` - a client is never both on its way to the hub and registered, and one
  that is away is neither.  `CallsAgree` relates a call's stage to its commits, its
  answer and its update, which is in the log exactly when the answer is "ok";
  `JoinedBefore` bounds what a client was sent by when it joined and what the hub has taken.

Only model-checked are the liveness properties (`EventuallyPaid`, `EveryJobEnds`,
`EventuallyScored`, `EveryTradeAnswered`, `LeaversRemoved`), since the prover has neither
fairness nor `ENABLED`; and that TLC's instances satisfy `QuoteMatchesTrade` with units
coarser than the theorem asks for.  The disagreements of section 3 are
counterexamples, so there is nothing to prove.

## 5. What is not modelled

* The positions view: it shows option positions or pool positions, never both, and
  changes no state but for the payouts that are due before it, which `MarketLifecycle` has.
* The pool's connections in the other modules: the requests of `MarketLifecycle`,
  `BinaryTrading`, `OptionTrading` and `TradeFeed` hold one connection at a time.  They do wait
  when scoring and lists of markets exhaust the pool, so `EventuallyPaid` and
  `EveryTradeAnswered` take for granted that this does not last.
* The consensus-change jobs and `last_change_bps`: `EnqueueJob`'s errors are ignored and a
  second change to the same probability has the same dedupe key, so these notices are best
  effort, and no document promises more.
* Users, authentication, validation of texts, HTTP and routing: no state that the
  components above depend on.  What validation guarantees shows as the inputs that the
  actions enumerate (positive amounts, probabilities of 0 to 10000, outcomes of the enum).
* Sentiment, snapshots of probabilities, lists, the program view: they only read.  (That
  a list of markets needs two connections at a time is in `Forecast`.)
* Callers of `cpmm`'s quotes: there are none outside its tests.  `QuoteMatchesTrade` is a
  property of that package alone.
* The frontend.
* Shadow markets that were only synced are never paid, because no dispute deadline is set;
  no document says otherwise, and `EventuallyPaid` leaves them out (`window` is `"none"`).

## 6. Plan

Done, in this order: `MarketLifecycle` with `Settlement` and the proofs; `Cpmm` and
`BinaryTrading` with proofs; `OptionTrading`; `JobQueue` with proofs; `Forecast`; `Feed`, `Hub`
and `TradeFeed` with proofs; the connection pool and abandoned requests in `Forecast`;
`ForecastProofs`; `OptionTradingProofs`; types and stranded jobs in `JobQueueProofs`; sums
(`SumProofs`) and with them points, positions, refunds and options; pools and quotes
(`PoolProofs`); medians, scores and connections in `ForecastProofs`.

Then totals of zero, lists that start with NO, creations that stop in a running server and
the failed start in `OptionTrading`; the second clock, spoiled positions and the sync in
`lifecycle_pair`; lists of markets in the connection pool; overrides beside a flagged option
as a violation run; the further configurations of section 3.

Left: the composition of `MarketLifecycle` with `Forecast` - the shadow market of a question
between its sync and the disputes and payouts of a market - in one module; today each has
its own `SyncShadow`.

## 7. Running

    tlc -config MarketLifecycle.cfg MCMarketLifecycle
    tlapm MarketLifecycleProofs.tla

`PROJECT.json` names the module of each configuration, what each run is expected to
show, the source lines behind each definition, and the faulty variant that breaks
each property.
