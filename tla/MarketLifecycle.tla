-------------------------- MODULE MarketLifecycle --------------------------
(***************************************************************************)
(* The life of a market from its creation to its settlement:               *)
(* internal/market/{handler,service,repository}.go and the payout half of  *)
(* internal/trade/{repository,service,payout}.go, with the part of         *)
(* internal/migrate/migrate.go that runs at every start of the server.     *)
(*                                                                         *)
(* Every database transaction of the code locks the market's row first     *)
(* (SELECT ... FOR UPDATE, or an UPDATE of that row), so one transaction   *)
(* is one action.  A request that needs two transactions (resolve and then *)
(* pay, review and then pay, list the due payouts and then pay each) is    *)
(* not atomic: what it has still to pay is kept in todo[r], and everything *)
(* else may happen in between, a disconnect and a restart included.        *)
(*                                                                         *)
(* Amounts are left to BinaryTrading and OptionTrading: a payout here is   *)
(* the label it pays, and who trades matters only as to which labels have  *)
(* holders, and which of them hold a number of shares that is not one.     *)
(* The resolver and admin checks of the handlers are the role in which the *)
(* action is taken.                                                        *)
(*                                                                         *)
(* The end of the dispute window is compared with two clocks: a dispute    *)
(* with the server's, the list of due payouts with the database's.  They   *)
(* need not agree: by either, the deadline may pass first.                 *)
(***************************************************************************)
EXTENDS Naturals, Sequences

CONSTANTS
    Markets,       \* market ids
    Shadow,        \* the markets that shadow a forecast question
    Requests,      \* HTTP requests that can be in progress at once
    OtherLabels,   \* labels of options other than YES and NO
    MaxDisputes,   \* bound: disputes of one market
    MaxRestarts,   \* bound: restarts of the server
    MaxTrades      \* bound: trades that give a label its first shares or take its last

ASSUME ConstantsAssumption ==
    /\ Shadow \subseteq Markets
    /\ MaxDisputes \in Nat
    /\ MaxRestarts \in Nat
    /\ MaxTrades \in Nat

Sides == {"yes", "no"}                \* the binary sides, and the labels YES and NO
Outcomes == Sides \cup {"cancelled"}  \* market_outcome
Labels == Sides \cup OtherLabels      \* market_options.label
PaidLabels == Labels \cup Outcomes    \* "cancelled": the costs were refunded
Clocks == {"server", "database"}      \* time.Now() and NOW()
Windows == [Clocks -> {"none", "running", "passed"}]
ByBoth(w) == [c \in Clocks |-> w]

VARIABLES
    status,       \* markets.status ("closed" is in the enum and no transaction commits it)
    outcome,      \* markets.outcome, "none" for NULL
    window,       \* markets.dispute_deadline: NULL, or, by each clock, in the future or passed
    resolvedAt,   \* markets.resolved_at as a logical time, 0 for NULL
    payoutAt,     \* markets.payout_at is not NULL
    winners,      \* the labels of the market's options with is_winner
    rows,         \* how far the creation got: no pool, no options, or all of it
    optHolders,   \* labels with SUM(option_positions.shares) > 0
    binHolders,   \* sides with SUM(positions.yes_shares / no_shares) > 0
    spoiled,      \* labels with an option_positions.shares that is NaN
    disputed,     \* a row of disputes has resolved_at NULL
    synced,       \* the forecast question behind a shadow market was resolved
    todo,         \* todo[r]: the payouts request r has still to make
    now,          \* logical time, counts the stamps written to resolved_at
    disputes, restarts, trades,  \* counters for the bounds
    decisions,    \* history: decisions made about the market
    declared,     \* history: outcomes and options ever declared for the market
    paid          \* history: the label of each payout that credited balances

tables == <<status, outcome, window, resolvedAt, winners, rows, disputed, synced>>
holders == <<optHolders, binHolders, spoiled>>
money == <<payoutAt, paid>>
bounds == <<disputes, restarts, trades>>
history == <<decisions, declared>>
vars == <<tables, holders, money, todo, now, bounds, history>>

\* rank is resolved_at as the list of due payouts read it (0 outside of such a list).
Payouts == [market : Markets, outcome : Outcomes, rank : Nat]

TypeOK ==
    /\ status \in [Markets -> {"open", "resolved", "disputed", "cancelled"}]
    /\ outcome \in [Markets -> Outcomes \cup {"none"}]
    /\ window \in [Markets -> Windows]
    /\ resolvedAt \in [Markets -> Nat]
    /\ payoutAt \in [Markets -> BOOLEAN]
    /\ winners \in [Markets -> SUBSET Labels]
    /\ rows \in [Markets -> {"bare", "pool", "complete"}]
    /\ optHolders \in [Markets -> SUBSET Labels]
    /\ binHolders \in [Markets -> SUBSET Sides]
    /\ spoiled \in [Markets -> SUBSET Labels]
    /\ disputed \in [Markets -> BOOLEAN]
    /\ synced \in [Markets -> BOOLEAN]
    /\ todo \in [Requests -> SUBSET Payouts]
    /\ now \in Nat
    /\ disputes \in [Markets -> Nat]
    /\ restarts \in Nat
    /\ trades \in Nat
    /\ decisions \in [Markets -> Nat]
    /\ declared \in [Markets -> SUBSET PaidLabels]
    /\ paid \in [Markets -> Seq(PaidLabels)]

-----------------------------------------------------------------------------
(* Creation.  Service.Create inserts market and pool in one transaction    *)
(* and the options in later ones; CreateShadow inserts market and pool in  *)
(* two and no options.  A request that stops in between leaves the rest    *)
(* out, so every such state is an initial one.                             *)

CreatedRows(m) == IF m \in Shadow THEN {"bare", "pool"} ELSE {"pool", "complete"}

Init ==
    /\ status = [m \in Markets |-> "open"]
    /\ outcome = [m \in Markets |-> "none"]
    /\ window = [m \in Markets |-> ByBoth("none")]
    /\ resolvedAt = [m \in Markets |-> 0]
    /\ payoutAt = [m \in Markets |-> FALSE]
    /\ winners = [m \in Markets |-> {}]
    /\ rows \in [Markets -> {"bare", "pool", "complete"}]
    /\ \A m \in Markets : rows[m] \in CreatedRows(m)
    /\ optHolders = [m \in Markets |-> {}]
    /\ binHolders = [m \in Markets |-> {}]
    /\ spoiled = [m \in Markets |-> {}]
    /\ disputed = [m \in Markets |-> FALSE]
    /\ synced = [m \in Markets |-> FALSE]
    /\ todo = [r \in Requests |-> {}]
    /\ now = 0
    /\ disputes = [m \in Markets |-> 0]
    /\ restarts = 0
    /\ trades = 0
    /\ decisions = [m \in Markets |-> 0]
    /\ declared = [m \in Markets |-> {}]
    /\ paid = [m \in Markets |-> <<>>]

-----------------------------------------------------------------------------
(* Trading, as far as a payout can tell: a side or an option gets its      *)
(* first shares or loses its last ones.  That closes_at passes shows only  *)
(* as no more trades, which a market may have none of at any time.         *)

Trading(m) ==
    /\ status[m] = "open"
    /\ trades < MaxTrades
    /\ trades' = trades + 1
    /\ UNCHANGED <<tables, money, todo, now, disputes, restarts, history>>

Toggled(S, x) == IF x \in S THEN S \ {x} ELSE S \cup {x}

\* trade.execute needs the pool's row.
TradeBinary(m, s) ==
    /\ Trading(m)
    /\ rows[m] # "bare"
    /\ binHolders' = [binHolders EXCEPT ![m] = Toggled(@, s)]
    /\ UNCHANGED <<optHolders, spoiled>>

\* trade.executeMulti needs the options' rows.
TradeOption(m, l) ==
    /\ Trading(m)
    /\ rows[m] = "complete"
    /\ optHolders' = [optHolders EXCEPT ![m] = Toggled(@, l)]
    /\ UNCHANGED <<binHolders, spoiled>>

\* The same at a total of zero, which OptionTrading shows can be reached: the price is
\* 0/0 and so are the shares, and no later trade makes a number of them.
TradeOptionForNaN(m, l) ==
    /\ Trading(m)
    /\ rows[m] = "complete"
    /\ spoiled' = [spoiled EXCEPT ![m] = @ \cup {l}]
    /\ UNCHANGED <<optHolders, binHolders>>

-----------------------------------------------------------------------------
(* Resolution and disputes                                                 *)

\* The handler maps an option_id to the outcome of its label, and every label
\* but YES and NO to cancelled; a request without option_id flags no option.
OutcomeOfLabel(l) == IF l \in Sides THEN l ELSE "cancelled"

PayLater(r, m, o) ==
    todo' = [todo EXCEPT ![r] =
        IF o = "cancelled" THEN {} ELSE {[market |-> m, outcome |-> o, rank |-> 0]}]

\* The tables after the resolver declared outcome o and flagged the options W.
\* closes_at is not looked at: an open market can be resolved before it closes.
ResolveTx(m, o, W) ==
    /\ status[m] = "open"
    /\ status' = [status EXCEPT ![m] = "resolved"]
    /\ outcome' = [outcome EXCEPT ![m] = o]
    /\ window' = [window EXCEPT ![m] = ByBoth("running")]
    /\ now' = now + 1
    /\ resolvedAt' = [resolvedAt EXCEPT ![m] = now + 1]
    /\ winners' = [winners EXCEPT ![m] = W]
    /\ decisions' = [decisions EXCEPT ![m] = @ + 1]
    /\ declared' = [declared EXCEPT ![m] = @ \cup {o} \cup W]
    /\ UNCHANGED <<rows, disputed, synced>>

Resolve(r, m) ==
    /\ todo[r] = {}
    /\ \/ \E o \in Outcomes : ResolveTx(m, o, {}) /\ PayLater(r, m, o)
       \/ /\ rows[m] = "complete"
          /\ \E l \in Labels :
                /\ ResolveTx(m, OutcomeOfLabel(l), {l})
                /\ PayLater(r, m, OutcomeOfLabel(l))
    /\ UNCHANGED <<holders, money, bounds>>

DeadlinePasses(m, c) ==
    /\ window[m][c] = "running"
    /\ window' = [window EXCEPT ![m][c] = "passed"]
    /\ UNCHANGED <<status, outcome, resolvedAt, winners, rows, disputed, synced,
                   holders, money, todo, now, bounds, history>>

\* Faulty variant: the deadline is not checked.
DisputeAnyTime(m) ==
    /\ status[m] = "resolved"
    /\ window[m]["server"] # "none"
    /\ disputes[m] < MaxDisputes
    /\ disputes' = [disputes EXCEPT ![m] = @ + 1]
    /\ status' = [status EXCEPT ![m] = "disputed"]
    /\ disputed' = [disputed EXCEPT ![m] = TRUE]
    /\ UNCHANGED <<outcome, window, resolvedAt, winners, rows, synced,
                   holders, money, todo, now, restarts, trades, history>>

Dispute(m) ==
    /\ status[m] = "resolved"
    /\ window[m]["server"] = "running"
    /\ disputes[m] < MaxDisputes
    /\ disputes' = [disputes EXCEPT ![m] = @ + 1]
    /\ status' = [status EXCEPT ![m] = "disputed"]
    /\ disputed' = [disputed EXCEPT ![m] = TRUE]
    /\ UNCHANGED <<outcome, window, resolvedAt, winners, rows, synced,
                   holders, money, todo, now, restarts, trades, history>>

\* Faulty variant: the dispute's row is not closed.
ReviewLeavesDispute(r, m) ==
    /\ todo[r] = {}
    /\ status[m] = "disputed"
    /\ UNCHANGED <<window, resolvedAt, winners, rows, disputed, synced, holders, now,
                   bounds, paid>>

\* What every review does, whatever the action.
ReviewTx(r, m) ==
    /\ todo[r] = {}
    /\ status[m] = "disputed"
    /\ disputed' = [disputed EXCEPT ![m] = FALSE]
    /\ UNCHANGED <<window, resolvedAt, winners, rows, synced, holders, now, bounds, paid>>

ConfirmOriginal(r, m) ==
    /\ ReviewTx(r, m)
    /\ status' = [status EXCEPT ![m] = "resolved"]
    /\ UNCHANGED <<outcome, payoutAt, todo, history>>

\* The two actions that overturn the decision clear payout_at.
Redecide(m, o) ==
    /\ outcome' = [outcome EXCEPT ![m] = o]
    /\ payoutAt' = [payoutAt EXCEPT ![m] = FALSE]
    /\ decisions' = [decisions EXCEPT ![m] = @ + 1]
    /\ declared' = [declared EXCEPT ![m] = @ \cup {o}]

OverrideOutcome(r, m, o) ==
    /\ ReviewTx(r, m)
    /\ status' = [status EXCEPT ![m] = "resolved"]
    /\ Redecide(m, o)
    /\ PayLater(r, m, o)

CancelMarket(r, m) ==
    /\ ReviewTx(r, m)
    /\ status' = [status EXCEPT ![m] = "cancelled"]
    /\ Redecide(m, "cancelled")
    /\ UNCHANGED todo

\* Faulty variant: payout_at is cleared, as by a review.
SyncReopens(m, o) ==
    /\ m \in Shadow
    /\ ~synced[m]
    /\ synced' = [synced EXCEPT ![m] = TRUE]
    /\ status' = [status EXCEPT ![m] = "resolved"]
    /\ outcome' = [outcome EXCEPT ![m] = o]
    /\ payoutAt' = [payoutAt EXCEPT ![m] = FALSE]
    /\ now' = now + 1
    /\ resolvedAt' = [resolvedAt EXCEPT ![m] = now + 1]
    /\ decisions' = [decisions EXCEPT ![m] = IF status[m] = "open" THEN @ + 1 ELSE @]
    /\ declared' = [declared EXCEPT ![m] = @ \cup {o}]
    /\ UNCHANGED <<window, winners, rows, disputed, holders, todo, bounds, paid>>

\* forecast.ResolveQuestion writes its outcome over the shadow market, in
\* whatever state that is, and neither opens a dispute window nor closes a dispute.
SyncShadow(m, o) ==
    /\ m \in Shadow
    /\ ~synced[m]
    /\ synced' = [synced EXCEPT ![m] = TRUE]
    /\ status' = [status EXCEPT ![m] = "resolved"]
    /\ outcome' = [outcome EXCEPT ![m] = o]
    /\ now' = now + 1
    /\ resolvedAt' = [resolvedAt EXCEPT ![m] = now + 1]
    /\ decisions' = [decisions EXCEPT ![m] = IF status[m] = "open" THEN @ + 1 ELSE @]
    /\ declared' = [declared EXCEPT ![m] = @ \cup {o}]
    /\ UNCHANGED <<window, winners, rows, disputed, holders, money, todo, bounds>>

-----------------------------------------------------------------------------
(* Payouts                                                                 *)

\* Faulty variant: the deadline is compared the wrong way round.
DueBeforeDeadline(m) ==
    status[m] = "resolved" /\ ~payoutAt[m] /\ window[m]["database"] = "running"

\* ReadyForPayout.  A shadow market that was only synced has no deadline and
\* is never due.
Due(m) == status[m] = "resolved" /\ ~payoutAt[m] /\ window[m]["database"] = "passed"

\* Every read of a market and of the positions first lists what is due.
ListDuePayouts(r) ==
    /\ todo[r] = {}
    /\ \E m \in Markets : Due(m)
    /\ todo' = [todo EXCEPT ![r] =
          {[market |-> m, outcome |-> outcome[m], rank |-> resolvedAt[m]] :
              m \in {n \in Markets : Due(n)}}]
    /\ UNCHANGED <<tables, holders, money, now, bounds, history>>

\* Faulty variant: the columns are swapped for "no" and everything else.
SwappedSide(o) == IF o = "no" THEN "yes" ELSE "no"

BinarySide(o) == IF o = "no" THEN "no" ELSE "yes"

MarkPaid(m, label) ==
    /\ payoutAt' = [payoutAt EXCEPT ![m] = TRUE]
    /\ paid' = [paid EXCEPT ![m] = Append(@, label)]

\* Without winning shares the transaction commits and payout_at stays NULL.
PayHolders(m, label, holding) ==
    IF label \in holding THEN MarkPaid(m, label) ELSE UNCHANGED money

\* Faulty variant: payout_at is not looked at.
PayoutUnchecked(m, o) ==
    /\ rows[m] # "bare"
    /\ IF o = "cancelled" THEN MarkPaid(m, "cancelled")
       ELSE IF winners[m] = {} THEN PayHolders(m, BinarySide(o), binHolders[m])
       ELSE \E w \in winners[m] \ spoiled[m] : PayHolders(m, w, optHolders[m])

\* trade.Repository.Payout: it believes the outcome it is given and looks at no
\* status.  A flagged option goes first; of two flagged ones the query takes either.
Payout(m, o) ==
    /\ rows[m] # "bare"
    /\ IF payoutAt[m] THEN UNCHANGED money
       ELSE IF o = "cancelled" THEN MarkPaid(m, "cancelled")
       ELSE IF winners[m] = {} THEN PayHolders(m, BinarySide(o), binHolders[m])
       ELSE \E w \in winners[m] \ spoiled[m] : PayHolders(m, w, optHolders[m])

\* There is no pool to read, or points for the flagged option that are NaN.
PayoutFails(m, o) ==
    \/ rows[m] = "bare"
    \/ ~payoutAt[m] /\ o # "cancelled" /\ winners[m] \cap spoiled[m] # {}

NextPayout(r, m) ==
    {p \in todo[r] : p.market = m /\ \A q \in todo[r] : p.rank <= q.rank}

\* One payout of request r.  An error ends the request with the payouts it has not
\* reached yet.
PayoutTx(r, m) ==
    /\ \E p \in NextPayout(r, m) :
          \/ Payout(m, p.outcome) /\ todo' = [todo EXCEPT ![r] = @ \ {p}]
          \/ PayoutFails(m, p.outcome) /\ UNCHANGED money /\ todo' = [todo EXCEPT ![r] = {}]
    /\ UNCHANGED <<tables, holders, now, bounds, history>>

\* The client disconnects or the database fails: the rest of the request is lost.
Abort(r) ==
    /\ todo[r] # {}
    /\ todo' = [todo EXCEPT ![r] = {}]
    /\ UNCHANGED <<tables, holders, money, now, bounds, history>>

-----------------------------------------------------------------------------
(* A restart loses every request in progress, and migrate.Run backfills    *)
(* the options of markets that have none, copies positions to              *)
(* option_positions for the holders that have no row there (copied says    *)
(* for which sides one is left), and flags the option of each outcome.     *)

\* Faulty variant: the label of any outcome is flagged, a cancelled or missing one too.
FlagsAnyOutcome(m) == IF rows[m] # "bare" THEN winners[m] \cup {outcome[m]} ELSE winners[m]

\* is_winner after migrate.Run.
FlaggedAtStart(m) ==
    IF rows[m] # "bare" /\ outcome[m] \in Sides THEN winners[m] \cup {outcome[m]} ELSE winners[m]

Restart ==
    /\ restarts < MaxRestarts
    /\ restarts' = restarts + 1
    /\ todo' = [r \in Requests |-> {}]
    /\ rows' = [m \in Markets |-> IF rows[m] = "pool" THEN "complete" ELSE rows[m]]
    /\ winners' = [m \in Markets |-> FlaggedAtStart(m)]
    /\ \E copied \in [Markets -> SUBSET Sides] :
          optHolders' = [m \in Markets |->
              IF rows[m] # "bare"
              THEN optHolders[m] \cup (copied[m] \cap binHolders[m]) ELSE optHolders[m]]
    /\ UNCHANGED <<status, outcome, window, resolvedAt, disputed, synced,
                   binHolders, spoiled, money, now, disputes, trades, history>>

-----------------------------------------------------------------------------

MarketStep(m) ==
    \/ \E s \in Sides : TradeBinary(m, s)
    \/ \E l \in Labels : TradeOption(m, l) \/ TradeOptionForNaN(m, l)
    \/ \E c \in Clocks : DeadlinePasses(m, c)
    \/ Dispute(m)
    \/ \E o \in Outcomes : SyncShadow(m, o)

RequestStep(r) ==
    \/ ListDuePayouts(r)
    \/ Abort(r)
    \/ \E m \in Markets :
          \/ Resolve(r, m)
          \/ ConfirmOriginal(r, m)
          \/ \E o \in Outcomes : OverrideOutcome(r, m, o)
          \/ CancelMarket(r, m)
          \/ PayoutTx(r, m)

Next ==
    \/ \E m \in Markets : MarketStep(m)
    \/ \E r \in Requests : RequestStep(r)
    \/ Restart

Spec == Init /\ [][Next]_vars

\* Markets and positions keep being read, and a payout that is tried again and
\* again is not cut off every time.  Nothing makes anybody trade, resolve,
\* dispute or review.
Fairness ==
    \A r \in Requests :
        /\ WF_vars(ListDuePayouts(r))
        /\ \A m \in Markets : SF_vars(PayoutTx(r, m))

FairSpec == Spec /\ Fairness

-----------------------------------------------------------------------------
(* Properties                                                              *)

Contract == INSTANCE Settlement WITH
    due <- {m \in Markets : status[m] # "open" /\ ~payoutAt[m]},
    payouts <- [m \in Markets |-> Len(paid[m])]

\* Resolve, ReviewDispute, SyncShadowLifecycle and Payout together keep the
\* settlement contract: nobody is paid for an undecided market, and each
\* decision is paid for at most once, whatever requests race, fail or repeat.
SettlementContract == Contract!Spec

\* Balances are only ever credited for an outcome (or for a flagged option) that
\* the resolver, the admin or the forecast question declared for this market,
\* also by a payout that was decided long before it is made.
PaidOnlyDeclared ==
    \A m \in Markets : \A i \in 1..Len(paid[m]) : paid[m][i] \in declared[m]

\* disputes and markets.status agree: a market that no forecast question
\* overwrites is disputed exactly while one of its disputes is unreviewed.
DisputeRowsAgree ==
    \A m \in Markets \ Shadow : disputed[m] <=> status[m] = "disputed"

WindowOver(m) == \A c \in Clocks : window[m][c] = "passed"

Final(m) == status[m] = "resolved" /\ WindowOver(m) /\ payoutAt[m]

\* Once a market is paid and its dispute window has passed by both clocks, no dispute,
\* review, repeated read or payout still in flight changes its settlement.
SettledIsFinal ==
    [][\A m \in Markets : Final(m) => Final(m)' /\ paid'[m] = paid[m]]_vars

\* Somebody holds what the payout of m will pay, and it can be paid.
Payable(m) ==
    \/ outcome[m] = "cancelled"
    \/ winners[m] = {} /\ outcome[m] \in binHolders[m]
    \/ winners[m] # {} /\ winners[m] \subseteq optHolders[m] \ spoiled[m]

\* A market that comes earlier in the list and fails the whole list.
BehindFailing(m) ==
    \E n \in Markets :
        Due(n) /\ PayoutFails(n, outcome[n]) /\ resolvedAt[n] <= resolvedAt[m]

Awaiting(m) == status[m] = "resolved" /\ WindowOver(m) /\ Payable(m)

\* Lazy finalization gets there: a resolved market whose dispute window passed is
\* paid, unless nobody can be paid or a market whose payout fails is ahead of it.
EventuallyPaid ==
    \A m \in Markets :
        Awaiting(m) ~> (payoutAt[m] \/ ~Payable(m) \/ BehindFailing(m))

-----------------------------------------------------------------------------
(* What the documents say and the code does not do                         *)

\* DATA_MODEL.md: "payout cannot apply twice".  An override clears payout_at and
\* pays the new outcome on top of what Service.Resolve paid for the old one.
PayoutAppliesOnce == \A m \in Markets : Len(paid[m]) <= 1

PaysOutcome(m) == paid'[m] # paid[m] => paid'[m][Len(paid'[m])] = outcome[m]

\* API.md of reviews: "if confirming or overriding, finalizes payout".  The option that the
\* resolution flagged is paid, whatever the override decided.
PaymentsFollowOutcome == [][\A m \in Markets : PaysOutcome(m)]_vars

\* Payout's comment: "distributes total market collateral to winning share holders".
\* Without a flagged option it pays the outcome it was called with, which an
\* override may have overturned since.
UnflaggedFollowOutcome ==
    [][\A m \in Markets : winners[m] = {} => PaysOutcome(m)]_vars

\* API.md: "if cancelling, refunds spent points".  ReviewDispute pays overrides
\* only, and ReadyForPayout lists resolved markets only.
CancelledIsRefunded ==
    \A m \in Markets : status[m] = "cancelled" ~> (payoutAt[m] \/ status[m] # "cancelled")
=============================================================================
