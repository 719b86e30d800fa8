----------------------- MODULE MarketLifecycleProofs -----------------------
(***************************************************************************)
(* Proofs about MarketLifecycle, for any sets of markets, requests and     *)
(* labels and any bounds.  The inductive invariant is IInv: besides the    *)
(* types it says that a payout in flight belongs to a market that was      *)
(* decided and names an outcome that was declared for it, which no single  *)
(* transaction checks.                                                     *)
(***************************************************************************)
EXTENDS MarketLifecycle, TLAPS

\* What is neither open nor unresolved has an outcome, an open market is unpaid,
\* and a payout still to be made is for a market that is no longer open.
Decided ==
    /\ \A m \in Markets : status[m] = "open" => ~payoutAt[m]
    /\ \A m \in Markets : status[m] # "open" => outcome[m] # "none"
    /\ \A r \in Requests : \A p \in todo[r] : status[p.market] # "open"

\* Whatever a payout can read was declared: the outcome, the flagged options and
\* the outcomes that requests carry along.
ReadsDeclared ==
    /\ \A m \in Markets : outcome[m] # "none" => outcome[m] \in declared[m]
    /\ \A m \in Markets : winners[m] \subseteq declared[m]
    /\ \A r \in Requests : \A p \in todo[r] : p.outcome \in declared[p.market]

IInv == TypeOK /\ Decided /\ ReadsDeclared /\ PaidOnlyDeclared

-----------------------------------------------------------------------------

\* A deadline that is NULL, one that was just set, and one that passes by a clock.
LEMMA WindowTypes ==
  /\ ByBoth("none") \in Windows /\ ByBoth("running") \in Windows
  /\ \A w \in Windows, c \in Clocks : [w EXCEPT ![c] = "passed"] \in Windows
  BY DEF Windows, ByBoth

LEMMA InitIInv == Init => IInv
<1> SUFFICES ASSUME Init PROVE IInv
  OBVIOUS
<1>1. window \in [Markets -> Windows]
  BY WindowTypes DEF Init
<1>2. QED
  BY <1>1 DEF Init, IInv, TypeOK, Decided, ReadsDeclared, PaidOnlyDeclared, CreatedRows

\* Appending a declared label to the payouts of one market keeps all of them declared.
LEMMA MarkPaidKeepsDeclared ==
  ASSUME TypeOK, PaidOnlyDeclared, NEW m \in Markets, NEW label \in declared[m],
         MarkPaid(m, label), declared' = declared
  PROVE  /\ payoutAt' \in [Markets -> BOOLEAN]
         /\ paid' \in [Markets -> Seq(PaidLabels)]
         /\ PaidOnlyDeclared'
<1>1. label \in PaidLabels
  BY DEF TypeOK
<1>2. paid'[m] = Append(paid[m], label) /\ \A n \in Markets \ {m} : paid'[n] = paid[n]
  BY DEF TypeOK, MarkPaid
<1>3. Append(paid[m], label) \in Seq(PaidLabels)
  BY <1>1 DEF TypeOK
<1>4. \A i \in 1..Len(Append(paid[m], label)) : Append(paid[m], label)[i] \in declared[m]
  <2>1. /\ Len(Append(paid[m], label)) = Len(paid[m]) + 1
        /\ Len(paid[m]) \in Nat
        /\ Append(paid[m], label)[Len(paid[m]) + 1] = label
        /\ \A i \in 1..Len(paid[m]) : Append(paid[m], label)[i] = paid[m][i]
    BY <1>1 DEF TypeOK
  <2>2. QED BY <2>1 DEF PaidOnlyDeclared
<1>5. PaidOnlyDeclared'
  BY <1>2, <1>4 DEF PaidOnlyDeclared
<1>6. QED BY <1>1, <1>3, <1>5 DEF TypeOK, MarkPaid

\* Declaring more changes nothing for what was paid already.
LEMMA PaidStaysDeclared ==
  ASSUME PaidOnlyDeclared, paid' = paid,
         \A m \in Markets : declared[m] \subseteq declared'[m]
  PROVE  PaidOnlyDeclared'
  BY DEF PaidOnlyDeclared

\* A decision declares what it makes readable.
LEMMA ReadsStayDeclared ==
  ASSUME TypeOK, ReadsDeclared, NEW m \in Markets, NEW o \in Outcomes, NEW D, o \in D,
         outcome' = [outcome EXCEPT ![m] = o],
         declared' = [declared EXCEPT ![m] = @ \cup D],
         \A n \in Markets : winners'[n] \subseteq winners[n] \cup (IF n = m THEN D ELSE {}),
         \A q \in Requests : \A p \in todo'[q] :
             p \in todo[q] \/ (p.market = m /\ p.outcome = o)
  PROVE  ReadsDeclared'
<1>1. /\ o \in declared'[m]
      /\ \A n \in Markets : declared[n] \subseteq declared'[n]
      /\ D \subseteq declared'[m]
  BY DEF TypeOK
<1>2. \A n \in Markets : outcome'[n] # "none" => outcome'[n] \in declared'[n]
  BY <1>1 DEF TypeOK, ReadsDeclared
<1>3. \A n \in Markets : winners'[n] \subseteq declared'[n]
  BY <1>1 DEF TypeOK, ReadsDeclared
<1>4. ASSUME NEW q \in Requests, NEW p \in todo'[q]
      PROVE  p.outcome \in declared'[p.market]
  <2>1. CASE p \in todo[q]
    <3>1. p.market \in Markets /\ p.outcome \in declared[p.market]
      BY <2>1 DEF TypeOK, Payouts, ReadsDeclared
    <3>2. QED BY <3>1, <1>1
  <2>2. CASE p.market = m /\ p.outcome = o
    BY <2>2, <1>1
  <2>3. QED BY <2>1, <2>2, <1>4
<1>5. QED BY <1>2, <1>3, <1>4 DEF ReadsDeclared

LEMMA ToggledType == ASSUME NEW T, NEW S \in SUBSET T, NEW x \in T
                     PROVE  Toggled(S, x) \in SUBSET T
  BY DEF Toggled

LEMMA TradeKeepsIInv ==
  ASSUME IInv, NEW m \in Markets,
         \/ \E s \in Sides : TradeBinary(m, s)
         \/ \E l \in Labels : TradeOption(m, l) \/ TradeOptionForNaN(m, l)
  PROVE  IInv'
<1>1. TypeOK'
  <2>1. UNCHANGED <<tables, money, todo, now, disputes, restarts, history>> /\ trades' = trades + 1
    BY DEF TradeBinary, TradeOption, TradeOptionForNaN, Trading
  <2>2. /\ binHolders' \in [Markets -> SUBSET Sides]
        /\ optHolders' \in [Markets -> SUBSET Labels]
        /\ spoiled' \in [Markets -> SUBSET Labels]
    <3>1. ASSUME NEW s \in Sides, TradeBinary(m, s) PROVE <2>2
      <4>1. Toggled(binHolders[m], s) \in SUBSET Sides
        BY ToggledType DEF IInv, TypeOK
      <4>2. QED BY <3>1, <4>1 DEF IInv, TypeOK, TradeBinary
    <3>2. ASSUME NEW l \in Labels, TradeOption(m, l) PROVE <2>2
      <4>1. Toggled(optHolders[m], l) \in SUBSET Labels
        BY ToggledType DEF IInv, TypeOK
      <4>2. QED BY <3>2, <4>1 DEF IInv, TypeOK, TradeOption
    <3>3. ASSUME NEW l \in Labels, TradeOptionForNaN(m, l) PROVE <2>2
      BY <3>3 DEF IInv, TypeOK, TradeOptionForNaN
    <3>4. QED BY <3>1, <3>2, <3>3
  <2>3. QED BY <2>1, <2>2 DEF IInv, TypeOK, tables, money, history
<1>2. UNCHANGED <<status, outcome, winners, payoutAt, todo, declared, paid>>
  BY DEF TradeBinary, TradeOption, TradeOptionForNaN, Trading, tables, money, history
<1>3. Decided'
  BY <1>2 DEF IInv, Decided
<1>4. ReadsDeclared'
  BY <1>2 DEF IInv, ReadsDeclared
<1>5. PaidOnlyDeclared'
  BY <1>2, PaidStaysDeclared DEF IInv
<1>6. QED BY <1>1, <1>3, <1>4, <1>5 DEF IInv

\* What Resolve and the reviews leave in todo.
LEMMA PayLaterTodo ==
  ASSUME TypeOK, NEW r \in Requests, NEW m \in Markets, NEW o \in Outcomes, PayLater(r, m, o)
  PROVE  /\ todo' \in [Requests -> SUBSET Payouts]
         /\ \A q \in Requests : \A p \in todo'[q] :
               \/ p \in todo[q]
               \/ p.market = m /\ p.outcome = o
<1>1. [market |-> m, outcome |-> o, rank |-> 0] \in Payouts
  BY DEF Payouts
<1>2. QED BY <1>1 DEF PayLater, TypeOK

LEMMA ResolveKeepsIInv ==
  ASSUME IInv, NEW r \in Requests, NEW m \in Markets, Resolve(r, m)
  PROVE  IInv'
<1>1. PICK o \in Outcomes, W \in SUBSET Labels : ResolveTx(m, o, W) /\ PayLater(r, m, o)
  BY DEF Resolve, OutcomeOfLabel, Outcomes, Labels
<1>2. o \in PaidLabels /\ W \subseteq PaidLabels
  BY DEF PaidLabels, Labels, Outcomes
<1>3. TypeOK'
  <2>1. window' \in [Markets -> Windows]
    BY <1>1, WindowTypes DEF IInv, TypeOK, ResolveTx
  <2>2. /\ todo' \in [Requests -> SUBSET Payouts]
        /\ UNCHANGED <<holders, money, bounds>>
    BY <1>1, PayLaterTodo DEF IInv, Resolve
  <2>3. /\ status' \in [Markets -> {"open", "resolved", "disputed", "cancelled"}]
        /\ outcome' \in [Markets -> Outcomes \cup {"none"}]
        /\ resolvedAt' \in [Markets -> Nat]
        /\ winners' \in [Markets -> SUBSET Labels]
        /\ now' \in Nat
        /\ decisions' \in [Markets -> Nat]
    BY <1>1 DEF IInv, TypeOK, ResolveTx
  <2>4. declared' \in [Markets -> SUBSET PaidLabels]
    BY <1>1, <1>2 DEF IInv, TypeOK, ResolveTx
  <2>5. UNCHANGED <<rows, disputed, synced>>
    BY <1>1 DEF ResolveTx
  <2>6. QED
    BY <2>1, <2>2, <2>3, <2>4, <2>5 DEF IInv, TypeOK, holders, money, bounds
<1>4. Decided'
  <2>1. o # "none" /\ payoutAt' = payoutAt
    BY DEF Outcomes, Sides, Resolve, money
  <2>2. QED BY <1>1, <2>1, PayLaterTodo DEF IInv, Decided, TypeOK, ResolveTx, Payouts
<1>5. ReadsDeclared'
  <2>1. \A n \in Markets : winners'[n] \subseteq winners[n] \cup (IF n = m THEN {o} \cup W ELSE {})
    BY <1>1 DEF IInv, TypeOK, ResolveTx
  <2>2. declared' = [declared EXCEPT ![m] = @ \cup ({o} \cup W)]
    BY <1>1 DEF IInv, TypeOK, ResolveTx
  <2>3. \A q \in Requests : \A p \in todo'[q] :
            p \in todo[q] \/ (p.market = m /\ p.outcome = o)
    BY <1>1, PayLaterTodo DEF IInv
  <2>4. outcome' = [outcome EXCEPT ![m] = o] /\ o \in {o} \cup W
    BY <1>1 DEF ResolveTx
  <2>5. TypeOK /\ ReadsDeclared
    BY DEF IInv
  <2>6. QED BY ONLY <2>1, <2>2, <2>3, <2>4, <2>5, ReadsStayDeclared, m \in Markets, o \in Outcomes
<1>6. PaidOnlyDeclared'
  BY <1>1, PaidStaysDeclared DEF IInv, TypeOK, Resolve, ResolveTx, money
<1>7. QED BY <1>3, <1>4, <1>5, <1>6 DEF IInv

LEMMA DeadlineAndDisputeKeepIInv ==
  ASSUME IInv, NEW m \in Markets, Dispute(m) \/ \E c \in Clocks : DeadlinePasses(m, c)
  PROVE  IInv'
<1>1. TypeOK'
  <2>1. window' \in [Markets -> Windows]
    <3>1. ASSUME NEW c \in Clocks, DeadlinePasses(m, c) PROVE <2>1
      <4>1. window' = [window EXCEPT ![m] = [window[m] EXCEPT ![c] = "passed"]]
        BY <3>1 DEF DeadlinePasses, IInv, TypeOK
      <4>2. window[m] \in Windows /\ window \in [Markets -> Windows]
        BY DEF IInv, TypeOK
      <4>3. [window[m] EXCEPT ![c] = "passed"] \in Windows
        BY <4>2, WindowTypes
      <4>4. QED BY ONLY <4>1, <4>2, <4>3
    <3>2. QED BY <3>1 DEF IInv, TypeOK, Dispute
  <2>2. ASSUME NEW c \in Clocks, DeadlinePasses(m, c) PROVE TypeOK'
    BY <2>1, <2>2 DEF IInv, TypeOK, DeadlinePasses, holders, money, bounds, history
  <2>3. CASE Dispute(m)
    BY <2>1, <2>3 DEF IInv, TypeOK, Dispute, holders, money, history
  <2>4. QED BY <2>2, <2>3
<1>2. /\ UNCHANGED <<outcome, winners, payoutAt, todo, declared, paid>>
      /\ \A n \in Markets : status'[n] = "open" <=> status[n] = "open"
  BY DEF IInv, TypeOK, DeadlinePasses, Dispute, holders, money, bounds, history
<1>3. Decided'
  BY <1>2 DEF IInv, TypeOK, Decided, Payouts
<1>4. ReadsDeclared'
  BY <1>2 DEF IInv, ReadsDeclared
<1>5. PaidOnlyDeclared'
  BY <1>2, PaidStaysDeclared DEF IInv
<1>6. QED BY <1>1, <1>3, <1>4, <1>5 DEF IInv

LEMMA ReviewKeepsIInv ==
  ASSUME IInv, NEW r \in Requests, NEW m \in Markets,
         \/ ConfirmOriginal(r, m)
         \/ \E o \in Outcomes : OverrideOutcome(r, m, o)
         \/ CancelMarket(r, m)
  PROVE  IInv'
<1> USE DEF IInv, ReviewTx, holders, bounds
<1>1. CASE ConfirmOriginal(r, m)
  <2> USE <1>1 DEF ConfirmOriginal, history
  <2>1. TypeOK'
    BY DEF TypeOK
  <2>2. Decided' /\ ReadsDeclared'
    BY DEF TypeOK, Decided, ReadsDeclared
  <2>3. PaidOnlyDeclared'
    BY PaidStaysDeclared
  <2>4. QED BY <2>1, <2>2, <2>3
<1>2. ASSUME NEW o \in Outcomes, OverrideOutcome(r, m, o)
      PROVE  IInv'
  <2> USE <1>2 DEF OverrideOutcome, Redecide
  <2>1. o \in PaidLabels /\ o # "none"
    BY DEF PaidLabels, Outcomes, Sides
  <2>2. TypeOK'
    BY <2>1, PayLaterTodo DEF TypeOK
  <2>3. Decided'
    BY <2>1, PayLaterTodo DEF TypeOK, Decided
  <2>4. ReadsDeclared'
    <3>1. \A n \in Markets : winners'[n] \subseteq winners[n] \cup (IF n = m THEN {o} ELSE {})
      OBVIOUS
    <3>2. \A q \in Requests : \A p \in todo'[q] :
              p \in todo[q] \/ (p.market = m /\ p.outcome = o)
      BY PayLaterTodo
    <3>3. /\ outcome' = [outcome EXCEPT ![m] = o]
          /\ declared' = [declared EXCEPT ![m] = @ \cup {o}]
          /\ o \in {o}
      OBVIOUS
    <3>4. QED BY ONLY <3>1, <3>2, <3>3, TypeOK, ReadsDeclared, ReadsStayDeclared,
                 m \in Markets, o \in Outcomes
  <2>5. PaidOnlyDeclared'
    BY PaidStaysDeclared DEF TypeOK
  <2>6. QED BY <2>2, <2>3, <2>4, <2>5
<1>3. CASE CancelMarket(r, m)
  <2> USE <1>3 DEF CancelMarket, Redecide
  <2>1. "cancelled" \in PaidLabels /\ "cancelled" \in Outcomes
    BY DEF PaidLabels, Outcomes
  <2>2. TypeOK'
    BY <2>1 DEF TypeOK
  <2>3. Decided'
    BY DEF TypeOK, Decided
  <2>4. ReadsDeclared'
    <3>1. /\ \A n \in Markets : winners'[n] = winners[n]
          /\ \A q \in Requests : todo'[q] = todo[q]
      OBVIOUS
    <3>2. QED BY <2>1, <3>1, ReadsStayDeclared
  <2>5. PaidOnlyDeclared'
    BY PaidStaysDeclared DEF TypeOK
  <2>6. QED BY <2>2, <2>3, <2>4, <2>5
<1>4. QED BY <1>1, <1>2, <1>3

LEMMA SyncKeepsIInv ==
  ASSUME IInv, NEW m \in Markets, NEW o \in Outcomes, SyncShadow(m, o)
  PROVE  IInv'
<1> USE DEF IInv, SyncShadow, holders, money, bounds
<1>1. o \in PaidLabels /\ o # "none"
  BY DEF PaidLabels, Outcomes, Sides
<1>2. TypeOK'
  BY <1>1 DEF TypeOK
<1>3. Decided'
  BY <1>1 DEF TypeOK, Decided
<1>4. ReadsDeclared'
  <2>1. /\ \A n \in Markets : winners'[n] = winners[n]
        /\ \A q \in Requests : todo'[q] = todo[q]
    OBVIOUS
  <2>2. QED BY <2>1, ReadsStayDeclared
<1>5. PaidOnlyDeclared'
  BY PaidStaysDeclared DEF TypeOK
<1>6. QED BY <1>2, <1>3, <1>4, <1>5

\* A request that lists what is due picks up decided markets and declared outcomes.
LEMMA ListKeepsIInv ==
  ASSUME IInv, NEW r \in Requests, ListDuePayouts(r)
  PROVE  IInv'
<1> DEFINE due == {[market |-> m, outcome |-> outcome[m], rank |-> resolvedAt[m]] :
                      m \in {n \in Markets : Due(n)}}
<1>1. UNCHANGED <<tables, holders, money, now, bounds, history>>
  BY DEF ListDuePayouts
<1>2. todo' = [todo EXCEPT ![r] = due]
  BY DEF ListDuePayouts
<1>3. \A m \in Markets : Due(m) => status[m] = "resolved" /\ outcome[m] \in Outcomes
  BY DEF Due, IInv, TypeOK, Decided
<1>4. \A p \in due : /\ p \in Payouts
                     /\ status[p.market] # "open"
                     /\ p.outcome \in declared[p.market]
  <2>1. SUFFICES ASSUME NEW m \in Markets, Due(m)
                 PROVE  LET p == [market |-> m, outcome |-> outcome[m], rank |-> resolvedAt[m]]
                        IN  /\ p \in Payouts
                            /\ status[p.market] # "open"
                            /\ p.outcome \in declared[p.market]
    OBVIOUS
  <2>2. outcome[m] \in Outcomes /\ resolvedAt[m] \in Nat /\ status[m] # "open"
    BY <1>3, <2>1 DEF IInv, TypeOK
  <2>3. outcome[m] \in declared[m]
    BY <2>2 DEF IInv, ReadsDeclared, Outcomes, Sides
  <2>4. QED BY <2>2, <2>3 DEF Payouts
<1> HIDE DEF due
<1>5. TypeOK'
  <2>1. todo' \in [Requests -> SUBSET Payouts]
    BY <1>2, <1>4 DEF IInv, TypeOK
  <2>2. QED BY <1>1, <2>1 DEF IInv, TypeOK, tables, holders, money, bounds, history
<1>6. \A q \in Requests : \A p \in todo'[q] : p \in todo[q] \/ p \in due
  BY <1>2 DEF IInv, TypeOK
<1>7. UNCHANGED <<status, outcome, winners, payoutAt, declared, paid>>
  BY <1>1 DEF tables, money, history
<1>8. Decided'
  BY <1>4, <1>6, <1>7 DEF IInv, Decided
<1>9. ReadsDeclared'
  BY <1>4, <1>6, <1>7 DEF IInv, ReadsDeclared
<1>10. PaidOnlyDeclared'
  BY <1>7, PaidStaysDeclared DEF IInv
<1>11. QED BY <1>5, <1>8, <1>9, <1>10 DEF IInv

\* What one payout does to the money of its market: nothing, or it credits an unpaid
\* market for a declared label.
LEMMA PayoutEffect ==
  ASSUME IInv, NEW m \in Markets, NEW o \in Outcomes, o \in declared[m], Payout(m, o)
  PROVE  \/ UNCHANGED money
         \/ ~payoutAt[m] /\ \E label \in declared[m] : MarkPaid(m, label)
<1>1. CASE payoutAt[m]
  BY <1>1 DEF Payout
<1>2. CASE ~payoutAt[m] /\ o = "cancelled"
  BY <1>2 DEF Payout
<1>3. CASE ~payoutAt[m] /\ o # "cancelled" /\ winners[m] = {}
  <2>1. BinarySide(o) = o
    BY <1>3 DEF BinarySide, Outcomes, Sides
  <2>2. QED BY <1>3, <2>1 DEF Payout, PayHolders
<1>4. CASE ~payoutAt[m] /\ o # "cancelled" /\ winners[m] # {}
  <2>1. PICK w \in winners[m] \ spoiled[m] : PayHolders(m, w, optHolders[m])
    BY <1>4 DEF Payout
  <2>2. w \in declared[m]
    BY DEF IInv, ReadsDeclared
  <2>3. QED BY <1>4, <2>1, <2>2 DEF PayHolders
<1>5. QED BY <1>1, <1>2, <1>3, <1>4

\* PayoutEffect, for the payout a request makes next.
LEMMA PayoutTxEffect ==
  ASSUME IInv, NEW r \in Requests, NEW m \in Markets, PayoutTx(r, m)
  PROVE  /\ UNCHANGED <<tables, holders, now, bounds, history>>
         /\ todo' \in [Requests -> SUBSET Payouts]
         /\ \A q \in Requests : todo'[q] \subseteq todo[q]
         /\ status[m] # "open"
         /\ \/ UNCHANGED money
            \/ ~payoutAt[m] /\ \E label \in declared[m] : MarkPaid(m, label)
<1>1. PICK p \in NextPayout(r, m) :
          \/ Payout(m, p.outcome) /\ todo' = [todo EXCEPT ![r] = @ \ {p}]
          \/ UNCHANGED money /\ todo' = [todo EXCEPT ![r] = {}]
  BY DEF PayoutTx
<1>2. p \in todo[r] /\ p.market = m
  BY DEF NextPayout
<1>3. p.outcome \in Outcomes /\ p.outcome \in declared[m] /\ status[m] # "open"
  BY <1>2 DEF IInv, TypeOK, Payouts, Decided, ReadsDeclared
<1>4. \/ UNCHANGED money
      \/ ~payoutAt[m] /\ \E label \in declared[m] : MarkPaid(m, label)
  BY <1>1, <1>3, PayoutEffect
<1>5. \/ todo' = [todo EXCEPT ![r] = {}]
      \/ todo' = [todo EXCEPT ![r] = @ \ {p}]
  BY <1>1
<1>6. /\ todo' \in [Requests -> SUBSET Payouts]
      /\ \A q \in Requests : todo'[q] \subseteq todo[q]
  BY <1>5 DEF IInv, TypeOK
<1>7. QED BY <1>3, <1>4, <1>6 DEF PayoutTx

LEMMA PayoutKeepsIInv ==
  ASSUME IInv, NEW r \in Requests, NEW m \in Markets, PayoutTx(r, m)
  PROVE  IInv'
<1>1. /\ UNCHANGED <<tables, holders, now, bounds, history>>
      /\ todo' \in [Requests -> SUBSET Payouts]
      /\ \A q \in Requests : todo'[q] \subseteq todo[q]
      /\ status[m] # "open"
  BY PayoutTxEffect
<1>2. /\ payoutAt' \in [Markets -> BOOLEAN]
      /\ paid' \in [Markets -> Seq(PaidLabels)]
      /\ PaidOnlyDeclared'
      /\ \A n \in Markets \ {m} : payoutAt'[n] = payoutAt[n]
  <2>1. CASE UNCHANGED money
    BY <1>1, <2>1, PaidStaysDeclared DEF IInv, TypeOK, money, history
  <2>2. CASE \E label \in declared[m] : MarkPaid(m, label)
    <3>1. PICK label \in declared[m] : MarkPaid(m, label)
      BY <2>2
    <3>2. declared' = declared
      BY <1>1 DEF history
    <3>3. QED BY <3>1, <3>2, MarkPaidKeepsDeclared DEF IInv, MarkPaid, TypeOK
  <2>3. QED BY <2>1, <2>2, PayoutTxEffect
<1>3. TypeOK'
  BY <1>1, <1>2 DEF IInv, TypeOK, tables, holders, bounds, history
<1>4. UNCHANGED <<status, outcome, winners, declared>>
  BY <1>1 DEF tables, history
<1>5. Decided'
  BY <1>1, <1>2, <1>4 DEF IInv, Decided
<1>6. ReadsDeclared'
  BY <1>1, <1>4 DEF IInv, ReadsDeclared
<1>7. QED BY <1>2, <1>3, <1>5, <1>6 DEF IInv

LEMMA AbortKeepsIInv ==
  ASSUME IInv, NEW r \in Requests, Abort(r)
  PROVE  IInv'
<1>1. /\ UNCHANGED <<tables, holders, money, now, bounds, history>>
      /\ todo' \in [Requests -> SUBSET Payouts]
      /\ \A q \in Requests : todo'[q] \subseteq todo[q]
  BY DEF Abort, IInv, TypeOK
<1>2. TypeOK'
  BY <1>1 DEF IInv, TypeOK, tables, holders, money, bounds, history
<1>3. UNCHANGED <<status, outcome, winners, payoutAt, declared, paid>>
  BY <1>1 DEF tables, money, history
<1>4. Decided' /\ ReadsDeclared'
  BY <1>1, <1>3 DEF IInv, Decided, ReadsDeclared
<1>5. QED BY <1>2, <1>3, <1>4, PaidStaysDeclared DEF IInv

\* The backfill flags only what outcome declares.
LEMMA RestartKeepsIInv ==
  ASSUME IInv, Restart
  PROVE  IInv'
<1>1. UNCHANGED <<status, outcome, window, resolvedAt, disputed, synced, binHolders, spoiled,
                  money, now, disputes, trades, history>>
      /\ restarts' = restarts + 1 /\ todo' = [r \in Requests |-> {}]
  BY DEF Restart
<1>2. rows' \in [Markets -> {"bare", "pool", "complete"}]
  BY DEF Restart, IInv, TypeOK
<1>3. \A m \in Markets : winners'[m] \subseteq winners[m] \cup ({outcome[m]} \cap Sides)
  BY DEF Restart, FlaggedAtStart
<1>4. winners' \in [Markets -> SUBSET Labels]
  BY <1>3 DEF Restart, IInv, TypeOK, Labels
<1>5. optHolders' \in [Markets -> SUBSET Labels]
  <2>1. PICK copied \in [Markets -> SUBSET Sides] :
          optHolders' = [m \in Markets |->
              IF rows[m] # "bare"
              THEN optHolders[m] \cup (copied[m] \cap binHolders[m]) ELSE optHolders[m]]
    BY DEF Restart
  <2>2. \A m \in Markets : copied[m] \cap binHolders[m] \subseteq Labels
    BY DEF IInv, TypeOK, Labels
  <2>3. QED BY <2>1, <2>2 DEF IInv, TypeOK
<1>6. TypeOK'
  BY <1>1, <1>2, <1>4, <1>5 DEF IInv, TypeOK, money, history
<1>7. UNCHANGED <<payoutAt, paid, declared>>
  BY <1>1 DEF money, history
<1>8. Decided'
  BY <1>1, <1>7 DEF IInv, Decided
<1>9. ReadsDeclared'
  <2>1. \A m \in Markets : {outcome[m]} \cap Sides \subseteq declared[m]
    BY DEF IInv, ReadsDeclared, Sides
  <2>2. QED BY <1>1, <1>3, <1>7, <2>1 DEF IInv, ReadsDeclared
<1>10. QED BY <1>6, <1>7, <1>8, <1>9, PaidStaysDeclared DEF IInv

LEMMA NextKeepsIInv == IInv /\ [Next]_vars => IInv'
<1> SUFFICES ASSUME IInv, [Next]_vars PROVE IInv'
  OBVIOUS
<1>1. ASSUME NEW m \in Markets, MarketStep(m) PROVE IInv'
  BY <1>1, TradeKeepsIInv, DeadlineAndDisputeKeepIInv, SyncKeepsIInv DEF MarketStep
<1>2. ASSUME NEW r \in Requests, RequestStep(r) PROVE IInv'
  BY <1>2, ListKeepsIInv, AbortKeepsIInv, ResolveKeepsIInv, ReviewKeepsIInv, PayoutKeepsIInv
     DEF RequestStep
<1>3. CASE Restart
  BY <1>3, RestartKeepsIInv
<1>4. CASE UNCHANGED vars
  BY <1>4 DEF vars, tables, holders, money, bounds, history, IInv, TypeOK, Decided,
     ReadsDeclared, PaidOnlyDeclared
<1>5. QED BY <1>1, <1>2, <1>3, <1>4 DEF Next

\* The types of the tables, of the requests in progress and of the history.
THEOREM TypeCorrect == Spec => []TypeOK
<1>1. IInv => TypeOK
  BY DEF IInv
<1>2. QED BY <1>1, InitIInv, NextKeepsIInv, PTL DEF Spec

\* No payout, however late, credits a side or option nobody ever declared.
THEOREM PaidOnlyDeclaredAlways == Spec => []PaidOnlyDeclared
<1>1. IInv => PaidOnlyDeclared
  BY DEF IInv
<1>2. QED BY <1>1, InitIInv, NextKeepsIInv, PTL DEF Spec

-----------------------------------------------------------------------------
(* The settlement contract.  Unpaid is what due stands for.                *)

Unpaid == {m \in Markets : status[m] # "open" /\ ~payoutAt[m]}

Credits == [m \in Markets |-> Len(paid[m])]

LEMMA InitContract == Init => Contract!Init
<1> SUFFICES ASSUME Init PROVE Contract!Init
  OBVIOUS
<1>1. Unpaid = {}
  BY DEF Init, Unpaid
<1>2. Credits = [m \in Markets |-> 0]
  BY DEF Init, Credits
<1>3. QED BY <1>1, <1>2 DEF Init, Contract!Init, Unpaid, Credits

\* Steps that leave what the contract talks about as it is.
LEMMA ContractStutters ==
  ASSUME UNCHANGED <<payoutAt, paid, decisions>>,
         \A m \in Markets : status'[m] = "open" <=> status[m] = "open"
  PROVE  UNCHANGED Contract!settlementVars
<1>1. Unpaid' = Unpaid /\ Credits' = Credits
  BY DEF Unpaid, Credits
<1>2. QED BY <1>1 DEF Contract!settlementVars, Unpaid, Credits

\* A decision about m leaves it decided and unpaid, and nothing else changed.
LEMMA ContractDecides ==
  ASSUME NEW m \in Markets, paid' = paid,
         decisions' = [decisions EXCEPT ![m] = @ + 1],
         status'[m] # "open", ~payoutAt'[m],
         \A n \in Markets \ {m} : status'[n] = status[n] /\ payoutAt'[n] = payoutAt[n]
  PROVE  Contract!Decide(m)
<1>1. Unpaid' = Unpaid \cup {m} /\ Credits' = Credits
  BY DEF Unpaid, Credits
<1>2. QED BY <1>1 DEF Contract!Decide, Unpaid, Credits

LEMMA ContractSettles ==
  ASSUME TypeOK, NEW m \in Markets, NEW label \in PaidLabels, MarkPaid(m, label),
         status[m] # "open", ~payoutAt[m], UNCHANGED <<status, decisions>>
  PROVE  Contract!Settle(m)
<1>1. m \in Unpaid /\ Unpaid' = Unpaid \ {m}
  BY DEF Unpaid, MarkPaid, TypeOK
<1>2. Credits' = [Credits EXCEPT ![m] = @ + 1]
  <2>1. /\ paid' \in [Markets -> Seq(PaidLabels)]
        /\ paid'[m] = Append(paid[m], label)
        /\ \A n \in Markets \ {m} : paid'[n] = paid[n]
    BY DEF MarkPaid, TypeOK
  <2>2. Len(paid'[m]) = Len(paid[m]) + 1
    BY <2>1 DEF TypeOK
  <2>3. QED BY <2>1, <2>2 DEF Credits
<1>3. QED BY <1>1, <1>2 DEF Contract!Settle, Unpaid, Credits

LEMMA NextContract == IInv /\ [Next]_vars => [Contract!Next]_Contract!settlementVars
<1> SUFFICES ASSUME IInv, [Next]_vars
             PROVE  Contract!Next \/ UNCHANGED Contract!settlementVars
  OBVIOUS
<1>1. ASSUME NEW m \in Markets, MarketStep(m)
      PROVE  Contract!Next \/ UNCHANGED Contract!settlementVars
  <2>1. ASSUME NEW s \in Sides, TradeBinary(m, s) PROVE UNCHANGED Contract!settlementVars
    BY <2>1, ContractStutters DEF TradeBinary, Trading, tables, money, history
  <2>2. ASSUME NEW l \in Labels, TradeOption(m, l) \/ TradeOptionForNaN(m, l)
        PROVE  UNCHANGED Contract!settlementVars
    BY <2>2, ContractStutters
       DEF TradeOption, TradeOptionForNaN, Trading, tables, money, history
  <2>3. CASE \E c \in Clocks : DeadlinePasses(m, c)
    BY <2>3, ContractStutters DEF DeadlinePasses, money, history
  <2>4. CASE Dispute(m)
    BY <2>4, ContractStutters DEF Dispute, money, history, IInv, TypeOK
  <2>5. ASSUME NEW o \in Outcomes, SyncShadow(m, o)
        PROVE  Contract!Next \/ UNCHANGED Contract!settlementVars
    <3> USE <2>5 DEF SyncShadow, money
    <3>1. CASE status[m] = "open"
      <4>1. ~payoutAt[m]
        BY <3>1 DEF IInv, Decided
      <4>2. Contract!Decide(m)
        BY <3>1, <4>1, ContractDecides DEF IInv, TypeOK
      <4>3. QED BY <4>2 DEF Contract!Next
    <3>2. CASE status[m] # "open"
      <4>1. decisions' = decisions
        BY <3>2 DEF IInv, TypeOK
      <4>2. QED BY <3>2, <4>1, ContractStutters DEF IInv, TypeOK
    <3>3. QED BY <3>1, <3>2
  <2>6. QED BY <1>1, <2>1, <2>2, <2>3, <2>4, <2>5 DEF MarketStep
<1>2. ASSUME NEW r \in Requests, RequestStep(r)
      PROVE  Contract!Next \/ UNCHANGED Contract!settlementVars
  <2>1. CASE ListDuePayouts(r)
    BY <2>1, ContractStutters DEF ListDuePayouts, tables, money, history
  <2>2. CASE Abort(r)
    BY <2>2, ContractStutters DEF Abort, tables, money, history
  <2>3. ASSUME NEW m \in Markets, Resolve(r, m) PROVE Contract!Next
    <3>1. PICK o, W : ResolveTx(m, o, W)
      BY <2>3 DEF Resolve
    <3>2. ~payoutAt[m] /\ UNCHANGED money
      BY <2>3, <3>1 DEF Resolve, ResolveTx, IInv, Decided
    <3>3. Contract!Decide(m)
      BY <3>1, <3>2, ContractDecides DEF ResolveTx, IInv, TypeOK, money
    <3>4. QED BY <3>3 DEF Contract!Next
  <2>4. ASSUME NEW m \in Markets, ConfirmOriginal(r, m)
        PROVE  UNCHANGED Contract!settlementVars
    BY <2>4, ContractStutters DEF ConfirmOriginal, ReviewTx, history, IInv, TypeOK
  <2>5. ASSUME NEW m \in Markets, NEW o \in Outcomes, OverrideOutcome(r, m, o)
        PROVE  Contract!Next
    <3>1. Contract!Decide(m)
      BY <2>5, ContractDecides DEF OverrideOutcome, ReviewTx, Redecide, IInv, TypeOK
    <3>2. QED BY <3>1 DEF Contract!Next
  <2>6. ASSUME NEW m \in Markets, CancelMarket(r, m) PROVE Contract!Next
    <3>1. Contract!Decide(m)
      BY <2>6, ContractDecides DEF CancelMarket, ReviewTx, Redecide, IInv, TypeOK
    <3>2. QED BY <3>1 DEF Contract!Next
  <2>7. ASSUME NEW m \in Markets, PayoutTx(r, m)
        PROVE  Contract!Next \/ UNCHANGED Contract!settlementVars
    <3>1. UNCHANGED <<tables, history>> /\ status[m] # "open"
      BY <2>7, PayoutTxEffect
    <3>2. CASE UNCHANGED money
      BY <3>1, <3>2, ContractStutters DEF tables, money, history
    <3>3. ASSUME ~payoutAt[m], NEW label \in declared[m], MarkPaid(m, label)
          PROVE  Contract!Next
      <4>1. label \in PaidLabels
        BY DEF IInv, TypeOK
      <4>2. Contract!Settle(m)
        BY <3>1, <3>3, <4>1, ContractSettles DEF IInv, tables, history
      <4>3. QED BY <4>2 DEF Contract!Next
    <3>4. QED BY <2>7, <3>2, <3>3, PayoutTxEffect
  <2>8. QED BY <1>2, <2>1, <2>2, <2>3, <2>4, <2>5, <2>6, <2>7 DEF RequestStep
<1>3. CASE Restart
  BY <1>3, ContractStutters DEF Restart, money, history
<1>4. CASE UNCHANGED vars
  BY <1>4, ContractStutters DEF vars, tables, money, history
<1>5. QED BY <1>1, <1>2, <1>3, <1>4 DEF Next

\* MarketLifecycle implements Settlement: a market is only ever paid for a decision
\* about it, and for each decision at most once.
THEOREM LifecycleImplementsSettlement == Spec => SettlementContract
  BY InitIInv, NextKeepsIInv, InitContract, NextContract, PTL
     DEF Spec, SettlementContract, Contract!Spec

-----------------------------------------------------------------------------
(* Disputes                                                                *)

LEMMA NextKeepsDisputeRows ==
  ASSUME TypeOK, DisputeRowsAgree, [Next]_vars
  PROVE  DisputeRowsAgree'
<1>1. ASSUME UNCHANGED <<status, disputed>> PROVE DisputeRowsAgree'
  BY <1>1 DEF DisputeRowsAgree
<1>2. ASSUME NEW m \in Markets, MarketStep(m) PROVE DisputeRowsAgree'
  <2>1. ASSUME NEW s \in Sides, TradeBinary(m, s) PROVE DisputeRowsAgree'
    BY <2>1, <1>1 DEF TradeBinary, Trading, tables
  <2>2. ASSUME NEW l \in Labels, TradeOption(m, l) \/ TradeOptionForNaN(m, l)
        PROVE  DisputeRowsAgree'
    BY <2>2, <1>1 DEF TradeOption, TradeOptionForNaN, Trading, tables
  <2>3. CASE \E c \in Clocks : DeadlinePasses(m, c)
    BY <2>3, <1>1 DEF DeadlinePasses
  <2>4. CASE Dispute(m)
    BY <2>4 DEF Dispute, DisputeRowsAgree, TypeOK
  <2>5. ASSUME NEW o \in Outcomes, SyncShadow(m, o) PROVE DisputeRowsAgree'
    BY <2>5 DEF SyncShadow, DisputeRowsAgree, TypeOK
  <2>6. QED BY <1>2, <2>1, <2>2, <2>3, <2>4, <2>5 DEF MarketStep
<1>3. ASSUME NEW r \in Requests, RequestStep(r) PROVE DisputeRowsAgree'
  <2>1. CASE ListDuePayouts(r) \/ Abort(r) \/ \E m \in Markets : PayoutTx(r, m)
    BY <2>1, <1>1 DEF ListDuePayouts, Abort, PayoutTx, tables
  <2>2. ASSUME NEW m \in Markets, Resolve(r, m) PROVE DisputeRowsAgree'
    <3>1. PICK o, W : ResolveTx(m, o, W)
      BY <2>2 DEF Resolve
    <3>2. QED BY <3>1 DEF ResolveTx, DisputeRowsAgree, TypeOK
  <2>3. ASSUME NEW m \in Markets, ConfirmOriginal(r, m) PROVE DisputeRowsAgree'
    BY <2>3 DEF ConfirmOriginal, ReviewTx, DisputeRowsAgree, TypeOK
  <2>4. ASSUME NEW m \in Markets, NEW o \in Outcomes, OverrideOutcome(r, m, o)
        PROVE  DisputeRowsAgree'
    BY <2>4 DEF OverrideOutcome, ReviewTx, DisputeRowsAgree, TypeOK
  <2>5. ASSUME NEW m \in Markets, CancelMarket(r, m) PROVE DisputeRowsAgree'
    BY <2>5 DEF CancelMarket, ReviewTx, DisputeRowsAgree, TypeOK
  <2>6. QED BY <1>3, <2>1, <2>2, <2>3, <2>4, <2>5 DEF RequestStep
<1>4. CASE Restart
  BY <1>4, <1>1 DEF Restart
<1>5. CASE UNCHANGED vars
  BY <1>5, <1>1 DEF vars, tables
<1>6. QED BY <1>2, <1>3, <1>4, <1>5 DEF Next

\* Outside of shadow markets the disputes table and markets.status agree.
THEOREM DisputeRowsAgreeAlways == Spec => []DisputeRowsAgree
<1>1. Init => DisputeRowsAgree
  BY DEF Init, DisputeRowsAgree
<1>2. QED BY <1>1, TypeCorrect, NextKeepsDisputeRows, PTL DEF Spec

-----------------------------------------------------------------------------
(* Finality                                                                *)

\* One step from a paid market whose window has passed by both clocks.
LEMMA FinalStays ==
  ASSUME IInv, [Next]_vars, NEW n \in Markets, Final(n)
  PROVE  Final(n)' /\ paid'[n] = paid[n]
<1> USE DEF Final, WindowOver
<1>1. ASSUME UNCHANGED <<status, window, payoutAt, paid>>
      PROVE  Final(n)' /\ paid'[n] = paid[n]
  BY <1>1
<1>2. ASSUME NEW m \in Markets, MarketStep(m)
      PROVE  Final(n)' /\ paid'[n] = paid[n]
  <2>1. ASSUME NEW s \in Sides, TradeBinary(m, s) PROVE Final(n)' /\ paid'[n] = paid[n]
    BY <2>1, <1>1 DEF TradeBinary, Trading, tables, money
  <2>2. ASSUME NEW l \in Labels, TradeOption(m, l) \/ TradeOptionForNaN(m, l)
        PROVE  Final(n)' /\ paid'[n] = paid[n]
    BY <2>2, <1>1 DEF TradeOption, TradeOptionForNaN, Trading, tables, money
  <2>3. CASE \E c \in Clocks : DeadlinePasses(m, c)
    BY <2>3 DEF DeadlinePasses, money, IInv, TypeOK, Windows
  <2>4. CASE Dispute(m)
    BY <2>4 DEF Dispute, Clocks, money, IInv, TypeOK
  <2>5. ASSUME NEW o \in Outcomes, SyncShadow(m, o) PROVE Final(n)' /\ paid'[n] = paid[n]
    BY <2>5 DEF SyncShadow, money, IInv, TypeOK
  <2>6. QED BY <1>2, <2>1, <2>2, <2>3, <2>4, <2>5 DEF MarketStep
<1>3. ASSUME NEW r \in Requests, RequestStep(r)
      PROVE  Final(n)' /\ paid'[n] = paid[n]
  <2>1. CASE ListDuePayouts(r) \/ Abort(r)
    BY <2>1, <1>1 DEF ListDuePayouts, Abort, tables, money
  <2>2. ASSUME NEW m \in Markets, Resolve(r, m) PROVE Final(n)' /\ paid'[n] = paid[n]
    <3>1. PICK o, W : ResolveTx(m, o, W)
      BY <2>2 DEF Resolve
    <3>2. m # n /\ UNCHANGED money
      BY <2>2, <3>1 DEF Resolve, ResolveTx
    <3>3. QED BY <3>1, <3>2 DEF ResolveTx, money, IInv, TypeOK
  <2>3. ASSUME NEW m \in Markets,
               \/ ConfirmOriginal(r, m)
               \/ \E o \in Outcomes : OverrideOutcome(r, m, o)
               \/ CancelMarket(r, m)
        PROVE  Final(n)' /\ paid'[n] = paid[n]
    <3>1. m # n /\ paid' = paid /\ window' = window
      BY <2>3 DEF ConfirmOriginal, OverrideOutcome, CancelMarket, ReviewTx
    <3>2. status'[n] = status[n] /\ payoutAt'[n] = payoutAt[n]
      BY <2>3, <3>1 DEF ConfirmOriginal, OverrideOutcome, CancelMarket, Redecide, IInv, TypeOK
    <3>3. QED BY <3>1, <3>2
  <2>4. ASSUME NEW m \in Markets, PayoutTx(r, m) PROVE Final(n)' /\ paid'[n] = paid[n]
    <3>1. UNCHANGED tables
      BY <2>4, PayoutTxEffect
    <3>2. payoutAt'[n] = payoutAt[n] /\ paid'[n] = paid[n]
      <4>1. CASE UNCHANGED money
        BY <4>1 DEF money
      <4>2. ASSUME ~payoutAt[m], NEW label \in declared[m], MarkPaid(m, label)
            PROVE  <3>2
        BY <4>2 DEF MarkPaid, IInv, TypeOK
      <4>3. QED BY <2>4, <4>1, <4>2, PayoutTxEffect
    <3>3. QED BY <3>1, <3>2 DEF tables
  <2>5. QED BY <1>3, <2>1, <2>2, <2>3, <2>4 DEF RequestStep
<1>4. CASE Restart
  BY <1>4, <1>1 DEF Restart, money
<1>5. CASE UNCHANGED vars
  BY <1>5, <1>1 DEF vars, tables, money
<1>6. QED BY <1>2, <1>3, <1>4, <1>5 DEF Next

\* A payout made and no longer disputable is final, whatever is still in flight.
THEOREM SettledIsFinalAlways == Spec => SettledIsFinal
<1>1. IInv /\ [Next]_vars =>
        [\A m \in Markets : Final(m) => Final(m)' /\ paid'[m] = paid[m]]_vars
  BY FinalStays
<1>2. QED BY <1>1, InitIInv, NextKeepsIInv, PTL DEF Spec, SettledIsFinal

=============================================================================
