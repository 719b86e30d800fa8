----------------------------- MODULE TradeFeed -----------------------------
(***************************************************************************)
(* The trade service and the hub together: trade.Service.Execute with its  *)
(* retries and its broadcast, the hub and its clients (module Hub), and the *)
(* end of the server in main.  A call of Execute stands for its request.   *)
(*                                                                         *)
(* What an attempt does to the tables is BinaryTrading's and               *)
(* OptionTrading's; here an attempt commits or it does not.                *)
(***************************************************************************)
EXTENDS Hub, SequencesExt

CONSTANTS
    market,         \* TradeRequest.MarketID, of each call
    OptionTrades,   \* the calls with an OptionID, which do not trade with the pool
    MaxSerializationRetries

ASSUME CallAssumption ==
    /\ market \in [Trades -> Markets]
    /\ OptionTrades \subseteq Trades
    /\ MaxSerializationRetries \in Nat \ {0}

VARIABLES
    stage,      \* the server: serving, draining, stopping, exited
    call,       \* each call of Execute: idle, executing, committed, answered
    attempt,    \* attempts that failed, of a call that is executing
    answer,     \* none, ok, busy, error
    \* History
    commits,    \* how often the call's trade was committed
    before      \* the calls that were answered before this one began

calls == <<call, attempt, answer, commits, before>>
feedVars == <<hubVars, stage, calls>>

FeedTypeOK ==
    /\ HubTypeOK
    /\ stage \in {"serving", "draining", "stopping", "exited"}
    /\ call \in [Trades -> {"idle", "executing", "committed", "answered"}]
    /\ attempt \in [Trades -> 0..MaxSerializationRetries - 1]
    /\ answer \in [Trades -> {"none", "ok", "busy", "error"}]
    /\ commits \in [Trades -> Nat]
    /\ before \in [Trades -> SUBSET Trades]

FeedInit ==
    /\ HubInit
    /\ stage = "serving"
    /\ call = [t \in Trades |-> "idle"]
    /\ attempt = [t \in Trades |-> 0]
    /\ answer = [t \in Trades |-> "none"]
    /\ commits = [t \in Trades |-> 0]
    /\ before = [t \in Trades |-> {}]

-----------------------------------------------------------------------------
(* Service.Execute                                                         *)

\* A request with a positive cost; one without is answered and does nothing.
Begin(t) ==
    /\ stage = "serving"
    /\ call[t] = "idle"
    /\ call' = [call EXCEPT ![t] = "executing"]
    /\ before' = [before EXCEPT ![t] = {s \in Trades : answer[s] # "none"}]
    /\ UNCHANGED <<hubVars, stage, attempt, answer, commits>>

\* What repository.execute can fail with: a serialization failure, which rolled
\* back; anything else that rolled back; a connection lost while it committed.
Failures == {"serialization", "rolledBack", "lost"}

\* Faulty variant: every error that is not the trader's is tried again.
RetriesLost(e) == e # "rolledBack"

\* httpx.IsSerialization
Retryable(e) == e = "serialization"

\* What a failed call answers: 409 market_busy, or the error.
Refusal(t, e) == IF Retryable(e) THEN "busy" ELSE "error"

\* Faulty variant: one attempt too many.
TriesOnceMore(t) == attempt[t] + 1 <= MaxSerializationRetries

MayTryAgain(t) == attempt[t] + 1 < MaxSerializationRetries

Commit(t) ==
    /\ call[t] = "executing"
    /\ call' = [call EXCEPT ![t] = "committed"]
    /\ commits' = [commits EXCEPT ![t] = @ + 1]
    /\ attempt' = [attempt EXCEPT ![t] = 0]
    /\ UNCHANGED <<hubVars, stage, answer, before>>

AttemptFails(t, e) ==
    /\ call[t] = "executing"
    /\ \E done \in (IF e = "lost" THEN {0, 1} ELSE {0}) :
          commits' = [commits EXCEPT ![t] = @ + done]
    /\ IF Retryable(e) /\ MayTryAgain(t)
       THEN /\ attempt' = [attempt EXCEPT ![t] = @ + 1]
            /\ UNCHANGED <<call, answer>>
       ELSE /\ attempt' = [attempt EXCEPT ![t] = 0]
            /\ call' = [call EXCEPT ![t] = "answered"]
            /\ answer' = [answer EXCEPT ![t] = Refusal(t, e)]
    /\ UNCHANGED <<hubVars, stage, before>>

Reply(t) ==
    /\ call' = [call EXCEPT ![t] = "answered"]
    /\ answer' = [answer EXCEPT ![t] = "ok"]

\* Faulty variant: the answer does not wait for the broadcast.
AnswersFirst(t) ==
    /\ call[t] = "committed"
    /\ \/ /\ answer' = [answer EXCEPT ![t] = "ok"]
          /\ UNCHANGED <<hubVars, call>>
       \/ Broadcast(t) /\ Reply(t)
    /\ UNCHANGED <<stage, attempt, commits, before>>

\* The broadcast after the commit, which waits for room, and the answer.
Announce(t) ==
    /\ call[t] = "committed"
    /\ Broadcast(t)
    /\ Reply(t)
    /\ UNCHANGED <<stage, attempt, commits, before>>

\* Faulty variant: NaN is encoded.
EncodesAll(t) == t \in Trades

\* json.Marshal takes no NaN.  executeMulti returns no pool, and the prices of an
\* empty pool are 0/0.
Encodable(t) == t \notin OptionTrades

-----------------------------------------------------------------------------
(* main                                                                    *)

\* A signal: server.Shutdown takes no new requests.
Drain ==
    /\ stage = "serving"
    /\ stage' = "draining"
    /\ UNCHANGED <<hubVars, calls>>

\* Faulty variant: the hub is shut down without waiting for the requests.
ShutsDownAtOnce ==
    /\ stage = "draining"
    /\ stage' = "stopping"
    /\ Shutdown
    /\ UNCHANGED calls

\* server.Shutdown returns when every request is answered, websockets aside, and
\* only then the hub is shut down.
ShutdownHub ==
    /\ stage = "draining"
    /\ \A t \in Trades : call[t] \in {"idle", "answered"}
    /\ stage' = "stopping"
    /\ Shutdown
    /\ UNCHANGED calls

\* The 30 seconds of server.Shutdown pass, or main returns; nobody waits for the
\* hub.
Exit ==
    /\ stage \in {"draining", "stopping"}
    /\ stage' = "exited"
    /\ UNCHANGED <<hubVars, calls>>

-----------------------------------------------------------------------------

\* The hub takes the next message.
Fan ==
    /\ taken < Len(sent)
    /\ LET t == sent[taken + 1] IN TakeBroadcast(Encodable(t), market[t])

HubStep ==
    \/ Stop
    \/ Fan
    \/ \E c \in Clients :
          \/ Subscribe(c)
          \/ Disconnect(c)
          \/ Unsubscribe(c)
          \/ Receive(c)
          \/ TakeSubscribe(c)
          \/ TakeUnsubscribe(c)

\* Execute, once it has begun.
GoOn(t) ==
    \/ Commit(t)
    \/ \E e \in Failures : AttemptFails(t, e)
    \/ Announce(t)

FeedNext ==
    \/ stage # "exited" /\ HubStep /\ UNCHANGED <<stage, calls>>
    \/ \E t \in Trades :
          \/ Begin(t)
          \/ stage # "exited" /\ GoOn(t)
    \/ Drain
    \/ ShutdownHub
    \/ Exit

FeedSpec == FeedInit /\ [][FeedNext]_feedVars

Alive(A) == stage # "exited" /\ A /\ UNCHANGED <<stage, calls>>

\* Unless the process has ended, a call goes on, a departure is seen through and
\* the hub takes the next message: a select chooses among the ready cases at
\* random, and Go serves the senders that wait for a full channel in their order,
\* so whoever gets in again and again is chosen in the end.  Nobody has to connect,
\* read, leave or trade, and nothing makes the server end or the hub stop.
FeedFairness ==
    /\ WF_feedVars(Alive(Fan))
    /\ \A c \in Clients : SF_feedVars(Alive(Unsubscribe(c) \/ TakeUnsubscribe(c)))
    /\ \A t \in Trades : SF_feedVars(stage # "exited" /\ GoOn(t))

FairFeedSpec == FeedSpec /\ FeedFairness

-----------------------------------------------------------------------------
(* Properties                                                              *)

\* What a trader is told is what happened, however often Execute tried: a trade
\* is never made twice, "ok" and its update stand for a trade that was made, and
\* "busy" for one that was not.  (An error may hide a commit that was not
\* acknowledged.)
AnswersTellTruth ==
    \A t \in Trades :
        /\ commits[t] <= 1
        /\ t \in ToSet(sent) => answer[t] = "ok"
        /\ answer[t] = "ok" => commits[t] = 1 /\ t \in ToSet(sent)
        /\ answer[t] = "busy" => commits[t] = 0

\* The hub never sends on a closed channel and never closes one twice, either of
\* which would end the server: who is registered, or will be, has an open
\* channel, also a client whose unsubscription overtook its subscription.
NoPanic == closed \cap (clients \cup subscribe) = {}

\* Updates can overtake each other between the commit and the hub, but only those
\* of trades in flight together: no update goes out before that of a trade whose
\* trader had been answered when this one asked.
UpdatesInRealTimeOrder ==
    \A i, j \in DOMAIN sent : i < j => sent[j] \notin before[sent[i]]

Listening ==
    [c \in Clients |->
        IF c \in closed THEN "after" ELSE IF c \in clients THEN "during" ELSE "before"]

Contract == INSTANCE Feed WITH published <- taken, listening <- Listening, inbox <- send

\* The hub's loop and its channels keep the promise to the subscribers, in
\* whatever order the goroutines' messages are taken.
FeedContract == Contract!Spec

Due(c) == {i \in joinedAt[c] + 1 .. taken : Watches(c, market[sent[i]])}

\* A subscriber that no message was dropped for has been sent the updates of its
\* markets since it was registered, and no others - those of pool trades, that is.
PoolUpdatesSent ==
    \A c \in clients \ dropped : ToSet(send[c]) = {i \in Due(c) : sent[i] \notin OptionTrades}

\* Everybody who trades gets an answer, however slow the subscribers are: nobody
\* waits for the hub for ever, unless the process ends first.
EveryTradeAnswered ==
    \A t \in Trades : call[t] = "executing" ~> (call[t] = "answered" \/ stage = "exited")

\* A client that is registered when its connection breaks is removed.  (One that
\* is registered only after its unsubscription was taken stays for ever.)
LeaversRemoved ==
    \A c \in Clients :
        (conn[c] = "leaving" /\ c \in clients) ~> (c \notin clients \/ stage = "exited")

-----------------------------------------------------------------------------
(* What the documents say and the code does not do                         *)

\* ARCHITECTURE.md: "Clients subscribed to this market_id -> message sent".  The
\* update of an option trade cannot be encoded and goes to nobody.
EveryUpdateSent == \A c \in clients \ dropped : ToSet(send[c]) = Due(c)
=============================================================================
