--------------------------- MODULE TradeFeedProofs ---------------------------
(***************************************************************************)
(* Proofs about TradeFeed and Hub, for any clients, calls, markets and     *)
(* capacities.                                                             *)
(***************************************************************************)
EXTENDS TradeFeed, TLAPS

USE HubAssumption, CallAssumption DEF HubAssumption, CallAssumption

-----------------------------------------------------------------------------
(* Types                                                                   *)

LEMMA DeliverTypes ==
  ASSUME FeedTypeOK, NEW encodable, NEW m, Deliver(encodable, m)
  PROVE  send' \in [Clients -> Seq(Nat)] /\ dropped' \subseteq Clients
<1>1. taken + 1 \in Nat
  BY DEF FeedTypeOK, HubTypeOK
<1>2. \A c \in Clients : send[c] \in Seq(Nat) /\ Append(send[c], taken + 1) \in Seq(Nat)
  BY <1>1 DEF FeedTypeOK, HubTypeOK
<1>3. QED BY <1>2 DEF Deliver, FeedTypeOK, HubTypeOK

LEMMA HubStepTypes ==
  ASSUME FeedTypeOK, HubStep
  PROVE  HubTypeOK'
<1>1. CASE Stop
  BY <1>1 DEF Stop, FeedTypeOK, HubTypeOK, mail
<1>2. CASE Fan
  <2>1. PICK t : TakeBroadcast(Encodable(t), market[t])
    BY <1>2 DEF Fan
  <2>2. taken' \in 0..Len(sent)'
    BY <2>1 DEF TakeBroadcast, FeedTypeOK, HubTypeOK
  <2>3. send' \in [Clients -> Seq(Nat)] /\ dropped' \subseteq Clients
    BY <2>1, DeliverTypes DEF TakeBroadcast
  <2>4. QED BY <2>1, <2>2, <2>3 DEF TakeBroadcast, FeedTypeOK, HubTypeOK, channels
<1>3. ASSUME NEW c \in Clients, Subscribe(c) PROVE HubTypeOK'
  BY <1>3 DEF Subscribe, FeedTypeOK, HubTypeOK, mail
<1>4. ASSUME NEW c \in Clients, Disconnect(c) PROVE HubTypeOK'
  BY <1>4 DEF Disconnect, FeedTypeOK, HubTypeOK, mail, channels
<1>5. ASSUME NEW c \in Clients, Unsubscribe(c) PROVE HubTypeOK'
  BY <1>5 DEF Unsubscribe, FeedTypeOK, HubTypeOK, mail
<1>6. ASSUME NEW c \in Clients, Receive(c) PROVE HubTypeOK'
  BY <1>6 DEF Receive, FeedTypeOK, HubTypeOK, channels
<1>7. ASSUME NEW c \in Clients, TakeSubscribe(c) PROVE HubTypeOK'
  BY <1>7 DEF TakeSubscribe, FeedTypeOK, HubTypeOK, mail
<1>8. ASSUME NEW c \in Clients, TakeUnsubscribe(c) PROVE HubTypeOK'
  BY <1>8 DEF TakeUnsubscribe, FeedTypeOK, HubTypeOK, mail
<1>9. QED BY <1>1, <1>2, <1>3, <1>4, <1>5, <1>6, <1>7, <1>8 DEF HubStep

LEMMA CallStepTypes ==
  ASSUME FeedTypeOK, NEW t \in Trades, Begin(t) \/ GoOn(t)
  PROVE  FeedTypeOK'
<1>1. CASE Begin(t)
  BY <1>1 DEF Begin, FeedTypeOK, HubTypeOK, hubVars, channels, mail
<1>2. CASE Commit(t)
  BY <1>2 DEF Commit, FeedTypeOK, HubTypeOK, hubVars, channels, mail
<1>3. ASSUME NEW e \in Failures, AttemptFails(t, e) PROVE FeedTypeOK'
  <2>1. HubTypeOK' /\ stage' = stage /\ before' = before
    BY <1>3 DEF AttemptFails, FeedTypeOK, HubTypeOK, hubVars, channels, mail
  <2>2. commits' \in [Trades -> Nat]
    BY <1>3 DEF AttemptFails, FeedTypeOK
  <2>3. /\ attempt' \in [Trades -> 0..MaxSerializationRetries - 1]
        /\ call' \in [Trades -> {"idle", "executing", "committed", "answered"}]
        /\ answer' \in [Trades -> {"none", "ok", "busy", "error"}]
    BY <1>3 DEF AttemptFails, FeedTypeOK, MayTryAgain, Refusal
  <2>4. QED BY <2>1, <2>2, <2>3 DEF FeedTypeOK
<1>4. CASE Announce(t)
  <2>1. sent' = Append(sent, t) /\ sent' \in Seq(Trades) /\ taken' \in 0..Len(sent')
    BY <1>4 DEF Announce, Broadcast, FeedTypeOK, HubTypeOK
  <2>2. HubTypeOK'
    BY <1>4, <2>1 DEF Announce, Broadcast, FeedTypeOK, HubTypeOK, channels
  <2>3. QED BY <1>4, <2>2 DEF Announce, Reply, FeedTypeOK
<1>5. QED BY <1>1, <1>2, <1>3, <1>4 DEF GoOn

LEMMA InitFeedTypes == FeedInit => FeedTypeOK
<1>1. 0 \in 0..MaxSerializationRetries - 1 /\ 0 \in Nat
  OBVIOUS
<1>2. HubInit => HubTypeOK
  <2>1. HubInit => sent \in Seq(Trades) /\ taken \in 0..Len(sent)
    BY DEF HubInit
  <2>2. HubInit => send \in [Clients -> Seq(Nat)]
    BY DEF HubInit
  <2>3. HubInit => /\ conn \in [Clients -> {"away", "connected", "leaving", "gone"}]
                   /\ read \in [Clients -> Nat] /\ joinedAt \in [Clients -> Nat]
    BY DEF HubInit
  <2>4. QED BY <2>1, <2>2, <2>3 DEF HubInit, HubTypeOK
<1>3. QED BY <1>1, <1>2 DEF FeedInit, FeedTypeOK

LEMMA NextFeedTypes ==
  ASSUME FeedTypeOK, [FeedNext]_feedVars
  PROVE  FeedTypeOK'
<1>1. CASE HubStep /\ UNCHANGED <<stage, calls>>
  BY <1>1, HubStepTypes DEF FeedTypeOK, calls
<1>2. ASSUME NEW t \in Trades, Begin(t) \/ GoOn(t) PROVE FeedTypeOK'
  BY <1>2, CallStepTypes
<1>3. CASE Drain \/ Exit
  BY <1>3 DEF Drain, Exit, FeedTypeOK, HubTypeOK, hubVars, channels, mail, calls
<1>4. CASE ShutdownHub
  BY <1>4 DEF ShutdownHub, Shutdown, FeedTypeOK, HubTypeOK, channels, mail, calls
<1>5. CASE UNCHANGED feedVars
  BY <1>5 DEF feedVars, FeedTypeOK, HubTypeOK, hubVars, channels, mail, calls
<1>6. QED BY <1>1, <1>2, <1>3, <1>4, <1>5 DEF FeedNext

\* Every variable stays within its range: among others, no call makes more
\* attempts than it may.
THEOREM FeedTypeCorrect == FeedSpec => []FeedTypeOK
  BY InitFeedTypes, NextFeedTypes, PTL DEF FeedSpec

-----------------------------------------------------------------------------
(* Registration                                                            *)

\* A connection is subscribed once: before that the hub has never seen it, a
\* waiting subscription is not registered yet, and nobody is sent anything before
\* the registration.
SubscribedOnce ==
    /\ \A c \in Clients : conn[c] = "away" => c \notin subscribe \cup clients \cup closed
    /\ subscribe \cap clients = {}
    /\ \A c \in Clients \ (clients \cup closed) : send[c] = <<>>

RegInv == FeedTypeOK /\ SubscribedOnce /\ NoPanic

regVars == <<conn, subscribe, clients, closed, send>>

LEMMA RegFrame ==
  ASSUME SubscribedOnce, NoPanic, UNCHANGED regVars
  PROVE  SubscribedOnce' /\ NoPanic'
  BY DEF SubscribedOnce, NoPanic, regVars

\* The hub's next message goes to registered clients only.
LEMMA FanEffect ==
  ASSUME FeedTypeOK, Fan
  PROVE  /\ taken < Len(sent) /\ taken' = taken + 1
         /\ \A c \in Clients \ clients : send'[c] = send[c]
         /\ send' \in [Clients -> Seq(Nat)]
         /\ UNCHANGED <<conn, channels, sent, read, shutdown, stopped>>
  <1>1. PICK t : TakeBroadcast(Encodable(t), market[t])
    BY DEF Fan
  <1>2. send' \in [Clients -> Seq(Nat)]
    BY <1>1, DeliverTypes DEF TakeBroadcast
  <1>3. QED BY <1>1, <1>2 DEF TakeBroadcast, Deliver

LEMMA HubStepKeepsReg ==
  ASSUME RegInv, HubStep
  PROVE  SubscribedOnce' /\ NoPanic'
<1> USE DEF RegInv
<1>1. CASE Stop
  BY <1>1 DEF Stop, SubscribedOnce, NoPanic, mail
<1>2. CASE Fan
  BY <1>2, FanEffect DEF SubscribedOnce, NoPanic, channels
<1>3. ASSUME NEW c \in Clients, Subscribe(c) PROVE SubscribedOnce' /\ NoPanic'
  BY <1>3 DEF Subscribe, SubscribedOnce, NoPanic, FeedTypeOK, HubTypeOK, mail
<1>4. ASSUME NEW c \in Clients, Disconnect(c) PROVE SubscribedOnce' /\ NoPanic'
  BY <1>4 DEF Disconnect, SubscribedOnce, NoPanic, FeedTypeOK, HubTypeOK, mail, channels
<1>5. ASSUME NEW c \in Clients, Unsubscribe(c) PROVE SubscribedOnce' /\ NoPanic'
  BY <1>5 DEF Unsubscribe, SubscribedOnce, NoPanic, FeedTypeOK, HubTypeOK, mail
<1>6. ASSUME NEW c \in Clients, Receive(c) PROVE SubscribedOnce' /\ NoPanic'
  BY <1>6, RegFrame DEF Receive, regVars, channels
<1>7. ASSUME NEW c \in Clients, TakeSubscribe(c) PROVE SubscribedOnce' /\ NoPanic'
  BY <1>7 DEF TakeSubscribe, SubscribedOnce, NoPanic, FeedTypeOK, HubTypeOK, mail
<1>8. ASSUME NEW c \in Clients, TakeUnsubscribe(c) PROVE SubscribedOnce' /\ NoPanic'
  BY <1>8 DEF TakeUnsubscribe, SubscribedOnce, NoPanic, FeedTypeOK, HubTypeOK, mail
<1>9. QED BY <1>1, <1>2, <1>3, <1>4, <1>5, <1>6, <1>7, <1>8 DEF HubStep

\* What the other actions leave alone.
LEMMA OthersKeepReg ==
  ASSUME NEW t \in Trades, Begin(t) \/ GoOn(t)
  PROVE  UNCHANGED <<regVars, taken, read, joinedAt, dropped, stage>>
<1>1. CASE Begin(t)
  BY <1>1 DEF Begin, hubVars, channels, mail, regVars
<1>2. CASE Commit(t)
  BY <1>2 DEF Commit, hubVars, channels, mail, regVars
<1>3. ASSUME NEW e \in Failures, AttemptFails(t, e)
      PROVE  UNCHANGED <<regVars, taken, read, joinedAt, dropped, stage>>
  BY <1>3 DEF AttemptFails, hubVars, channels, mail, regVars
<1>4. CASE Announce(t)
  BY <1>4 DEF Announce, Broadcast, channels, regVars
<1>5. QED BY <1>1, <1>2, <1>3, <1>4 DEF GoOn

LEMMA MainKeepsHub ==
  ASSUME Drain \/ Exit \/ ShutdownHub \/ UNCHANGED feedVars
  PROVE  UNCHANGED <<regVars, mail, joinedAt, calls>>
  BY DEF Drain, Exit, ShutdownHub, Shutdown, feedVars, hubVars, channels, mail, regVars

LEMMA NextKeepsReg ==
  ASSUME RegInv, [FeedNext]_feedVars
  PROVE  RegInv'
<1>1. FeedTypeOK'
  BY NextFeedTypes DEF RegInv
<1>2. CASE HubStep
  BY <1>1, <1>2, HubStepKeepsReg DEF RegInv
<1>3. ASSUME NEW t \in Trades, Begin(t) \/ GoOn(t) PROVE RegInv'
  BY <1>1, <1>3, OthersKeepReg, RegFrame DEF RegInv
<1>4. CASE Drain \/ Exit \/ ShutdownHub \/ UNCHANGED feedVars
  BY <1>1, <1>4, MainKeepsHub, RegFrame DEF RegInv
<1>5. QED BY <1>2, <1>3, <1>4 DEF FeedNext

LEMMA InitReg == FeedInit => RegInv
  BY InitFeedTypes DEF RegInv, FeedInit, HubInit, SubscribedOnce, NoPanic

LEMMA RegAlways == FeedSpec => []RegInv
  BY InitReg, NextKeepsReg, PTL DEF FeedSpec

\* The hub never sends on a closed channel and closes none twice, whatever order
\* subscriptions, departures, messages and the shutdown arrive in.
THEOREM NoPanicAlways == FeedSpec => []NoPanic
  BY RegAlways, PTL DEF RegInv

-----------------------------------------------------------------------------
(* The hub implements Feed                                                 *)

LEMMA InitContract == FeedInit => Contract!Init
  BY DEF FeedInit, HubInit, Contract!Init, Listening

LEMMA ListeningFrame ==
  ASSUME UNCHANGED <<clients, closed>>
  PROVE  Listening' = Listening
  BY DEF Listening

\* A message for some registered clients is a publication.
LEMMA FanPublishes ==
  ASSUME RegInv, Fan
  PROVE  Contract!Publish
<1>1. PICK t : TakeBroadcast(Encodable(t), market[t])
  BY DEF Fan
<1>2. PICK to \in SUBSET clients :
          send' = [c \in Clients |->
                      IF c \in to THEN Append(send[c], taken + 1) ELSE send[c]]
  <2> DEFINE all == IF Encodable(t) THEN {c \in clients : Watches(c, market[t])} ELSE {}
  <2>1. send' = [c \in Clients |->
                    IF c \in {d \in all : HasRoom(d)}
                    THEN Append(send[c], taken + 1) ELSE send[c]]
    BY <1>1 DEF TakeBroadcast, Deliver
  <2>2. {d \in all : HasRoom(d)} \in SUBSET clients
    OBVIOUS
  <2>3. QED BY <2>1, <2>2
<1>3. \A c \in clients : c \in Clients /\ Listening[c] = "during"
  BY DEF RegInv, NoPanic, Listening, FeedTypeOK, HubTypeOK
<1>4. to \in SUBSET {c \in Clients : Listening[c] = "during"}
  BY <1>2, <1>3
<1>5. Listening' = Listening
  BY <1>1, ListeningFrame DEF TakeBroadcast, channels
<1>6. taken' = taken + 1
  BY <1>1 DEF TakeBroadcast
<1>7. QED BY <1>2, <1>4, <1>5, <1>6 DEF Contract!Publish

LEMMA HubStepContract ==
  ASSUME RegInv, HubStep
  PROVE  Contract!Next \/ UNCHANGED Contract!feedVars
<1> DEFINE Goal == Contract!Next \/ UNCHANGED Contract!feedVars
<1> USE DEF RegInv
<1>0. ASSUME UNCHANGED <<taken, send, clients, closed>> PROVE Goal
  BY <1>0, ListeningFrame DEF Contract!feedVars
<1>1. CASE Stop
  <2>1. clients \subseteq {c \in Clients : Listening[c] = "during"}
    BY DEF NoPanic, Listening, FeedTypeOK, HubTypeOK
  <2>2. Listening' = [c \in Clients |-> IF c \in clients THEN "after" ELSE Listening[c]]
    BY <1>1 DEF Stop, Listening
  <2>3. UNCHANGED <<taken, send>>
    BY <1>1 DEF Stop, mail
  <2>4. Contract!Leave(clients) /\ clients \in SUBSET Clients
    BY <2>1, <2>2, <2>3 DEF Contract!Leave, FeedTypeOK, HubTypeOK
  <2>5. QED BY <2>4 DEF Contract!Next
<1>2. CASE Fan
  BY <1>2, FanPublishes DEF Contract!Next
<1>3. ASSUME NEW c \in Clients,
             Subscribe(c) \/ Disconnect(c) \/ Unsubscribe(c) \/ Receive(c)
      PROVE  Goal
  BY <1>3, <1>0 DEF Subscribe, Disconnect, Unsubscribe, Receive, channels, mail
<1>4. ASSUME NEW c \in Clients, TakeSubscribe(c) PROVE Goal
  <2>1. Listening[c] = "before"
    BY <1>4 DEF TakeSubscribe, SubscribedOnce, NoPanic, Listening
  <2>2. Listening' = [Listening EXCEPT ![c] = "during"]
    BY <1>4 DEF TakeSubscribe, NoPanic, Listening
  <2>3. Contract!Join(c)
    BY <1>4, <2>1, <2>2 DEF Contract!Join, TakeSubscribe, mail
  <2>4. QED BY <2>3 DEF Contract!Next
<1>5. ASSUME NEW c \in Clients, TakeUnsubscribe(c) PROVE Goal
  <2> DEFINE known == {c} \cap clients
  <2>1. known \subseteq {d \in Clients : Listening[d] = "during"}
    BY DEF NoPanic, Listening, FeedTypeOK, HubTypeOK
  <2>2. Listening' = [d \in Clients |-> IF d \in known THEN "after" ELSE Listening[d]]
    BY <1>5 DEF TakeUnsubscribe, Listening
  <2>3. UNCHANGED <<taken, send>>
    BY <1>5 DEF TakeUnsubscribe, mail
  <2>4. Contract!Leave(known) /\ known \in SUBSET Clients
    BY <2>1, <2>2, <2>3 DEF Contract!Leave
  <2>5. QED BY <2>4 DEF Contract!Next
<1>6. QED BY <1>1, <1>2, <1>3, <1>4, <1>5 DEF HubStep

LEMMA NextContract ==
  ASSUME RegInv, [FeedNext]_feedVars
  PROVE  [Contract!Next]_Contract!feedVars
<1>1. CASE HubStep
  BY <1>1, HubStepContract
<1>2. ASSUME NEW t \in Trades, Begin(t) \/ GoOn(t)
      PROVE  UNCHANGED Contract!feedVars
  BY <1>2, OthersKeepReg, ListeningFrame DEF regVars, Contract!feedVars
<1>3. CASE Drain \/ Exit \/ ShutdownHub \/ UNCHANGED feedVars
  BY <1>3, MainKeepsHub, ListeningFrame DEF regVars, mail, Contract!feedVars
<1>4. QED BY <1>1, <1>2, <1>3 DEF FeedNext

\* The hub implements Feed: every subscriber gets a selection of the updates of its
\* subscription, once each and in the hub's order.
THEOREM HubImplementsFeed == FeedSpec => FeedContract
  BY RegAlways, InitContract, NextContract, PTL
     DEF FeedSpec, FeedContract, Contract!Spec

-----------------------------------------------------------------------------
(* What a trader is told, and the order of the updates                     *)

\* Each call's phase, its answer, its commits and its update belong together.
CallsAgree ==
    \A t \in Trades :
        /\ answer[t] # "none" <=> call[t] = "answered"
        /\ call[t] \in {"idle", "executing"} => commits[t] = 0
        /\ call[t] = "committed" => commits[t] = 1
        /\ commits[t] <= 1
        /\ answer[t] = "ok" => commits[t] = 1
        /\ answer[t] = "busy" => commits[t] = 0
        /\ t \in ToSet(sent) <=> answer[t] = "ok"

\* What came before a call was answered, and stays so.
BeforeAnswered == \A t \in Trades : \A s \in before[t] : answer[s] # "none"

CallInv == FeedTypeOK /\ CallsAgree /\ BeforeAnswered /\ UpdatesInRealTimeOrder

LEMMA ToSetAppend ==
  ASSUME NEW S, NEW s \in Seq(S), NEW x \in S
  PROVE  ToSet(Append(s, x)) = ToSet(s) \cup {x}
<1>1. /\ DOMAIN s = 1..Len(s) /\ Len(s) \in Nat
      /\ DOMAIN Append(s, x) = 1..Len(s) + 1
      /\ Append(s, x)[Len(s) + 1] = x
      /\ \A i \in 1..Len(s) : Append(s, x)[i] = s[i]
  OBVIOUS
<1>2. 1..Len(s) + 1 = 1..Len(s) \cup {Len(s) + 1}
  BY <1>1
<1>3. QED BY <1>1, <1>2 DEF ToSet

LEMMA LastOrBefore ==
  ASSUME NEW n \in Nat, NEW j \in 1..n + 1
  PROVE  j = n + 1 \/ j \in 1..n
  OBVIOUS

LEMMA CallFrame ==
  ASSUME CallInv, UNCHANGED <<calls, sent>>
  PROVE  CallsAgree' /\ BeforeAnswered' /\ UpdatesInRealTimeOrder'
  BY DEF CallInv, CallsAgree, BeforeAnswered, UpdatesInRealTimeOrder, calls

LEMMA HubStepKeepsSent ==
  ASSUME HubStep
  PROVE  UNCHANGED sent
<1>1. CASE Fan
  BY <1>1 DEF Fan, TakeBroadcast
<1>2. CASE ~Fan
  BY <1>2 DEF HubStep, Stop, Subscribe, Disconnect, Unsubscribe, Receive,
              TakeSubscribe, TakeUnsubscribe, mail
<1>3. QED BY <1>1, <1>2

LEMMA BeginKeepsCalls ==
  ASSUME CallInv, NEW t \in Trades, Begin(t)
  PROVE  CallsAgree' /\ BeforeAnswered' /\ UpdatesInRealTimeOrder'
<1> USE DEF CallInv, FeedTypeOK
<1>1. UNCHANGED <<sent, answer, commits>> /\ answer[t] = "none" /\ t \notin ToSet(sent)
  BY DEF Begin, hubVars, mail, CallsAgree
<1>2. CallsAgree'
  BY <1>1 DEF Begin, CallsAgree
<1>3. BeforeAnswered'
  BY <1>1 DEF Begin, BeforeAnswered
<1>4. \A i \in DOMAIN sent : sent[i] # t /\ before'[sent[i]] = before[sent[i]]
  BY <1>1 DEF Begin, ToSet, HubTypeOK
<1>5. UpdatesInRealTimeOrder'
  BY <1>1, <1>4 DEF UpdatesInRealTimeOrder
<1>6. QED BY <1>2, <1>3, <1>5

LEMMA AttemptKeepsCalls ==
  ASSUME CallInv, NEW t \in Trades, Commit(t) \/ \E e \in Failures : AttemptFails(t, e)
  PROVE  CallsAgree' /\ BeforeAnswered' /\ UpdatesInRealTimeOrder'
<1> USE DEF CallInv, FeedTypeOK
<1>1. UNCHANGED <<sent, before>>
  BY DEF Commit, AttemptFails, hubVars, mail
<1>2. answer[t] = "none" /\ commits[t] = 0 /\ t \notin ToSet(sent)
  BY DEF Commit, AttemptFails, CallsAgree
<1>3. CallsAgree'
  <2>1. CASE Commit(t)
    BY <1>1, <1>2, <2>1 DEF Commit, CallsAgree
  <2>2. ASSUME NEW e \in Failures, AttemptFails(t, e) PROVE CallsAgree'
    <3>1. PICK done \in (IF e = "lost" THEN {0, 1} ELSE {0}) :
              commits' = [commits EXCEPT ![t] = @ + done]
      BY <2>2 DEF AttemptFails
    <3>2. done \in {0, 1} /\ (Retryable(e) => done = 0)
      BY <3>1 DEF Retryable
    <3>3. commits'[t] = done /\ \A s \in Trades \ {t} : commits'[s] = commits[s]
      BY <1>2, <3>1, <3>2
    <3>4. CASE Retryable(e) /\ MayTryAgain(t)
      BY <1>1, <1>2, <2>2, <3>2, <3>3, <3>4 DEF AttemptFails, CallsAgree
    <3>5. CASE ~(Retryable(e) /\ MayTryAgain(t))
      <4>1. /\ call' = [call EXCEPT ![t] = "answered"]
            /\ answer' = [answer EXCEPT ![t] = Refusal(t, e)]
        BY <2>2, <3>5 DEF AttemptFails
      <4>2. Refusal(t, e) \in {"busy", "error"} /\ (Refusal(t, e) = "busy" => done = 0)
        BY <3>2 DEF Refusal
      <4>3. QED BY <1>1, <1>2, <3>2, <3>3, <4>1, <4>2 DEF CallsAgree
    <3>6. QED BY <3>4, <3>5
  <2>3. QED BY <2>1, <2>2
<1>4. \A s \in Trades : answer[s] # "none" => answer'[s] # "none"
  BY <1>2 DEF Commit, AttemptFails
<1>5. BeforeAnswered'
  BY <1>1, <1>4 DEF BeforeAnswered
<1>6. UpdatesInRealTimeOrder'
  BY <1>1 DEF UpdatesInRealTimeOrder
<1>7. QED BY <1>3, <1>5, <1>6

LEMMA AnnounceKeepsCalls ==
  ASSUME CallInv, NEW t \in Trades, Announce(t)
  PROVE  CallsAgree' /\ BeforeAnswered' /\ UpdatesInRealTimeOrder'
<1> USE DEF CallInv, FeedTypeOK, HubTypeOK
<1>1. /\ sent' = Append(sent, t) /\ UNCHANGED <<commits, before>>
      /\ call[t] = "committed" /\ answer[t] = "none"
      /\ call' = [call EXCEPT ![t] = "answered"]
      /\ answer' = [answer EXCEPT ![t] = "ok"]
  BY DEF Announce, Broadcast, Reply, CallsAgree
<1>2. ToSet(sent') = ToSet(sent) \cup {t}
  BY <1>1, ToSetAppend
<1>3. CallsAgree'
  BY <1>1, <1>2 DEF CallsAgree
<1>4. BeforeAnswered'
  BY <1>1 DEF BeforeAnswered
<1>5. \A s \in Trades : t \notin before[s]
  BY <1>1 DEF BeforeAnswered
<1>6. UpdatesInRealTimeOrder'
  <2>1. /\ DOMAIN sent' = 1..Len(sent) + 1 /\ DOMAIN sent = 1..Len(sent) /\ Len(sent) \in Nat
        /\ sent'[Len(sent) + 1] = t
        /\ \A i \in 1..Len(sent) : sent'[i] = sent[i] /\ sent[i] \in Trades
    BY <1>1
  <2> SUFFICES ASSUME NEW i \in 1..Len(sent) + 1, NEW j \in 1..Len(sent) + 1, i < j
               PROVE  sent'[j] \notin before[sent'[i]]
    BY <1>1, <2>1 DEF UpdatesInRealTimeOrder
  <2>2. i \in 1..Len(sent)
    BY <2>1
  <2>3. CASE j = Len(sent) + 1
    BY <1>5, <2>1, <2>2, <2>3
  <2>4. CASE j \in 1..Len(sent)
    BY <2>1, <2>2, <2>4 DEF UpdatesInRealTimeOrder
  <2>5. j = Len(sent) + 1 \/ j \in 1..Len(sent)
    BY <2>1, LastOrBefore
  <2>6. QED BY <2>3, <2>4, <2>5
<1>7. QED BY <1>3, <1>4, <1>6

LEMMA NextKeepsCalls ==
  ASSUME CallInv, [FeedNext]_feedVars
  PROVE  CallInv'
<1>1. FeedTypeOK'
  BY NextFeedTypes DEF CallInv
<1>2. CASE HubStep /\ UNCHANGED <<stage, calls>>
  BY <1>1, <1>2, HubStepKeepsSent, CallFrame DEF CallInv
<1>3. ASSUME NEW t \in Trades, Begin(t) \/ GoOn(t) PROVE CallInv'
  BY <1>1, <1>3, BeginKeepsCalls, AttemptKeepsCalls, AnnounceKeepsCalls DEF GoOn, CallInv
<1>4. CASE Drain \/ Exit \/ ShutdownHub \/ UNCHANGED feedVars
  BY <1>1, <1>4, MainKeepsHub, CallFrame DEF CallInv, mail
<1>5. QED BY <1>2, <1>3, <1>4 DEF FeedNext

LEMMA InitCalls == FeedInit => CallInv
<1>1. FeedInit => ToSet(sent) = {}
  BY DEF FeedInit, HubInit, ToSet
<1>2. QED
  BY <1>1, InitFeedTypes
     DEF FeedInit, HubInit, CallInv, CallsAgree, BeforeAnswered, UpdatesInRealTimeOrder

LEMMA CallsAlways == FeedSpec => []CallInv
  BY InitCalls, NextKeepsCalls, PTL DEF FeedSpec

\* A trade is made at most once however often it is tried, and what the trader is
\* told of it is true.
THEOREM AnswersTellTruthAlways == FeedSpec => []AnswersTellTruth
<1>1. CallInv => AnswersTellTruth
  BY DEF CallInv, CallsAgree, AnswersTellTruth
<1>2. QED BY <1>1, CallsAlways, PTL

\* No update goes out before that of a trade that had been answered when this one
\* was asked for.
THEOREM UpdatesInRealTimeOrderAlways == FeedSpec => []UpdatesInRealTimeOrder
  BY CallsAlways, PTL DEF CallInv

-----------------------------------------------------------------------------
(* What a subscriber is sent                                               *)

JoinedBefore == \A c \in clients : joinedAt[c] <= taken

SentInv == RegInv /\ JoinedBefore /\ PoolUpdatesSent

\* The pool updates that are due to c.
DuePool(c) == {i \in Due(c) : sent[i] \notin OptionTrades}

LEMMA SentFrame ==
  ASSUME SentInv, clients' \subseteq clients, dropped' = dropped,
         UNCHANGED <<joinedAt, taken, send, sent>>
  PROVE  JoinedBefore' /\ PoolUpdatesSent'
  BY DEF SentInv, JoinedBefore, PoolUpdatesSent, Due, Watches

LEMMA OneMore ==
  ASSUME NEW a \in Nat, NEW b \in Nat, a <= b
  PROVE  a + 1 .. b + 1 = (a + 1 .. b) \cup {b + 1}
<1>1. \A i : i \in a + 1 .. b + 1 => i \in (a + 1 .. b) \cup {b + 1}
  OBVIOUS
<1>2. \A i : i \in (a + 1 .. b) \cup {b + 1} => i \in a + 1 .. b + 1
  OBVIOUS
<1>3. QED BY <1>1, <1>2

LEMMA FanSends ==
  ASSUME SentInv, Fan
  PROVE  JoinedBefore' /\ PoolUpdatesSent'
<1> USE DEF SentInv, RegInv, FeedTypeOK, HubTypeOK
<1> DEFINE t == sent[taken + 1]
<1>1. /\ taken < Len(sent) /\ taken' = taken + 1 /\ Deliver(Encodable(t), market[t])
      /\ UNCHANGED <<clients, joinedAt, sent>>
  BY DEF Fan, TakeBroadcast, channels
<1>2. JoinedBefore'
  BY <1>1 DEF JoinedBefore
<1>3. ASSUME NEW c \in clients, c \notin dropped'
      PROVE  ToSet(send'[c]) = DuePool(c)'
  <2>1. /\ c \in Clients /\ c \notin dropped /\ joinedAt[c] \in Nat /\ joinedAt[c] <= taken
        /\ send[c] \in Seq(Nat) /\ taken \in Nat /\ taken + 1 \in Nat
    BY <1>1, <1>3 DEF Deliver, JoinedBefore
  <2>2. ToSet(send[c]) = DuePool(c)
    BY <1>3, <2>1 DEF PoolUpdatesSent, DuePool
  <2>3. joinedAt[c] + 1 .. taken + 1 = (joinedAt[c] + 1 .. taken) \cup {taken + 1}
    BY <2>1, OneMore
  <2>4. Due(c)' = Due(c) \cup (IF Watches(c, market[t]) THEN {taken + 1} ELSE {})
    BY <1>1, <2>3 DEF Due, Watches
  <2>5. CASE Encodable(t) /\ Watches(c, market[t])
    <3>1. send'[c] = Append(send[c], taken + 1)
      BY <1>1, <1>3, <2>1, <2>5 DEF Deliver
    <3>2. ToSet(send'[c]) = ToSet(send[c]) \cup {taken + 1}
      <4>1. ToSet(Append(send[c], taken + 1)) = ToSet(send[c]) \cup {taken + 1}
        <5> HIDE DEF SentInv, RegInv, FeedTypeOK, HubTypeOK
        <5> QED BY <2>1, ToSetAppend
      <4>2. QED BY <3>1, <4>1
    <3>3. DuePool(c)' = DuePool(c) \cup {taken + 1}
      BY <1>1, <2>4, <2>5 DEF DuePool, Encodable
    <3>4. QED BY <2>2, <3>2, <3>3
  <2>6. CASE ~(Encodable(t) /\ Watches(c, market[t]))
    <3>1. send'[c] = send[c]
      BY <1>1, <2>1, <2>6 DEF Deliver
    <3>2. DuePool(c)' = DuePool(c)
      BY <1>1, <2>4, <2>6 DEF DuePool, Encodable
    <3>3. QED BY <2>2, <3>1, <3>2
  <2>7. QED BY <2>5, <2>6
<1>4. PoolUpdatesSent'
  BY <1>1, <1>3 DEF PoolUpdatesSent, DuePool
<1>5. QED BY <1>2, <1>4

LEMMA TakeSubscribeSends ==
  ASSUME SentInv, NEW c \in Clients, TakeSubscribe(c)
  PROVE  JoinedBefore' /\ PoolUpdatesSent'
<1> USE DEF SentInv, RegInv, FeedTypeOK, HubTypeOK
<1>1. /\ clients' = clients \cup {c} /\ joinedAt' = [joinedAt EXCEPT ![c] = taken]
      /\ UNCHANGED <<sent, taken, send, dropped>>
      /\ c \in subscribe
  BY DEF TakeSubscribe, mail
<1>2. c \notin clients /\ send[c] = <<>>
  BY <1>1 DEF SubscribedOnce, NoPanic
<1>3. JoinedBefore'
  BY <1>1 DEF JoinedBefore
<1>4. ToSet(send'[c]) = {} /\ Due(c)' = {}
  <2>1. joinedAt'[c] = taken /\ taken \in Nat
    BY <1>1
  <2>2. joinedAt'[c] + 1 .. taken' = {}
    BY <1>1, <2>1
  <2>3. QED BY <1>1, <1>2, <2>2 DEF Due, ToSet
<1>5. \A d \in clients \ dropped :
          ToSet(send'[d]) = {i \in Due(d)' : sent'[i] \notin OptionTrades}
  BY <1>1, <1>2 DEF PoolUpdatesSent, Due, Watches
<1>6. PoolUpdatesSent'
  BY <1>1, <1>4, <1>5 DEF PoolUpdatesSent
<1>7. QED BY <1>3, <1>6

LEMMA HubStepSends ==
  ASSUME SentInv, HubStep
  PROVE  JoinedBefore' /\ PoolUpdatesSent'
<1>1. CASE Fan
  BY <1>1, FanSends
<1>2. CASE Stop
  BY <1>2, SentFrame DEF Stop, mail
<1>3. ASSUME NEW c \in Clients,
             \/ Subscribe(c) \/ Disconnect(c) \/ Unsubscribe(c) \/ Receive(c)
             \/ TakeUnsubscribe(c)
      PROVE  JoinedBefore' /\ PoolUpdatesSent'
  BY <1>3, SentFrame
     DEF Subscribe, Disconnect, Unsubscribe, Receive, TakeUnsubscribe, channels, mail
<1>4. ASSUME NEW c \in Clients, TakeSubscribe(c)
      PROVE  JoinedBefore' /\ PoolUpdatesSent'
  BY <1>4, TakeSubscribeSends
<1>5. QED BY <1>1, <1>2, <1>3, <1>4 DEF HubStep

\* A broadcast adds behind what the hub has taken.
LEMMA AnnounceSends ==
  ASSUME SentInv, NEW t \in Trades, Announce(t)
  PROVE  JoinedBefore' /\ PoolUpdatesSent'
<1> USE DEF SentInv, RegInv, FeedTypeOK, HubTypeOK
<1>1. sent' = Append(sent, t) /\ UNCHANGED <<clients, joinedAt, taken, send, dropped>>
  BY DEF Announce, Broadcast, channels
<1>2. \A i \in 1..taken : sent'[i] = sent[i]
  BY <1>1
<1>3. \A c \in clients : joinedAt[c] + 1 .. taken \subseteq 1..taken
  OBVIOUS
<1>4. ASSUME NEW c \in clients
      PROVE  {i \in Due(c)' : sent'[i] \notin OptionTrades} = DuePool(c)
  <2>1. \A i \in joinedAt[c] + 1 .. taken : sent'[i] = sent[i]
    BY <1>2, <1>3
  <2>2. Due(c)' = Due(c)
    BY <1>1, <2>1 DEF Due, Watches
  <2>3. \A i \in Due(c) : sent'[i] = sent[i]
    BY <2>1 DEF Due
  <2>4. QED BY <2>2, <2>3 DEF DuePool
<1>5. PoolUpdatesSent'
  BY <1>1, <1>4 DEF PoolUpdatesSent, DuePool
<1>6. QED BY <1>1, <1>5 DEF JoinedBefore

LEMMA NextKeepsSent ==
  ASSUME SentInv, [FeedNext]_feedVars
  PROVE  SentInv'
<1>1. RegInv'
  BY NextKeepsReg DEF SentInv
<1>2. CASE HubStep
  BY <1>1, <1>2, HubStepSends DEF SentInv
<1>3. ASSUME NEW t \in Trades, Announce(t) PROVE SentInv'
  BY <1>1, <1>3, AnnounceSends DEF SentInv
<1>4. ASSUME NEW t \in Trades,
             Begin(t) \/ Commit(t) \/ \E e \in Failures : AttemptFails(t, e)
      PROVE  SentInv'
  <2>1. UNCHANGED hubVars
    BY <1>4 DEF Begin, Commit, AttemptFails
  <2>2. QED BY <1>1, <2>1, SentFrame DEF SentInv, hubVars, channels, mail
<1>5. CASE Drain \/ Exit \/ ShutdownHub \/ UNCHANGED feedVars
  BY <1>1, <1>5, MainKeepsHub, SentFrame DEF SentInv, regVars, mail
<1>6. QED BY <1>2, <1>3, <1>4, <1>5 DEF FeedNext, GoOn

LEMMA InitSent == FeedInit => SentInv
  BY InitReg DEF FeedInit, HubInit, SentInv, JoinedBefore, PoolUpdatesSent

\* Who keeps up is sent exactly the updates of the pool trades in the markets it
\* watches, from its registration on.
THEOREM PoolUpdatesSentAlways == FeedSpec => []PoolUpdatesSent
  BY InitSent, NextKeepsSent, PTL DEF FeedSpec, SentInv
=============================================================================
