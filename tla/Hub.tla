------------------------------- MODULE Hub -------------------------------
(***************************************************************************)
(* The websocket hub (internal/ws): the loop of Hub.Run, which alone       *)
(* touches the set of clients, and the goroutines around it, which reach it *)
(* through bounded channels.                                               *)
(*                                                                         *)
(* The channels subscribe and unsubscribe hold a client at most once each, *)
(* and which of the waiting clients is first makes no difference, so they  *)
(* are sets.  The channels whose order matters are logs with a cursor: sent *)
(* is everything ever put into broadcast, of which the hub has taken the   *)
(* first taken; send[c] is everything ever put into c's channel, as        *)
(* positions in sent, of which the client has read the first read[c].      *)
(***************************************************************************)
EXTENDS Integers, FiniteSets, Sequences

CONSTANTS
    Clients,        \* connections, each used once
    Trades,         \* calls of trade.Service.Execute; their updates are the messages
    Markets,
    AllMarkets,     \* the empty market_id: every market
    watch,          \* client.marketID, of each client
    BroadcastCap,   \* capacity of the channel broadcast (1024)
    SubscribeCap,   \* capacity of the channels subscribe and unsubscribe (256)
    SendCap         \* capacity of a client's channel (256)

ASSUME HubAssumption ==
    /\ AllMarkets \notin Markets
    /\ watch \in [Clients -> Markets \cup {AllMarkets}]
    /\ BroadcastCap \in Nat \ {0}
    /\ SubscribeCap \in Nat \ {0}
    /\ SendCap \in Nat \ {0}

VARIABLES
    conn,           \* each client's handler: away, connected, leaving, gone
    subscribe,      \* clients in the channel subscribe
    unsubscribe,    \* clients in the channel unsubscribe
    sent, taken,    \* the channel broadcast
    clients,        \* Hub.clients
    send, read,     \* the channels client.send
    closed,         \* clients whose channel send is closed
    shutdown,       \* the channel shutdown is closed
    stopped,        \* Run has returned
    \* History
    joinedAt,       \* taken when the client was registered
    dropped         \* clients that a message was dropped for

channels == <<subscribe, unsubscribe, clients, closed, joinedAt>>
mail == <<sent, taken, send, read, dropped>>
hubVars == <<conn, channels, mail, shutdown, stopped>>

HubTypeOK ==
    /\ conn \in [Clients -> {"away", "connected", "leaving", "gone"}]
    /\ subscribe \subseteq Clients
    /\ unsubscribe \subseteq Clients
    /\ sent \in Seq(Trades)
    /\ taken \in 0..Len(sent)
    /\ clients \subseteq Clients
    /\ send \in [Clients -> Seq(Nat)]
    /\ read \in [Clients -> Nat]
    /\ closed \subseteq Clients
    /\ shutdown \in BOOLEAN
    /\ stopped \in BOOLEAN
    /\ joinedAt \in [Clients -> Nat]
    /\ dropped \subseteq Clients

HubInit ==
    /\ conn = [c \in Clients |-> "away"]
    /\ subscribe = {}
    /\ unsubscribe = {}
    /\ sent = <<>>
    /\ taken = 0
    /\ clients = {}
    /\ send = [c \in Clients |-> <<>>]
    /\ read = [c \in Clients |-> 0]
    /\ closed = {}
    /\ shutdown = FALSE
    /\ stopped = FALSE
    /\ joinedAt = [c \in Clients |-> 0]
    /\ dropped = {}

-----------------------------------------------------------------------------
(* The websocket handler, a goroutine per connection                       *)

\* Upgrade, then hub.subscribe <- c, which waits while the channel is full.
Subscribe(c) ==
    /\ conn[c] = "away"
    /\ Cardinality(subscribe) < SubscribeCap
    /\ subscribe' = subscribe \cup {c}
    /\ conn' = [conn EXCEPT ![c] = "connected"]
    /\ UNCHANGED <<unsubscribe, clients, closed, joinedAt, mail, shutdown, stopped>>

\* The read pump fails.
Disconnect(c) ==
    /\ conn[c] = "connected"
    /\ conn' = [conn EXCEPT ![c] = "leaving"]
    /\ UNCHANGED <<channels, mail, shutdown, stopped>>

\* Faulty variant: a leaver does not wait for a full channel and is forgotten.
UnsubscribesIfRoom(c) ==
    /\ conn[c] = "leaving"
    /\ unsubscribe' = IF Cardinality(unsubscribe) < SubscribeCap
                      THEN unsubscribe \cup {c} ELSE unsubscribe
    /\ conn' = [conn EXCEPT ![c] = "gone"]
    /\ UNCHANGED <<subscribe, clients, closed, joinedAt, mail, shutdown, stopped>>

\* The deferred hub.unsubscribe <- c, which waits while the channel is full.
Unsubscribe(c) ==
    /\ conn[c] = "leaving"
    /\ Cardinality(unsubscribe) < SubscribeCap
    /\ unsubscribe' = unsubscribe \cup {c}
    /\ conn' = [conn EXCEPT ![c] = "gone"]
    /\ UNCHANGED <<subscribe, clients, closed, joinedAt, mail, shutdown, stopped>>

\* The write pump takes a message.  One that is slow, or that has ended with a
\* failed write while the client is still registered, just takes no more.
Receive(c) ==
    /\ read[c] < Len(send[c])
    /\ read' = [read EXCEPT ![c] = @ + 1]
    /\ UNCHANGED <<conn, channels, sent, taken, send, dropped, shutdown, stopped>>

-----------------------------------------------------------------------------
(* Hub.Run: one case of its select per action                              *)

TakeSubscribe(c) ==
    /\ ~stopped
    /\ c \in subscribe
    /\ subscribe' = subscribe \ {c}
    /\ clients' = clients \cup {c}
    /\ joinedAt' = [joinedAt EXCEPT ![c] = taken]
    /\ UNCHANGED <<conn, unsubscribe, closed, mail, shutdown, stopped>>

\* Faulty variant: the channel is closed whether or not the client is known.
ClosesUnknown(c) ==
    /\ ~stopped
    /\ c \in unsubscribe
    /\ unsubscribe' = unsubscribe \ {c}
    /\ clients' = clients \ {c}
    /\ closed' = closed \cup {c}
    /\ UNCHANGED <<conn, subscribe, joinedAt, mail, shutdown, stopped>>

\* Faulty variant: the channel is closed and the client stays in the map.
ForgetsDelete(c) ==
    /\ ~stopped
    /\ c \in unsubscribe
    /\ unsubscribe' = unsubscribe \ {c}
    /\ closed' = closed \cup ({c} \cap clients)
    /\ UNCHANGED <<conn, subscribe, clients, joinedAt, mail, shutdown, stopped>>

\* A client that is not known yet, because select took this case before the one
\* of its subscription, is passed over, and registered for good afterwards.
TakeUnsubscribe(c) ==
    /\ ~stopped
    /\ c \in unsubscribe
    /\ unsubscribe' = unsubscribe \ {c}
    /\ clients' = clients \ {c}
    /\ closed' = closed \cup ({c} \cap clients)
    /\ UNCHANGED <<conn, subscribe, joinedAt, mail, shutdown, stopped>>

\* c.marketID == "" || c.marketID == msg.MarketID
Watches(c, m) == watch[c] \in {AllMarkets, m}

HasRoom(c) == Len(send[c]) - read[c] < SendCap

\* Faulty variant: the loop ends at a slow client instead of passing it over.
DeliverBreaks(encodable, m) ==
    LET to == IF encodable THEN {c \in clients : Watches(c, m)} ELSE {}
        slow == {c \in to : ~HasRoom(c)}
    IN IF slow = {}
       THEN /\ send' = [c \in Clients |->
                           IF c \in to THEN Append(send[c], taken + 1) ELSE send[c]]
            /\ UNCHANGED dropped
       ELSE \E c \in slow : dropped' = dropped \cup {c} /\ UNCHANGED send

\* json.Marshal fails, or the message goes to every client that watches its
\* market m; for one whose channel is full it is dropped.
Deliver(encodable, m) ==
    LET to == IF encodable THEN {c \in clients : Watches(c, m)} ELSE {}
    IN /\ send' = [c \in Clients |->
                      IF c \in to /\ HasRoom(c) THEN Append(send[c], taken + 1) ELSE send[c]]
       /\ dropped' = dropped \cup {c \in to : ~HasRoom(c)}

TakeBroadcast(encodable, m) ==
    /\ ~stopped
    /\ taken < Len(sent)
    /\ taken' = taken + 1
    /\ Deliver(encodable, m)
    /\ UNCHANGED <<conn, channels, sent, read, shutdown, stopped>>

\* The case of the shutdown: closeAll, and Run returns.
Stop ==
    /\ shutdown
    /\ ~stopped
    /\ stopped' = TRUE
    /\ closed' = closed \cup clients
    /\ clients' = {}
    /\ UNCHANGED <<conn, subscribe, unsubscribe, joinedAt, mail, shutdown>>

-----------------------------------------------------------------------------
(* What others call                                                        *)

\* Hub.Broadcast: waits while the channel is full.
Broadcast(t) ==
    /\ Len(sent) - taken < BroadcastCap
    /\ sent' = Append(sent, t)
    /\ UNCHANGED <<conn, channels, taken, send, read, dropped, shutdown, stopped>>

\* Hub.Shutdown
Shutdown ==
    /\ shutdown' = TRUE
    /\ UNCHANGED <<conn, channels, mail, stopped>>
=============================================================================
