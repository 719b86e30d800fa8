------------------------------- MODULE Forecast -------------------------------
(***************************************************************************)
(* A forecast question: forecast.Service's CreateQuestion, SubmitForecast  *)
(* and ResolveQuestion with what forecast.Repository does for them.  Their *)
(* transactions are READ COMMITTED and each handler commits several times, *)
(* so the steps below are the statements between which another request or  *)
(* the end of the server can come.  The jobs that the handlers enqueue are *)
(* taken up in JobQueue.                                                   *)
(*                                                                         *)
(* A submission first checks (phase "checked"), then writes its revision   *)
(* in a transaction, which holds the row of its user in                    *)
(* forecast_latest_active ("written"), computes the median of what it sees *)
(* ("computed") and stores it.  Storing waits for whoever holds the row of *)
(* the projection, and no statement that others could see lies between it  *)
(* and the commit: both are Commit.  last_change_bps, and the job it may   *)
(* call for after the commit, are left out: no other step reads them.      *)
(*                                                                         *)
(* Every statement takes a connection of the pool and gives it back, and a *)
(* transaction keeps its own until it ends.  Two handlers keep one for a   *)
(* query while statements for its rows take a second: CreateScores, here   *)
(* also of other questions' resolutions, and market.Repository.List.       *)
(***************************************************************************)
EXTENDS Integers, FiniteSets

CONSTANTS
    Contributors,  \* forecast_question_contributors, the owner among them
    MaxRequests,   \* bound: submissions
    Bps,           \* probability_bps of the submissions
    Outcomes,      \* the outcomes a resolver chooses from
    Connections,   \* MaxConns of the pool
    MaxOthers,     \* bound: resolutions of other questions at a time
    MaxLists,      \* bound: lists of markets at a time
    MaxCutOffs     \* bound: requests given up and ends of the server

Certain == 10000
None == -1

ASSUME ForecastAssumption ==
    /\ Contributors # {} /\ IsFiniteSet(Contributors)
    /\ Bps \subseteq 0 .. Certain
    /\ Outcomes \subseteq {"delivered", "not_delivered", "cancelled"}
    /\ MaxRequests \in Nat
    /\ Connections \in Nat \ {0}
    /\ MaxOthers \in Nat
    /\ MaxLists \in Nat
    /\ MaxCutOffs \in Nat

Requests == 1 .. MaxRequests   \* numbered in the order of their checks

VARIABLES
    status,      \* "none" before the creation, "open", "resolved"
    closed,      \* closes_at has passed
    outcome,     \* forecast_questions.outcome, "none" before the resolution
    creating,    \* CreateQuestion has still to create the shadow market
    shadow,      \* markets.status of the shadow market, "none" without one
    late,        \* history: the shadow market was created after the resolution's sync
    request,     \* the submissions under way
    latest,      \* forecast_latest_active.probability_bps
    official,    \* forecast_projections.official_probability_bps
    snapshot,    \* forecast_snapshots.probability_bps
    score,       \* forecast_score_records: brier_score and outcome_value
    resolution,  \* how far ResolveQuestion got
    enqueued,    \* dedupe keys of the resolution's jobs
    overlapped,  \* history: two submissions' transactions ran side by side
    others,      \* CreateScores of other questions that hold their query's connection
    lists,       \* market.Repository.List that hold theirs
    cutOffs      \* requests of this question given up, and ends of the server

shadowVars == <<creating, shadow, late>>
submitVars == <<request, latest, official, overlapped>>
resolveVars == <<outcome, snapshot, score, resolution>>
nestedVars == <<others, lists>>
forecastVars ==
    <<status, closed, shadowVars, submitVars, resolveVars, enqueued, nestedVars, cutOffs>>

Phases == {"idle", "checked", "written", "computed", "done"}
Probabilities == 0 .. Certain
NoScore == [brier |-> None, value |-> None]
Idle == [phase |-> "idle", user |-> "none", bps |-> 0, median |-> 0]
Done == [Idle EXCEPT !.phase = "done"]

InTransaction == {r \in Requests : request[r].phase \in {"written", "computed"}}

\* The connections kept for a query, with a second one to be taken for its rows.
Nested == others + lists + IF resolution = "scoring" THEN 1 ELSE 0

\* The connections of the pool that nobody has.
Free == Connections - Cardinality(InTransaction) - Nested

ForecastTypeOK ==
    /\ status \in {"none", "open", "resolved"}
    /\ closed \in BOOLEAN
    /\ outcome \in Outcomes \cup {"none"}
    /\ {creating, late} \subseteq BOOLEAN
    /\ shadow \in {"none", "open", "resolved"}
    /\ \A r \in Requests :
          /\ request[r].phase \in Phases
          /\ request[r].user \in Contributors \cup {"none"}
          /\ {request[r].bps, request[r].median} \subseteq Probabilities
    /\ latest \in [Contributors -> Probabilities \cup {None}]
    /\ official \in Probabilities
    /\ snapshot \in [Contributors -> Probabilities \cup {None}]
    /\ \A u \in Contributors : score[u] # NoScore =>
          score[u].brier \in 0 .. (Certain * Certain) /\ score[u].value \in {0, 1}
    /\ resolution \in {"none", "resolved", "synced", "scoring", "done"}
    /\ enqueued \subseteq ({"resolution"} \X Contributors)
    /\ overlapped \in BOOLEAN
    /\ others \in 0 .. MaxOthers
    /\ lists \in 0 .. MaxLists
    /\ cutOffs \in 0 .. MaxCutOffs
    /\ Free >= 0

ForecastInit ==
    /\ status = "none" /\ closed = FALSE /\ outcome = "none"
    /\ creating = FALSE /\ shadow = "none" /\ late = FALSE
    /\ request = [r \in Requests |-> Idle]
    /\ latest = [u \in Contributors |-> None]
    /\ official = 0
    /\ snapshot = [u \in Contributors |-> None]
    /\ score = [u \in Contributors |-> NoScore]
    /\ resolution = "none"
    /\ enqueued = {} /\ overlapped = FALSE
    /\ others = 0 /\ lists = 0 /\ cutOffs = 0

-----------------------------------------------------------------------------
(* CreateQuestion.  Its last commits, the reminders, are jobs of JobQueue.  *)

\* The question, its contributors and an empty projection.
CreateQuestion ==
    /\ status = "none" /\ Free > 0
    /\ status' = "open" /\ creating' = TRUE
    /\ UNCHANGED <<closed, shadow, late, submitVars, resolveVars, enqueued, nestedVars,
                   cutOffs>>

\* CreateShadow and AttachMarket: the market is open, whatever the question is now.
CreateShadowMarket ==
    /\ creating /\ Free > 0
    /\ creating' = FALSE /\ shadow' = "open"
    /\ late' = (resolution \notin {"none", "resolved"})
    /\ UNCHANGED <<status, closed, submitVars, resolveVars, enqueued, nestedVars, cutOffs>>

\* closes_at passes; once the question is resolved nobody looks at it.
Close ==
    /\ status = "open" /\ ~closed
    /\ closed' = TRUE
    /\ UNCHANGED <<status, shadowVars, submitVars, resolveVars, enqueued, nestedVars, cutOffs>>

-----------------------------------------------------------------------------
(* SubmitForecast                                                          *)

TakesForecasts == status = "open" /\ ~closed

Check(r, u, p) ==
    /\ TakesForecasts /\ Free > 0
    /\ \A before \in 1 .. (r - 1) : request[before].phase # "idle"
    /\ request[r].phase = "idle"
    /\ request' = [request EXCEPT
          ![r] = [phase |-> "checked", user |-> u, bps |-> p, median |-> 0]]
    /\ UNCHANGED <<status, closed, shadowVars, latest, official, overlapped,
                   resolveVars, enqueued, nestedVars, cutOffs>>

\* The revision and the upsert in forecast_latest_active: nobody sees them before
\* the commit, but another transaction of the same user waits for it.
Write(r) ==
    /\ \A other \in InTransaction : request[other].user # request[r].user
    /\ request[r].phase = "checked" /\ Free > 0
    /\ request' = [request EXCEPT ![r].phase = "written"]
    /\ overlapped' = (overlapped \/ InTransaction # {})
    /\ UNCHANGED <<status, closed, shadowVars, latest, official,
                   resolveVars, enqueued, nestedVars, cutOffs>>

\* The k-th forecast in ascending order.
Ranked(forecasts, k) ==
    LET users == {u \in Contributors : forecasts[u] # None}
        below(v) == Cardinality({u \in users : forecasts[u] < v})
        upTo(v) == Cardinality({u \in users : forecasts[u] <= v})
    IN  CHOOSE v \in {forecasts[u] : u \in users} : below(v) < k /\ k <= upTo(v)

Count(forecasts) == Cardinality({u \in Contributors : forecasts[u] # None})

\* math.Round of the middle, .5 upwards.
MedianBps(forecasts) ==
    LET mid == Count(forecasts) \div 2
    IN  IF Count(forecasts) % 2 = 1
        THEN Ranked(forecasts, mid + 1)
        ELSE (Ranked(forecasts, mid) + Ranked(forecasts, mid + 1) + 1) \div 2

\* What the transaction of r sees: committed forecasts and its own.
Seen(r) == [latest EXCEPT ![request[r].user] = request[r].bps]

\* Faulty variant: the median is taken before the upsert.
MedianBefore(r) == IF Count(latest) = 0 THEN request[r].bps ELSE MedianBps(latest)

MedianSeen(r) == MedianBps(Seen(r))

Compute(r) ==
    /\ request[r].phase = "written"
    /\ request' = [request EXCEPT ![r] = [@ EXCEPT !.phase = "computed",
                                                  !.median = MedianSeen(r)]]
    /\ UNCHANGED <<status, closed, shadowVars, latest, official, overlapped,
                   resolveVars, enqueued, nestedVars, cutOffs>>

Commit(r) ==
    /\ request[r].phase = "computed"
    /\ request' = [request EXCEPT ![r] = Done]
    /\ latest' = Seen(r)
    /\ official' = request[r].median
    /\ UNCHANGED <<status, closed, shadowVars, overlapped, resolveVars, enqueued, nestedVars,
                   cutOffs>>

-----------------------------------------------------------------------------
(* ResolveQuestion: a commit for each step                                 *)

\* Faulty variant: a question can be resolved again.
ResolvableAgain == status \in {"open", "resolved"}

Resolvable == status = "open"

\* Before or after closes_at: only the status is looked at.  Snapshots are taken in
\* the same transaction, of what is committed.
Resolve(o) ==
    /\ Resolvable /\ Free > 0
    /\ status' = "resolved" /\ outcome' = o
    /\ snapshot' = latest
    /\ resolution' = "resolved"
    /\ UNCHANGED <<closed, shadowVars, submitVars, score, enqueued, nestedVars, cutOffs>>

\* Faulty variant: only a question with forecasts has its market closed.
SyncedIfForecast == IF shadow = "open" /\ \E u \in Contributors : snapshot[u] # None
                    THEN "resolved" ELSE shadow

Synced == IF shadow = "none" THEN shadow ELSE "resolved"

SyncShadow ==
    /\ resolution = "resolved" /\ Free > 0
    /\ shadow' = Synced
    /\ resolution' = "synced"
    /\ UNCHANGED <<status, closed, creating, late, submitVars, outcome, snapshot, score,
                   enqueued, nestedVars, cutOffs>>

\* A question that is cancelled counts as one that was not delivered.
OutcomeValue == IF outcome = "delivered" THEN 1 ELSE 0

\* Faulty variant: the difference is not squared.
BrierUnsquared(p, y) == p - y * Certain

\* (p - y)^2 with p in basis points.
Brier(p, y) == (p - y * Certain) * (p - y * Certain)

\* Faulty variant: the latest forecast is scored, not the one at the resolution.
ScoreOfLatest(u) == [brier |-> Brier(latest[u], OutcomeValue), value |-> OutcomeValue]

ScoreOf(u) == [brier |-> Brier(snapshot[u], OutcomeValue), value |-> OutcomeValue]

Unscored == {u \in Contributors : snapshot[u] # None /\ score[u] = NoScore}

\* The query of CreateScores, which keeps its connection.
QuerySnapshots ==
    /\ resolution = "synced" /\ Free > 0
    /\ resolution' = "scoring"
    /\ UNCHANGED <<status, closed, shadowVars, submitVars, outcome, snapshot, score,
                   enqueued, nestedVars, cutOffs>>

\* One statement for each snapshot, on a second connection.
CreateScore(u) ==
    /\ resolution = "scoring" /\ u \in Unscored /\ Free > 0
    /\ score' = [score EXCEPT ![u] = ScoreOf(u)]
    /\ UNCHANGED <<status, closed, shadowVars, submitVars, outcome, snapshot, resolution,
                   enqueued, nestedVars, cutOffs>>

\* Faulty variant: the rest is not waited for.
SomeScored == Unscored = {} \/ \E u \in Contributors : score[u] # NoScore

AllScored == Unscored = {}

\* The query's connection is given back.  A job for each contributor; errors are
\* ignored, so that some may be missing.
NotifyResolution ==
    /\ resolution = "scoring" /\ AllScored
    /\ resolution' = "done"
    /\ \E told \in SUBSET Contributors :
          enqueued' = enqueued \cup ({"resolution"} \X told)
    /\ UNCHANGED <<status, closed, shadowVars, submitVars, outcome, snapshot, score,
                   nestedVars, cutOffs>>

-----------------------------------------------------------------------------

\* CreateScores of another question: its query, and later the last insert.
OtherQueries ==
    /\ others < MaxOthers /\ Free > 0
    /\ others' = others + 1
    /\ UNCHANGED <<status, closed, shadowVars, submitVars, resolveVars, enqueued, lists, cutOffs>>

OtherEnds ==
    /\ others > 0 /\ Free > 0
    /\ others' = others - 1
    /\ UNCHANGED <<status, closed, shadowVars, submitVars, resolveVars, enqueued, lists, cutOffs>>

\* List: its query, and later the options and snapshots of the last market.
ListQueries ==
    /\ lists < MaxLists /\ Free > 0
    /\ lists' = lists + 1
    /\ UNCHANGED <<status, closed, shadowVars, submitVars, resolveVars, enqueued, others, cutOffs>>

ListEnds ==
    /\ lists > 0 /\ Free > 0
    /\ lists' = lists - 1
    /\ UNCHANGED <<status, closed, shadowVars, submitVars, resolveVars, enqueued, others, cutOffs>>

\* Their clients may leave, which gives the connection back.
OtherLeaves ==
    /\ \/ others > 0 /\ others' = others - 1 /\ UNCHANGED lists
       \/ lists > 0 /\ lists' = lists - 1 /\ UNCHANGED others
    /\ UNCHANGED <<status, closed, shadowVars, submitVars, resolveVars, enqueued, cutOffs>>

-----------------------------------------------------------------------------

\* A client that leaves cancels the context of its request: the transaction is
\* rolled back, what was committed stays.
GiveUp ==
    /\ cutOffs < MaxCutOffs
    /\ cutOffs' = cutOffs + 1
    /\ \/ /\ \E r \in Requests :
                /\ request[r].phase \in {"checked", "written", "computed"}
                /\ request' = [request EXCEPT ![r] = Done]
          /\ UNCHANGED <<creating, resolution>>
       \/ /\ creating
          /\ creating' = FALSE
          /\ UNCHANGED <<request, resolution>>
       \/ /\ resolution \in {"resolved", "synced", "scoring"}
          /\ resolution' = "done"
          /\ UNCHANGED <<request, creating>>
    /\ UNCHANGED <<status, closed, shadow, late, latest, official, overlapped, outcome,
                   snapshot, score, enqueued, nestedVars>>

\* The server ends and is started again: all requests are lost.
Crash ==
    /\ cutOffs < MaxCutOffs
    /\ cutOffs' = cutOffs + 1
    /\ request' = [r \in Requests |->
          IF request[r].phase = "idle" THEN Idle ELSE Done]
    /\ creating' = FALSE
    /\ resolution' = IF resolution = "none" THEN resolution ELSE "done"
    /\ others' = 0 /\ lists' = 0
    /\ UNCHANGED <<status, closed, shadow, late, latest, official, overlapped, outcome,
                   snapshot, score, enqueued>>

OtherRequests == OtherQueries \/ OtherEnds \/ ListQueries \/ ListEnds \/ OtherLeaves

Submitting(r) == Write(r) \/ Compute(r) \/ Commit(r)

Resolving ==
    \/ SyncShadow
    \/ QuerySnapshots
    \/ \E u \in Contributors : CreateScore(u)
    \/ NotifyResolution

ForecastNext ==
    \/ CreateQuestion
    \/ Close
    \/ CreateShadowMarket
    \/ \E r \in Requests :
          \/ \E u \in Contributors, p \in Bps : Check(r, u, p)
          \/ Submitting(r)
    \/ \E o \in Outcomes : Resolve(o)
    \/ Resolving
    \/ OtherRequests
    \/ GiveUp
    \/ Crash

\* A handler that has begun goes on unless it is cut off.  The pool serves those who
\* wait for a connection in their order, so that others who come and go do not keep
\* a resolution from going on.  Nothing makes the others end or leave.
ForecastFairness ==
    /\ WF_forecastVars(CreateShadowMarket)
    /\ SF_forecastVars(Resolving)
    /\ \A r \in Requests : WF_forecastVars(Submitting(r))

ForecastSpec == ForecastInit /\ [][ForecastNext]_forecastVars
FairForecastSpec == ForecastSpec /\ ForecastFairness

-----------------------------------------------------------------------------
(* Properties                                                              *)

Forecasts == {u \in Contributors : latest[u] # None}

OfficialOfLatest ==
    official = IF Forecasts = {} THEN 0 ELSE MedianBps(latest)

\* The official probability is the median of the latest forecasts as long as no two
\* transactions of AddRevision ran side by side, whatever else came in between.
SerialOfficial == ~overlapped => OfficialOfLatest

\* A revision that is committed after the resolution changes neither a snapshot
\* nor a score: every score is that of its snapshot.
ScoresFollowSnapshot ==
    \A u \in Contributors : score[u] # NoScore =>
        /\ snapshot[u] # None
        /\ score[u].brier = Brier(snapshot[u], IF outcome = "delivered" THEN 1 ELSE 0)

\* Whoever is told of a resolution finds all its scores there, also if a
\* request was cut off in between.
NotifiedAreScored ==
    (\E u \in Contributors : <<"resolution", u>> \in enqueued) => Unscored = {}

\* The first resolution stands, and so does its snapshot.
ResolvedStands ==
    [][status = "resolved" => status' = "resolved" /\ outcome' = outcome
                                /\ snapshot' = snapshot]_forecastVars

\* The shadow market of a resolved question does not stay open: the sync closes it,
\* unless it is cut off before or CreateQuestion had still to create the market.
ShadowFollows ==
    shadow = "open" /\ status = "resolved" =>
        resolution = "resolved" \/ cutOffs > 0 \/ late

\* Everyone who has a connection waits for a second one.
Exhausted == Nested = Connections

\* A question that is resolved gets a score for every snapshot, unless it is cut
\* off first, after which nothing takes the scoring up again, or resolutions and lists of
\* markets exhaust the pool among themselves: submissions never do.
EventuallyScored ==
    (status = "resolved") ~> (Unscored = {} \/ cutOffs > 0 \/ Exhausted)

-----------------------------------------------------------------------------
(* What the documents say and the code does not do                         *)

\* roadmap-forecast-workflow.md: "the median of the latest active forecast from each
\* eligible contributor".  Of two submissions that run side by side, the second
\* to commit stores a median that knows nothing of the first.
OfficialIsMedian == InTransaction = {} => OfficialOfLatest

\* The same: "revisions after close must never alter contributor snapshot at close,
\* official internal forecast history at close, or Brier scoring inputs".  closes_at is
\* looked at before the transaction, which may come after it.
ClosedStaysClosed ==
    [][closed => latest' = latest /\ official' = official]_forecastVars
=============================================================================
