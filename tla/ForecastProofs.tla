---------------------------- MODULE ForecastProofs ----------------------------
(***************************************************************************)
(* Theorems about Forecast, for any number of contributors, submissions,   *)
(* connections and requests that are cut off.  What a median is matters    *)
(* for its type only: after MedianType, MedianBps is never expanded.       *)
(***************************************************************************)
EXTENDS Forecast, SumProofs

-----------------------------------------------------------------------------
(* The median of some forecasts is a probability: the k-th of them in      *)
(* ascending order exists, for every k up to their number.                 *)

\* What the latest forecasts can be.
LatestForecasts == [Contributors -> Probabilities \cup {None}]

Given(f) == {u \in Contributors : f[u] # None}
Below(f, v) == {u \in Given(f) : f[u] < v}
UpTo(f, v) == {u \in Given(f) : f[u] <= v}

LEMMA GivenFinite ==
  ASSUME NEW f \in LatestForecasts
  PROVE  /\ IsFiniteSet(Given(f)) /\ Cardinality(Given(f)) \in Nat
         /\ Count(f) = Cardinality(Given(f))
         /\ \A u \in Given(f) : f[u] \in Probabilities /\ f[u] \in Int
         /\ \A T \in SUBSET Given(f) :
               /\ IsFiniteSet(T) /\ Cardinality(T) \in Nat
               /\ \A U \in SUBSET T : Cardinality(U) <= Cardinality(T)
<1>1. IsFiniteSet(Given(f))
  BY ForecastAssumption, FS_Subset DEF Given
<1>2. ASSUME NEW T \in SUBSET Given(f)
      PROVE  /\ IsFiniteSet(T) /\ Cardinality(T) \in Nat
             /\ \A U \in SUBSET T : Cardinality(U) <= Cardinality(T)
  <2>1. IsFiniteSet(T)
    BY <1>1, FS_Subset
  <2>2. QED BY <2>1, FS_CardinalityType, FS_Subset
<1>3. \A u \in Given(f) : f[u] \in Probabilities /\ f[u] \in Int
  <2>1. \A u \in Contributors : f[u] \in Probabilities \cup {None}
    BY DEF LatestForecasts
  <2>2. \A p \in Probabilities : p \in Int
    BY DEF Probabilities, Certain
  <2>3. QED BY <2>1, <2>2 DEF Given
<1>4. Count(f) = Cardinality(Given(f))
  BY DEF Count, Given
<1>5. QED BY <1>1, <1>2, <1>3, <1>4

\* Among some contributors, one has given the highest forecast.
LEMMA HighestForecast ==
  ASSUME NEW f \in LatestForecasts, NEW T \in SUBSET Given(f), T # {}
  PROVE  \E u \in T : T \subseteq UpTo(f, f[u])
<1> DEFINE V == {f[u] : u \in T}
<1>1. V \in SUBSET Int /\ V # {}
  BY GivenFinite
<1>2. IsFiniteSet(V)
  <2>1. IsFiniteSet(T)
    BY GivenFinite
  <2> DEFINE g == [u \in T |-> f[u]]
  <2>2. g \in Surjection(T, V)
    BY DEF Surjection
  <2>3. QED BY <2>1, <2>2, FS_Surjection
<1> HIDE DEF V
<1>3. PICK v \in V : \A w \in V : v >= w
  BY <1>1, <1>2, LargestOfFinite
<1>4. PICK u \in T : v = f[u]
  BY DEF V
<1>5. \A w \in T : f[u] >= f[w] /\ f[u] \in Int /\ f[w] \in Int
  BY <1>3, <1>4, GivenFinite DEF V
<1>6. T \subseteq UpTo(f, f[u])
  BY <1>5 DEF UpTo
<1>7. QED BY <1>6

LEMMA RankedType ==
  ASSUME NEW f \in LatestForecasts, NEW k \in 1 .. Count(f)
  PROVE  Ranked(f, k) \in Probabilities
<1> DEFINE Reaching == {u \in Given(f) : k <= Cardinality(UpTo(f, f[u]))}
           B == {UpTo(f, f[u]) : u \in Reaching}
<1>1. Cardinality(Given(f)) >= k /\ k >= 1 /\ Given(f) # {} /\ k \in Nat
  BY GivenFinite, FS_EmptySet
<1>2. Reaching # {}
  <2>1. PICK u \in Given(f) : Given(f) \subseteq UpTo(f, f[u])
    BY <1>1, HighestForecast
  <2>2. UpTo(f, f[u]) = Given(f)
    BY <2>1 DEF UpTo
  <2>3. QED BY <1>1, <2>2
<1>3. PICK T \in B : \A W \in B : W \subseteq T => W = T
  <2>1. B \in SUBSET SUBSET Given(f) /\ B # {}
    BY <1>2 DEF UpTo
  <2> HIDE DEF B
  <2>2. QED BY <2>1, GivenFinite, MinimalSubset
<1>4. PICK u \in Reaching : T = UpTo(f, f[u])
  BY <1>3
<1> DEFINE v == f[u]
<1>5. u \in Given(f) /\ v \in Int /\ k <= Cardinality(UpTo(f, v))
  BY <1>4, GivenFinite
<1>6. Cardinality(Below(f, v)) < k
  <2>1. SUFFICES ASSUME Cardinality(Below(f, v)) >= k PROVE FALSE
    BY <1>1, GivenFinite DEF Below
  <2>2. Below(f, v) \in SUBSET Given(f) /\ Below(f, v) # {}
    BY <1>1, <2>1, FS_EmptySet DEF Below
  <2>3. PICK w \in Below(f, v) : Below(f, v) \subseteq UpTo(f, f[w])
    BY <2>2, HighestForecast
  <2>4. w \in Given(f) /\ f[w] < v /\ f[w] \in Int
    BY <2>2, GivenFinite DEF Below
  <2>5. Cardinality(Below(f, v)) <= Cardinality(UpTo(f, f[w]))
    BY <2>3, GivenFinite DEF UpTo
  <2>6. k <= Cardinality(UpTo(f, f[w]))
    <3>1. Cardinality(Below(f, v)) \in Nat /\ Cardinality(UpTo(f, f[w])) \in Nat
      BY <2>2, GivenFinite DEF UpTo
    <3>2. QED BY <1>1, <2>1, <2>5, <3>1
  <2>7. UpTo(f, f[w]) \in B
    BY <2>4, <2>6
  <2>8. UpTo(f, f[w]) \subseteq UpTo(f, v)
    BY <1>5, <2>4, GivenFinite DEF UpTo
  <2>9. UpTo(f, f[w]) = UpTo(f, v)
    BY <1>3, <1>4, <2>7, <2>8
  <2>10. u \in UpTo(f, v) /\ u \notin UpTo(f, f[w])
    BY <1>5, <2>4 DEF UpTo
  <2>11. QED BY <2>9, <2>10
<1> DEFINE Fits(x) == Cardinality(Below(f, x)) < k /\ k <= Cardinality(UpTo(f, x))
<1>7. v \in {f[x] : x \in Given(f)} /\ Fits(v)
  BY <1>5, <1>6
<1>8. Ranked(f, k) = CHOOSE x \in {f[y] : y \in Given(f)} : Fits(x)
  BY DEF Ranked, Given, Below, UpTo
<1> HIDE DEF v, Fits
<1>9. Ranked(f, k) \in {f[x] : x \in Given(f)}
  BY <1>7, <1>8
<1>10. QED BY <1>9, GivenFinite

\* The mean of two probabilities, rounded up.
LEMMA MeanType ==
  ASSUME NEW a \in Probabilities, NEW b \in Probabilities
  PROVE  (a + b + 1) \div 2 \in Probabilities
<1>1. Certain \in Nat /\ Probabilities = 0 .. Certain
  BY DEF Probabilities, Certain
<1>2. /\ a \in Nat /\ a <= Certain
      /\ b \in Nat /\ b <= Certain
  BY <1>1
<1> DEFINE c == (a + b + 1) \div 2
<1>3. c \in Nat /\ 2 * c <= a + b + 1
  BY <1>2, Z3
<1> HIDE DEF c
<1>4. c <= Certain
  BY <1>1, <1>2, <1>3, Z3
<1>5. c \in Probabilities
  BY <1>1, <1>3, <1>4
<1>6. QED BY <1>5 DEF c

\* The middle forecast, or the rounded mean of the two in the middle.
LEMMA MedianType ==
  ASSUME NEW f \in LatestForecasts, NEW u \in Contributors, f[u] # None
  PROVE  MedianBps(f) \in Probabilities
<1> DEFINE n == Count(f)
           mid == n \div 2
<1>1. n \in Nat \ {0}
  <2>1. Given(f) # {}
    BY DEF Given
  <2>2. QED BY <2>1, GivenFinite, FS_EmptySet
<1> HIDE DEF n
<1>2. mid \in Nat /\ (n % 2 = 1 => mid + 1 <= n) /\ (n % 2 # 1 => 1 <= mid /\ mid + 1 <= n)
  BY <1>1, Z3
<1> HIDE DEF mid
<1>3. CASE n % 2 = 1
  <2>1. mid + 1 \in 1 .. n
    BY <1>1, <1>2, <1>3
  <2>2. MedianBps(f) = Ranked(f, mid + 1)
    BY <1>3 DEF MedianBps, mid, n
  <2>3. QED BY <2>1, <2>2, RankedType DEF n
<1>4. CASE n % 2 # 1
  <2>1. mid \in 1 .. n /\ mid + 1 \in 1 .. n
    BY <1>1, <1>2, <1>4
  <2>2. Ranked(f, mid) \in Probabilities
    BY <2>1, RankedType DEF n
  <2>3. Ranked(f, mid + 1) \in Probabilities
    BY <2>1, RankedType DEF n
  <2>4. MedianBps(f) = (Ranked(f, mid) + Ranked(f, mid + 1) + 1) \div 2
    BY <1>4 DEF MedianBps, mid, n
  <2>5. QED BY <2>2, <2>3, <2>4, MeanType
<1>5. QED BY <1>3, <1>4

-----------------------------------------------------------------------------
(* Shape                                                                   *)

\* What a submission can be.
Submissions ==
    [phase : Phases, user : Contributors \cup {"none"}, bps : Probabilities,
     median : Probabilities]

Shape ==
    /\ status \in {"none", "open", "resolved"}
    /\ resolution \in {"none", "resolved", "synced", "scoring", "done"}
    /\ request \in [Requests -> Submissions]
    /\ \A r \in InTransaction : request[r].user \in Contributors
    /\ \A r \in Requests : request[r].phase = "checked" => request[r].user \in Contributors
    /\ latest \in LatestForecasts
    /\ snapshot \in LatestForecasts
    /\ DOMAIN score = Contributors
    /\ cutOffs \in Nat

\* The actions that touch no submission.
Elsewhere ==
    \/ CreateQuestion \/ Close \/ CreateShadowMarket \/ OtherRequests
    \/ Resolving
    \/ \E o \in Outcomes : Resolve(o)

\* Other requests share nothing but the pool with the question.
LEMMA OtherRequestsKeep ==
  ASSUME OtherRequests
  PROVE  /\ UNCHANGED <<status, closed, shadowVars, submitVars, resolveVars, enqueued, cutOffs>>
         /\ request' = request /\ resolution' = resolution /\ score' = score
  BY DEF OtherRequests, OtherQueries, OtherEnds, ListQueries, ListEnds, OtherLeaves,
         submitVars, resolveVars

LEMMA ElsewhereKeeps ==
  ASSUME Elsewhere
  PROVE  UNCHANGED submitVars /\ UNCHANGED cutOffs
  BY OtherRequestsKeep
     DEF Elsewhere, CreateQuestion, Close, CreateShadowMarket, Resolving, Resolve,
         SyncShadow, QuerySnapshots, CreateScore, NotifyResolution,
         shadowVars, resolveVars, submitVars

LEMMA SeenIsForecasts ==
  ASSUME Shape, NEW r \in Requests, request[r].user \in Contributors
  PROVE  /\ Seen(r) \in LatestForecasts
         /\ Seen(r)[request[r].user] = request[r].bps
         /\ request[r].bps \in Probabilities
  BY DEF Shape, Seen, LatestForecasts, Submissions

\* Submissions keep their shape, whatever step is taken.
LEMMA RequestShape ==
  ASSUME Shape, [ForecastNext]_forecastVars
  PROVE  /\ request' \in [Requests -> Submissions]
         /\ \A r \in InTransaction' : request'[r].user \in Contributors
         /\ \A r \in Requests :
               request'[r].phase = "checked" => request'[r].user \in Contributors
         /\ latest' \in LatestForecasts
<1> USE ForecastAssumption
<1>1. Done \in Submissions /\ Idle \in Submissions /\ Done.phase = "done" /\ Idle.phase = "idle"
  <2>1. 0 \in Probabilities
    BY DEF Probabilities, Certain
  <2>2. QED BY <2>1 DEF Done, Idle, Submissions, Phases
<1>2. CASE Elsewhere \/ UNCHANGED forecastVars
  BY <1>2, ElsewhereKeeps DEF Shape, submitVars, forecastVars, InTransaction
<1>3. ASSUME NEW r \in Requests, NEW u \in Contributors, NEW p \in Bps, Check(r, u, p)
      PROVE  /\ request' \in [Requests -> Submissions]
             /\ \A q \in InTransaction' : request'[q].user \in Contributors
             /\ \A q \in Requests :
                   request'[q].phase = "checked" => request'[q].user \in Contributors
             /\ latest' \in LatestForecasts
  <2>1. p \in Probabilities
    BY DEF ForecastAssumption, Probabilities
  <2>2. [phase |-> "checked", user |-> u, bps |-> p, median |-> 0] \in Submissions
    <3>1. 0 \in Probabilities
      BY DEF Probabilities, Certain
    <3>2. QED BY <2>1, <3>1 DEF Submissions, Phases
  <2>3. QED BY <1>3, <2>2 DEF Check, Shape, InTransaction
<1>4. ASSUME NEW r \in Requests, Write(r)
      PROVE  /\ request' \in [Requests -> Submissions]
             /\ \A q \in InTransaction' : request'[q].user \in Contributors
             /\ \A q \in Requests :
                   request'[q].phase = "checked" => request'[q].user \in Contributors
             /\ latest' \in LatestForecasts
  BY <1>4 DEF Write, Shape, Submissions, Phases, InTransaction
<1>5. ASSUME NEW r \in Requests, Compute(r)
      PROVE  /\ request' \in [Requests -> Submissions]
             /\ \A q \in InTransaction' : request'[q].user \in Contributors
             /\ \A q \in Requests :
                   request'[q].phase = "checked" => request'[q].user \in Contributors
             /\ latest' \in LatestForecasts
  <2>1. MedianSeen(r) \in Probabilities
    <3>1. /\ Seen(r) \in LatestForecasts
          /\ request[r].user \in Contributors /\ Seen(r)[request[r].user] # None
      BY <1>5, SeenIsForecasts DEF Compute, Shape, InTransaction, Probabilities, None
    <3>2. QED BY <3>1, MedianType DEF MedianSeen
  <2> DEFINE x == [request[r] EXCEPT !.phase = "computed", !.median = MedianSeen(r)]
  <2>2. /\ request \in [Requests -> Submissions] /\ request[r] \in Submissions
        /\ request' = [request EXCEPT ![r] = x]
        /\ latest' = latest /\ request[r].user \in Contributors
    BY <1>5 DEF Compute, Shape, InTransaction
  <2>3. x \in Submissions /\ x.phase = "computed" /\ x.user = request[r].user
    BY <2>1, <2>2 DEF Submissions, Phases
  <2> HIDE DEF x
  <2>4. QED BY <2>2, <2>3 DEF Shape, InTransaction
<1>6. ASSUME NEW r \in Requests, Commit(r)
      PROVE  /\ request' \in [Requests -> Submissions]
             /\ \A q \in InTransaction' : request'[q].user \in Contributors
             /\ \A q \in Requests :
                   request'[q].phase = "checked" => request'[q].user \in Contributors
             /\ latest' \in LatestForecasts
  <2>1. latest' \in LatestForecasts
    BY <1>6, SeenIsForecasts DEF Commit, Shape, InTransaction
  <2>2. QED BY <1>1, <1>6, <2>1 DEF Commit, Shape, InTransaction
<1>7. CASE GiveUp
  BY <1>1, <1>7 DEF GiveUp, Shape, InTransaction
<1>8. CASE Crash
  BY <1>1, <1>8 DEF Crash, Shape, InTransaction
<1>9. QED
  BY <1>2, <1>3, <1>4, <1>5, <1>6, <1>7, <1>8 DEF ForecastNext, Submitting, Elsewhere

LEMMA NextKeepsShape ==
  ASSUME Shape, [ForecastNext]_forecastVars
  PROVE  Shape'
<1> DEFINE Rest == /\ status' \in {"none", "open", "resolved"}
                   /\ resolution' \in {"none", "resolved", "synced", "scoring", "done"}
                   /\ snapshot' \in LatestForecasts
                   /\ DOMAIN score' = Contributors
                   /\ cutOffs' \in Nat
<1>1. ASSUME CreateQuestion \/ Close \/ CreateShadowMarket \/ OtherRequests
      PROVE  Rest
  BY <1>1, OtherRequestsKeep
     DEF Shape, CreateQuestion, Close, CreateShadowMarket, resolveVars
<1>2. ASSUME NEW r \in Requests,
             Submitting(r) \/ \E u \in Contributors, p \in Bps : Check(r, u, p)
      PROVE  Rest
  BY <1>2 DEF Shape, Submitting, Check, Write, Compute, Commit, resolveVars
<1>3. ASSUME Resolving \/ \E o \in Outcomes : Resolve(o)
      PROVE  Rest
  BY <1>3 DEF Shape, Resolving, SyncShadow, QuerySnapshots, CreateScore, NotifyResolution,
              Resolve, resolveVars
<1>4. ASSUME GiveUp \/ Crash
      PROVE  Rest
  BY <1>4 DEF Shape, GiveUp, Crash
<1>5. ASSUME UNCHANGED forecastVars
      PROVE  Rest
  BY <1>5 DEF Shape, forecastVars, resolveVars
<1>6. Rest
  BY <1>1, <1>2, <1>3, <1>4, <1>5 DEF ForecastNext
<1>7. QED BY <1>6, RequestShape DEF Shape

LEMMA InitShape == ForecastInit => Shape
  BY DEF ForecastInit, Shape, InTransaction, Idle, Submissions, Phases, Probabilities, Certain,
         LatestForecasts

LEMMA ShapeAlways == ForecastSpec => []Shape
  BY InitShape, NextKeepsShape, PTL DEF ForecastSpec

-----------------------------------------------------------------------------
(* Types, and the connections of the pool                                  *)

LEMMA SquareBound ==
  ASSUME NEW c \in Nat, NEW q \in 0 .. c
  PROVE  q * q \in 0 .. (c * c)
<1>1. q * q >= 0 /\ q * q <= q * c /\ q * c <= c * c /\ q * q \in Int /\ c * c \in Int
  BY Z3
<1>2. QED BY <1>1, Z3

\* The difference that is squared is at most Certain, whichever way it went.
LEMMA BrierType ==
  ASSUME NEW p \in Probabilities, NEW y \in {0, 1}
  PROVE  Brier(p, y) \in 0 .. (Certain * Certain)
<1>1. Certain \in Nat
  BY DEF Certain
<1>2. p \in 0 .. Certain
  BY DEF Probabilities
<1>3. CASE y = 0
  <2>1. p - y * Certain = p
    BY <1>1, <1>2, <1>3
  <2>2. QED BY <1>1, <1>2, <2>1, SquareBound DEF Brier
<1>4. CASE y = 1
  <2> DEFINE q == Certain - p
  <2>1. q \in 0 .. Certain
    BY <1>1, <1>2
  <2>2. p - y * Certain = -q
    BY <1>1, <1>2, <1>4
  <2> HIDE DEF q
  <2>3. (-q) * (-q) = q * q
    BY <2>1, <1>1, Z3
  <2>4. q * q \in 0 .. (Certain * Certain)
    BY <1>1, <2>1, SquareBound
  <2>5. QED BY <2>2, <2>3, <2>4 DEF Brier
<1>5. QED BY <1>3, <1>4

LEMMA OneMore ==
  ASSUME NEW S, IsFiniteSet(S), NEW x
  PROVE  Cardinality(S \cup {x}) \in Nat /\ Cardinality(S \cup {x}) <= Cardinality(S) + 1
<1>1. Cardinality(S) \in Nat
  BY FS_CardinalityType
<1>2. Cardinality(S \cup {x}) = IF x \in S THEN Cardinality(S) ELSE Cardinality(S) + 1
  BY FS_AddElement
<1>3. QED BY <1>1, <1>2

LEMMA SumsOfThree ==
  ASSUME NEW a \in Nat, NEW b \in Nat, NEW x \in 0 .. 1,
         NEW c \in Nat, NEW d \in Nat, NEW y \in 0 .. 1
  PROVE  /\ a + b + x \in Int /\ c + d + y \in Int
         /\ c <= a /\ d <= b /\ y <= x => c + d + y <= a + b + x
         /\ c = a /\ d = b => c + d + y <= a + b + x + 1
         /\ c = a + 1 /\ d = b /\ y = x => c + d + y <= a + b + x + 1
         /\ c = a /\ d = b + 1 /\ y = x => c + d + y <= a + b + x + 1
  OBVIOUS

\* How the connections that queries keep grow with those who keep one.
LEMMA NestedKept ==
  ASSUME others \in Nat, lists \in Nat, others' \in Nat, lists' \in Nat
  PROVE  /\ Nested \in Int /\ Nested' \in Int
         /\ /\ others' <= others /\ lists' <= lists
            /\ resolution' = "scoring" => resolution = "scoring"
            => Nested' <= Nested
         /\ \/ others' = others /\ lists' = lists
            \/ others' = others + 1 /\ lists' = lists /\ resolution' = resolution
            \/ others' = others /\ lists' = lists + 1 /\ resolution' = resolution
            => Nested' <= Nested + 1
<1> DEFINE one == IF resolution = "scoring" THEN 1 ELSE 0
           two == IF resolution' = "scoring" THEN 1 ELSE 0
<1>1. Nested = others + lists + one /\ Nested' = others' + lists' + two
  BY DEF Nested
<1>2. /\ one \in 0 .. 1 /\ two \in 0 .. 1
      /\ (resolution' = "scoring" => resolution = "scoring") => two <= one
      /\ resolution' = resolution => two = one
  OBVIOUS
<1> HIDE DEF one, two
<1>3. QED BY <1>1, <1>2, SumsOfThree

\* What a step does to the connections: it lets one go or keeps them, or takes one
\* that was free, for a transaction or for a query that keeps it.
LEMMA ConnectionsKept ==
  ASSUME Nested \in Int, Nested' \in Int, Free >= 0,
         \/ InTransaction' \subseteq InTransaction /\ Nested' <= Nested
         \/ /\ Free > 0
            /\ InTransaction' \subseteq InTransaction /\ Nested' <= Nested + 1
         \/ /\ Free > 0 /\ Nested' = Nested
            /\ \E r \in Requests : InTransaction' = InTransaction \cup {r}
  PROVE  Free' >= 0
<1>1. Requests = 1 .. MaxRequests /\ MaxRequests \in Nat /\ Connections \in Int
  BY ForecastAssumption DEF Requests
<1>2. IsFiniteSet(InTransaction) /\ Cardinality(InTransaction) \in Nat
  <2>1. IsFiniteSet(Requests)
    BY <1>1, FS_Interval
  <2>2. QED BY <2>1, FS_Subset, FS_CardinalityType DEF InTransaction
<1>4. /\ Free = Connections - Cardinality(InTransaction) - Nested
      /\ Free' = Connections - Cardinality(InTransaction') - Nested'
  BY DEF Free
<1>5. CASE InTransaction' \subseteq InTransaction /\ Nested' <= Nested + 1
           /\ (Nested' <= Nested \/ Free > 0)
  <2>1. /\ Cardinality(InTransaction') <= Cardinality(InTransaction)
        /\ Cardinality(InTransaction') \in Nat
    BY <1>2, <1>5, FS_Subset, FS_CardinalityType
  <2>2. QED BY <1>1, <1>2, <1>4, <1>5, <2>1
<1>6. ASSUME Free > 0, Nested' = Nested, NEW r \in Requests,
             InTransaction' = InTransaction \cup {r}
      PROVE  Free' >= 0
  <2>1. /\ Cardinality(InTransaction \cup {r}) <= Cardinality(InTransaction) + 1
        /\ Cardinality(InTransaction \cup {r}) \in Nat
    BY <1>2, OneMore
  <2>2. QED BY <1>1, <1>2, <1>4, <1>6, <2>1
<1>7. QED BY <1>5, <1>6

\* The types that Shape does not say.
Values ==
    /\ closed \in BOOLEAN
    /\ outcome \in Outcomes \cup {"none"}
    /\ creating \in BOOLEAN /\ late \in BOOLEAN
    /\ shadow \in {"none", "open", "resolved"}
    /\ official \in Probabilities
    /\ enqueued \subseteq ({"resolution"} \X Contributors)
    /\ overlapped \in BOOLEAN
    /\ others \in 0 .. MaxOthers
    /\ lists \in 0 .. MaxLists
    /\ cutOffs \in 0 .. MaxCutOffs

ScoreValues ==
    \A u \in Contributors : score[u] # NoScore =>
        score[u].brier \in 0 .. (Certain * Certain) /\ score[u].value \in {0, 1}

LEMMA NextKeepsValues ==
  ASSUME Shape, Values, [ForecastNext]_forecastVars
  PROVE  Values'
<1> USE ForecastAssumption
<1>1. ASSUME CreateQuestion \/ Close \/ CreateShadowMarket PROVE Values'
  BY <1>1 DEF Values, CreateQuestion, Close, CreateShadowMarket, shadowVars, submitVars,
              resolveVars, nestedVars
<1>2. ASSUME NEW r \in Requests,
             Write(r) \/ Compute(r) \/ \E u \in Contributors, p \in Bps : Check(r, u, p)
      PROVE  Values'
  BY <1>2 DEF Values, Check, Write, Compute, shadowVars, resolveVars, nestedVars
<1>3. ASSUME NEW r \in Requests, Commit(r) PROVE Values'
  <2>1. request[r].median \in Probabilities
    BY DEF Shape, Submissions
  <2>2. QED BY <1>3, <2>1 DEF Values, Commit, shadowVars, resolveVars, nestedVars
<1>4. ASSUME NEW o \in Outcomes, Resolve(o) PROVE Values'
  BY <1>4 DEF Values, Resolve, shadowVars, submitVars, nestedVars
<1>5. CASE SyncShadow \/ QuerySnapshots \/ \E u \in Contributors : CreateScore(u)
  BY <1>5 DEF Values, SyncShadow, Synced, QuerySnapshots, CreateScore, shadowVars, submitVars,
              nestedVars
<1>6. CASE NotifyResolution
  BY <1>6 DEF Values, NotifyResolution, shadowVars, submitVars, nestedVars
<1>7. CASE OtherRequests
  <2>1. others' \in 0 .. MaxOthers /\ lists' \in 0 .. MaxLists
    BY <1>7 DEF Values, OtherRequests, OtherQueries, OtherEnds, ListQueries, ListEnds,
                OtherLeaves
  <2>2. QED
    BY <1>7, <2>1, OtherRequestsKeep DEF Values, shadowVars, submitVars, resolveVars
<1>8. CASE GiveUp \/ Crash
  <2>1. /\ others' \in 0 .. MaxOthers /\ lists' \in 0 .. MaxLists
        /\ cutOffs' \in 0 .. MaxCutOffs
    <3>1. /\ cutOffs < MaxCutOffs /\ cutOffs' = cutOffs + 1
          /\ others' \in {others, 0} /\ lists' \in {lists, 0}
      BY <1>8 DEF GiveUp, Crash, nestedVars
    <3>2. MaxOthers \in Nat /\ MaxLists \in Nat /\ MaxCutOffs \in Nat
          /\ others \in 0 .. MaxOthers /\ lists \in 0 .. MaxLists
          /\ cutOffs \in 0 .. MaxCutOffs
      BY DEF Values
    <3>3. QED BY <3>1, <3>2
  <2>2. UNCHANGED <<closed, outcome, late, shadow, official, enqueued, overlapped>>
    BY <1>8 DEF GiveUp, Crash
  <2>3. creating' = creating \/ creating' = FALSE
    BY <1>8 DEF GiveUp, Crash
  <2>4. QED BY <2>1, <2>2, <2>3 DEF Values
<1>9. CASE UNCHANGED forecastVars
  BY <1>9 DEF Values, forecastVars, shadowVars, submitVars, resolveVars, nestedVars
<1>10. QED
  BY <1>1, <1>2, <1>3, <1>4, <1>5, <1>6, <1>7, <1>8, <1>9
     DEF ForecastNext, Submitting, Resolving

LEMMA NextKeepsScoreValues ==
  ASSUME Shape, ScoreValues, [ForecastNext]_forecastVars
  PROVE  ScoreValues'
<1>1. ASSUME NEW u \in Contributors, CreateScore(u)
      PROVE  ScoreValues'
  <2>1. score' = [score EXCEPT ![u] = ScoreOf(u)] /\ snapshot[u] # None
        /\ DOMAIN score = Contributors
    BY <1>1 DEF CreateScore, Unscored, Shape
  <2>2. snapshot[u] \in Probabilities /\ OutcomeValue \in {0, 1}
    BY <2>1 DEF Shape, LatestForecasts, OutcomeValue
  <2>3. ScoreOf(u).brier \in 0 .. (Certain * Certain) /\ ScoreOf(u).value \in {0, 1}
    BY <2>2, BrierType DEF ScoreOf
  <2>4. score'[u] = ScoreOf(u) /\ \A v \in Contributors : v # u => score'[v] = score[v]
    BY <2>1
  <2>5. QED BY <2>3, <2>4 DEF ScoreValues
<1>2. ASSUME ~ \E u \in Contributors : CreateScore(u)
      PROVE  score' = score
  BY <1>2, OtherRequestsKeep
     DEF ForecastNext, CreateQuestion, Close, CreateShadowMarket, Submitting, Check, Write,
         Compute, Commit, Resolve, Resolving, SyncShadow, QuerySnapshots, NotifyResolution,
         GiveUp, Crash, forecastVars, resolveVars
<1>3. QED BY <1>1, <1>2 DEF ScoreValues

\* No step takes a connection of the pool that somebody has.
LEMMA NextKeepsConnections ==
  ASSUME Shape, Values, Values', Free >= 0, [ForecastNext]_forecastVars
  PROVE  Free' >= 0
<1>1. /\ others \in Nat /\ others' \in Nat /\ lists \in Nat /\ lists' \in Nat
      /\ Nested \in Int /\ Nested' \in Int
  BY ForecastAssumption, NestedKept DEF Values
<1>2. ASSUME \/ CreateQuestion \/ Close \/ CreateShadowMarket \/ OtherEnds \/ ListEnds
             \/ OtherLeaves \/ SyncShadow \/ NotifyResolution \/ UNCHANGED forecastVars
             \/ \E o \in Outcomes : Resolve(o)
             \/ \E u \in Contributors : CreateScore(u)
      PROVE  InTransaction' \subseteq InTransaction /\ Nested' <= Nested
  <2>1. request' = request
    BY <1>2 DEF CreateQuestion, Close, CreateShadowMarket, OtherEnds, ListEnds, OtherLeaves,
                SyncShadow, NotifyResolution, Resolve, CreateScore, forecastVars, submitVars
  <2>2. /\ resolution' = "scoring" => resolution = "scoring"
        /\ others' <= others /\ lists' <= lists
    BY <1>1, <1>2
       DEF CreateQuestion, Close, CreateShadowMarket, OtherEnds, ListEnds, OtherLeaves,
           SyncShadow, NotifyResolution, Resolve, CreateScore, forecastVars, resolveVars,
           nestedVars
  <2>3. Nested' <= Nested
    BY <1>1, <2>2, NestedKept
  <2>4. QED BY <2>1, <2>3 DEF InTransaction
<1>3. ASSUME NEW r \in Requests,
             Compute(r) \/ Commit(r) \/ \E u \in Contributors, p \in Bps : Check(r, u, p)
      PROVE  InTransaction' \subseteq InTransaction /\ Nested' = Nested
  <2>1. UNCHANGED <<others, lists, resolution>>
    BY <1>3 DEF Compute, Commit, Check, resolveVars, nestedVars
  <2>2. /\ \A s \in Requests : s # r => request'[s] = request[s]
        /\ request'[r].phase \in {"written", "computed"} => request[r].phase = "written"
    BY <1>3 DEF Compute, Commit, Check, Done, Idle, Shape, Submissions
  <2>3. QED BY <2>1, <2>2 DEF InTransaction, Nested
<1>4. ASSUME GiveUp \/ Crash
      PROVE  InTransaction' \subseteq InTransaction /\ Nested' <= Nested
  <2>1. \A s \in Requests :
          request'[s].phase \in {"written", "computed"} => request'[s] = request[s]
    BY <1>4 DEF GiveUp, Crash, Done, Idle, Shape, Submissions
  <2>2. /\ resolution' = "scoring" => resolution = "scoring"
        /\ others' <= others /\ lists' <= lists
    BY <1>1, <1>4 DEF GiveUp, Crash, nestedVars
  <2>3. Nested' <= Nested
    BY <1>1, <2>2, NestedKept
  <2>4. QED BY <2>1, <2>3 DEF InTransaction
<1>5. ASSUME QuerySnapshots \/ OtherQueries \/ ListQueries
      PROVE  Free > 0 /\ InTransaction' \subseteq InTransaction /\ Nested' <= Nested + 1
  <2>1. Free > 0 /\ request' = request
    BY <1>5 DEF QuerySnapshots, OtherQueries, ListQueries, submitVars
  <2>2. \/ /\ UNCHANGED <<others, lists>>
           /\ resolution' = "scoring" /\ resolution # "scoring"
        \/ others' = others + 1 /\ UNCHANGED <<lists, resolution>>
        \/ lists' = lists + 1 /\ UNCHANGED <<others, resolution>>
    BY <1>5 DEF QuerySnapshots, OtherQueries, ListQueries, resolveVars, nestedVars
  <2>3. Nested' <= Nested + 1
    BY <1>1, <2>2, NestedKept
  <2>4. QED BY <2>1, <2>3 DEF InTransaction
<1>6. ASSUME NEW r \in Requests, Write(r)
      PROVE  /\ Free > 0 /\ Nested' = Nested
             /\ InTransaction' = InTransaction \cup {r}
  <2>1. Free > 0 /\ UNCHANGED <<others, lists, resolution>>
    BY <1>6 DEF Write, resolveVars, nestedVars
  <2>2. /\ \A s \in Requests : s # r => request'[s] = request[s]
        /\ request'[r].phase = "written"
    BY <1>6 DEF Write, Shape, Submissions
  <2>3. QED BY <2>1, <2>2 DEF InTransaction, Nested
<1>7. QED
  BY <1>1, <1>2, <1>3, <1>4, <1>5, <1>6, ConnectionsKept
     DEF ForecastNext, Submitting, Resolving, OtherRequests

\* The types of everything, the official forecast among them, which is 0 or a median;
\* and the pool never has fewer connections than it gave away.
THEOREM ForecastTypesCorrect == ForecastSpec => []ForecastTypeOK
<1> DEFINE Typed == Shape /\ Values /\ ScoreValues /\ Free >= 0
<1>1. ForecastInit => Typed
  <2> SUFFICES ASSUME ForecastInit PROVE Typed
    OBVIOUS
  <2>1. /\ 0 \in 0 .. MaxOthers /\ 0 \in 0 .. MaxLists /\ 0 \in 0 .. MaxCutOffs
        /\ 0 \in Probabilities
    BY ForecastAssumption DEF Probabilities, Certain
  <2>2. Values /\ ScoreValues
    BY <2>1 DEF ForecastInit, Values, ScoreValues
  <2>3. InTransaction = {} /\ Nested = 0
    BY DEF ForecastInit, InTransaction, Nested, Idle
  <2>4. Free >= 0
    BY <2>3, ForecastAssumption, FS_EmptySet DEF Free
  <2>5. QED BY <2>2, <2>4, InitShape
<1>2. Typed /\ [ForecastNext]_forecastVars => Typed'
  BY NextKeepsShape, NextKeepsValues, NextKeepsScoreValues, NextKeepsConnections
<1>3. Typed => ForecastTypeOK
  <2> SUFFICES ASSUME Typed PROVE ForecastTypeOK
    OBVIOUS
  <2>2. \A r \in Requests :
          /\ request[r].phase \in Phases
          /\ request[r].user \in Contributors \cup {"none"}
          /\ {request[r].bps, request[r].median} \subseteq Probabilities
    BY DEF Shape, Submissions
  <2>3. QED
    BY <2>2 DEF Shape, Values, ScoreValues, ForecastTypeOK, LatestForecasts
<1>4. QED BY <1>1, <1>2, <1>3, PTL DEF ForecastSpec

-----------------------------------------------------------------------------
(* The resolution                                                          *)

\* ScoresFollowSnapshot and NotifiedAreScored need to know that nothing is scored or
\* announced before the resolution is at that point.
Resolved ==
    /\ status = "resolved" <=> resolution # "none"
    /\ resolution = "none" => \A u \in Contributors : score[u] = NoScore
    /\ enqueued # {} => resolution = "done" /\ Unscored = {}

ResolvedInv == Shape /\ Resolved /\ ScoresFollowSnapshot /\ ShadowFollows

LEMMA ResolutionFrame ==
  ASSUME ResolvedInv, UNCHANGED <<status, resolveVars, enqueued>>
  PROVE  Resolved' /\ ScoresFollowSnapshot'
  BY DEF ResolvedInv, Resolved, ScoresFollowSnapshot, Unscored, resolveVars

LEMMA CreateScoreKeeps ==
  ASSUME ResolvedInv, NEW u \in Contributors, CreateScore(u)
  PROVE  Resolved' /\ ScoresFollowSnapshot'
<1>1. /\ resolution = "scoring" /\ snapshot[u] # None
      /\ score' = [score EXCEPT ![u] = ScoreOf(u)]
      /\ UNCHANGED <<status, resolution, outcome, snapshot, enqueued>>
  BY DEF CreateScore, Unscored
<1>2. Resolved'
  BY <1>1 DEF ResolvedInv, Resolved
<1>3. DOMAIN score = Contributors
  BY DEF ResolvedInv, Shape
<1>4. score'[u].brier = Brier(snapshot[u], IF outcome = "delivered" THEN 1 ELSE 0)
  BY <1>1, <1>3 DEF ScoreOf, OutcomeValue
<1>5. \A v \in Contributors : v # u => score'[v] = score[v]
  BY <1>1, <1>3
<1>6. ScoresFollowSnapshot'
  BY <1>1, <1>4, <1>5 DEF ResolvedInv, ScoresFollowSnapshot
<1>7. QED BY <1>2, <1>6

LEMMA NextKeepsResolved ==
  ASSUME ResolvedInv, [ForecastNext]_forecastVars
  PROVE  ResolvedInv'
<1> USE DEF ResolvedInv
<1>1. Shape'
  BY NextKeepsShape
<1>2. Resolved' /\ ScoresFollowSnapshot'
  <2>1. CASE CreateQuestion
    BY <2>1 DEF CreateQuestion, Resolved, ScoresFollowSnapshot, resolveVars, Unscored
  <2>2. ASSUME \/ Close \/ CreateShadowMarket \/ OtherRequests
               \/ UNCHANGED forecastVars
               \/ \E r \in Requests :
                     Submitting(r) \/ \E u \in Contributors, p \in Bps : Check(r, u, p)
        PROVE  UNCHANGED <<status, resolveVars, enqueued>>
    BY <2>2, OtherRequestsKeep
       DEF Close, CreateShadowMarket, forecastVars, Submitting, Check, Write, Compute, Commit,
           Shape
  <2>3. ASSUME NEW o \in Outcomes, Resolve(o)
        PROVE  Resolved' /\ ScoresFollowSnapshot'
    BY <2>3 DEF Resolve, Resolvable, Resolved, ScoresFollowSnapshot, Unscored
  <2>4. CASE SyncShadow \/ QuerySnapshots
    BY <2>4 DEF SyncShadow, QuerySnapshots, Resolved, ScoresFollowSnapshot, Unscored
  <2>5. CASE NotifyResolution
    BY <2>5 DEF NotifyResolution, AllScored, Resolved, ScoresFollowSnapshot, Unscored
  <2>6. CASE GiveUp \/ Crash
    BY <2>6 DEF GiveUp, Crash, Resolved, ScoresFollowSnapshot, Unscored
  <2>7. QED
    BY <2>1, <2>2, <2>3, <2>4, <2>5, <2>6, ResolutionFrame, CreateScoreKeeps
       DEF ForecastNext, Resolving
<1>3. ShadowFollows'
  <2>1. CASE CreateShadowMarket
    BY <2>1 DEF CreateShadowMarket, ShadowFollows, Resolved, resolveVars
  <2>2. CASE SyncShadow
    BY <2>2 DEF SyncShadow, Synced, ShadowFollows
  <2>3. CASE GiveUp \/ Crash
    BY <2>3 DEF GiveUp, Crash, ShadowFollows, Shape
  <2>4. ASSUME \E o \in Outcomes : Resolve(o)
        PROVE  ShadowFollows'
    BY <2>4 DEF Resolve, ShadowFollows
  <2>5. ASSUME \/ CreateQuestion \/ QuerySnapshots \/ NotifyResolution
               \/ \E u \in Contributors : CreateScore(u)
        PROVE  ShadowFollows'
    BY <2>5 DEF CreateQuestion, QuerySnapshots, NotifyResolution, CreateScore,
                ShadowFollows, shadowVars, resolveVars
  <2>6. ASSUME \/ Close \/ OtherRequests \/ UNCHANGED forecastVars
               \/ \E r \in Requests :
                     Submitting(r) \/ \E u \in Contributors, p \in Bps : Check(r, u, p)
        PROVE  UNCHANGED <<status, shadowVars, resolution, cutOffs>>
    BY <2>6, OtherRequestsKeep
       DEF Close, forecastVars, Submitting, Check, Write, Compute, Commit, resolveVars
  <2>7. QED
    BY <2>1, <2>2, <2>3, <2>4, <2>5, <2>6
       DEF ForecastNext, Resolving, ShadowFollows, shadowVars
<1>4. QED BY <1>1, <1>2, <1>3

LEMMA ResolvedAlways == ForecastSpec => []ResolvedInv
<1>1. ForecastInit => ResolvedInv
  BY InitShape DEF ForecastInit, ResolvedInv, Resolved, ScoresFollowSnapshot, ShadowFollows
<1>2. QED BY <1>1, NextKeepsResolved, PTL DEF ForecastSpec

\* A revision that slips in behind the resolution changes no score: each is that of
\* the snapshot and the outcome the question was resolved with.
THEOREM ScoresFollowSnapshotAlways == ForecastSpec => []ScoresFollowSnapshot
  BY ResolvedAlways, PTL DEF ResolvedInv

\* Nobody is told of a resolution before all scores are there.
THEOREM NotifiedAreScoredAlways == ForecastSpec => []NotifiedAreScored
<1>1. ResolvedInv => NotifiedAreScored
  BY DEF ResolvedInv, Resolved, NotifiedAreScored
<1>2. QED BY <1>1, ResolvedAlways, PTL

\* The shadow market of a resolved question is open only if the request that was to
\* close it was cut off, or the one that created it came too late.
THEOREM ShadowFollowsAlways == ForecastSpec => []ShadowFollows
  BY ResolvedAlways, PTL DEF ResolvedInv

\* No step decides a question again or takes its snapshot a second time.
THEOREM ResolvedStandsAlways == ForecastSpec => ResolvedStands
<1>1. ASSUME [ForecastNext]_forecastVars
      PROVE  [status = "resolved" => status' = "resolved" /\ outcome' = outcome
                                       /\ snapshot' = snapshot]_forecastVars
  <2>1. ASSUME CreateQuestion \/ \E o \in Outcomes : Resolve(o)
        PROVE  status # "resolved"
    BY <2>1 DEF CreateQuestion, Resolve, Resolvable
  <2>2. ASSUME \/ Close \/ CreateShadowMarket \/ OtherRequests \/ GiveUp \/ Crash
               \/ Resolving \/ UNCHANGED forecastVars
               \/ \E r \in Requests :
                     Submitting(r) \/ \E u \in Contributors, p \in Bps : Check(r, u, p)
        PROVE  UNCHANGED <<outcome, snapshot>> /\ status' = status
    BY <2>2, OtherRequestsKeep
       DEF Close, CreateShadowMarket, GiveUp, Crash, Resolving, SyncShadow,
           QuerySnapshots, CreateScore, NotifyResolution, forecastVars,
           Submitting, Check, Write, Compute, Commit, resolveVars
  <2>3. QED BY <1>1, <2>1, <2>2 DEF ForecastNext
<1>2. QED BY <1>1, PTL DEF ForecastSpec, ResolvedStands

-----------------------------------------------------------------------------
(* The official forecast                                                   *)

\* As long as no two transactions overlap, at most one is under way, and the median
\* it computed is that of what it will leave behind.
Serial ==
    ~overlapped =>
        /\ \A r, s \in InTransaction : r = s
        /\ \A r \in Requests :
              request[r].phase = "computed" => request[r].median = MedianSeen(r)
        /\ OfficialOfLatest

LEMMA CommitKeepsSerial ==
  ASSUME Shape, Serial, NEW r \in Requests, Commit(r)
  PROVE  Serial'
<1>1. /\ r \in InTransaction /\ overlapped' = overlapped
      /\ request' = [request EXCEPT ![r] = Done]
      /\ latest' = Seen(r) /\ official' = request[r].median
  BY DEF Commit, InTransaction
<1>2. InTransaction' = InTransaction \ {r}
  BY <1>1 DEF InTransaction, Done, Idle, Shape
<1>3. SUFFICES ASSUME ~overlapped PROVE Serial'
  BY <1>1 DEF Serial
<1>4. InTransaction' = {}
  BY <1>1, <1>2, <1>3 DEF Serial
<1>5. \A s \in Requests : request'[s].phase # "computed"
  BY <1>4 DEF InTransaction
<1>6. official' = MedianBps(latest')
  BY <1>1, <1>3 DEF Serial, MedianSeen, Commit
<1>7. Forecasts' # {}
  <2>1. request[r].user \in Contributors
    BY <1>1 DEF Shape
  <2>2. latest'[request[r].user] \in Probabilities
    BY <1>1, <2>1, SeenIsForecasts
  <2>3. QED BY <2>1, <2>2 DEF Forecasts, Probabilities, None
<1>8. QED BY <1>4, <1>5, <1>6, <1>7 DEF Serial, OfficialOfLatest

LEMMA NextKeepsSerial ==
  ASSUME Shape, Serial, [ForecastNext]_forecastVars
  PROVE  Serial'
<1> USE DEF Serial
<1>1. CASE Elsewhere \/ UNCHANGED forecastVars
  <2>1. UNCHANGED submitVars
    BY <1>1, ElsewhereKeeps DEF forecastVars
  <2>2. QED
    BY <2>1 DEF submitVars, InTransaction, MedianSeen, Seen, OfficialOfLatest, Forecasts
<1>2. ASSUME NEW r \in Requests, NEW u \in Contributors, NEW p \in Bps, Check(r, u, p)
      PROVE  Serial'
  BY <1>2 DEF Check, Shape, InTransaction, MedianSeen, Seen, OfficialOfLatest, Forecasts
<1>3. ASSUME NEW r \in Requests, Write(r) PROVE Serial'
  <2>1. CASE overlapped \/ InTransaction # {}
    BY <1>3, <2>1 DEF Write
  <2>2. CASE ~overlapped /\ InTransaction = {}
    <3>1. /\ \A q \in Requests : request[q].phase \notin {"written", "computed"}
          /\ \A q \in Requests : q # r => request'[q] = request[q]
          /\ request'[r].phase = "written"
          /\ UNCHANGED <<latest, official>>
      BY <1>3, <2>2 DEF Write, Shape, InTransaction, Submissions
    <3>2. InTransaction' = {r} /\ \A q \in Requests : request'[q].phase # "computed"
      BY <3>1 DEF InTransaction
    <3>3. OfficialOfLatest'
      BY <2>2, <3>1 DEF OfficialOfLatest, Forecasts
    <3>4. QED BY <3>2, <3>3
  <2>3. QED BY <2>1, <2>2
<1>4. ASSUME NEW r \in Requests, Compute(r) PROVE Serial'
  BY <1>4 DEF Compute, Shape, InTransaction, MedianSeen, Seen, OfficialOfLatest, Forecasts
<1>5. ASSUME NEW r \in Requests, Commit(r) PROVE Serial'
  BY <1>5, CommitKeepsSerial
<1>6. CASE GiveUp \/ Crash
  BY <1>6 DEF GiveUp, Crash, Shape, InTransaction, MedianSeen, Seen, OfficialOfLatest,
              Forecasts, Done, Idle
<1>7. QED
  BY <1>1, <1>2, <1>3, <1>4, <1>5, <1>6 DEF ForecastNext, Submitting, Elsewhere

\* Only transactions that overlap make the official forecast anything else than the
\* median of the latest ones.
THEOREM SerialOfficialAlways == ForecastSpec => []SerialOfficial
<1>1. ForecastInit => Serial
  BY DEF ForecastInit, Serial, InTransaction, OfficialOfLatest, Forecasts, Idle
<1>2. Serial => SerialOfficial
  BY DEF Serial, SerialOfficial
<1>3. QED BY <1>1, <1>2, ShapeAlways, NextKeepsSerial, PTL DEF ForecastSpec
=============================================================================
