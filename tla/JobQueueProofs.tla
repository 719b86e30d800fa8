---------------------------- MODULE JobQueueProofs ----------------------------
(***************************************************************************)
(* No notification goes out twice and no two workers are at the same job,  *)
(* for any number of jobs, workers and faults.                             *)
(*                                                                         *)
(* ProcessedOnce is not inductive: what keeps a handled job from being     *)
(* handled again is that its row is marked and that the one worker that    *)
(* has it in its batch knows it as handled (HandledKnown).                 *)
(***************************************************************************)
EXTENDS JobQueue, FiniteSetTheorems, TLAPS

\* A handled job is in the batch of its worker, and a job that was processed has
\* left "pending" for good, and is known as handled to whoever is at it.
HandledKnown ==
    /\ \A w \in Workers : handled[w] # NoJob => handled[w] \in batch[w]
    /\ \A j \in Jobs : processed[j] > 0 =>
          /\ row[j] \in {"processing", "completed"}
          /\ \A w \in Workers : j \in batch[w] => handled[w] = j

IInv ==
    /\ JobTypeOK
    /\ OneWorkerEach
    /\ ProcessedOnce
    /\ FailedWhenExhausted
    /\ HandledKnown

LEMMA JobInitIInv == JobInit => IInv
  <1> SUFFICES ASSUME JobInit PROVE IInv
    OBVIOUS
  <1> USE JobAssumption DEF JobInit
  <1>1. JobTypeOK
    BY DEF JobTypeOK
  <1>2. OneWorkerEach /\ ProcessedOnce /\ FailedWhenExhausted /\ HandledKnown
    BY DEF OneWorkerEach, ProcessedOnce, FailedWhenExhausted, HandledKnown
  <1>3. QED
    BY <1>1, <1>2 DEF IInv

-----------------------------------------------------------------------------
(* One lemma for each action                                               *)

\* A job that is enqueued has neither a worker nor an attempt nor a success.
LEMMA EnqueueKeepsIInv ==
    ASSUME IInv, NEW j \in Jobs, Enqueue(j)
    PROVE  IInv'
  <1> USE DEF Enqueue
  <1>1. JobTypeOK'
    BY DEF IInv, JobTypeOK
  <1>2. OneWorkerEach'
    BY DEF IInv, JobTypeOK, OneWorkerEach
  <1>3. ProcessedOnce'
    BY DEF IInv, ProcessedOnce
  <1>4. FailedWhenExhausted'
    BY JobAssumption DEF IInv, JobTypeOK, FailedWhenExhausted
  <1>5. HandledKnown'
    BY DEF IInv, JobTypeOK, HandledKnown
  <1>6. QED
    BY <1>1, <1>2, <1>3, <1>4, <1>5 DEF IInv

LEMMA BecomesDueKeepsIInv ==
    ASSUME IInv, NEW j \in Jobs, BecomesDue(j)
    PROVE  IInv'
  BY DEF BecomesDue, IInv, JobTypeOK, OneWorkerEach, ProcessedOnce,
         FailedWhenExhausted, HandledKnown

\* The jobs of a batch were pending: nobody was at them.
LEMMA FetchKeepsIInv ==
    ASSUME IInv, NEW w \in Workers, FetchDueJobs(w)
    PROVE  IInv'
  <1>1. PICK taken \in SUBSET {j \in Jobs : Ready(j)} : Take(w, taken)
    BY DEF FetchDueJobs
  <1>2. /\ batch[w] = {} /\ batch' = [batch EXCEPT ![w] = taken]
        /\ row' = [j \in Jobs |-> IF j \in taken THEN "processing" ELSE row[j]]
        /\ UNCHANGED <<due, attempts, handled, processed, faults>>
    BY <1>1 DEF FetchDueJobs, Take
  <1>3. \A j \in taken : j \in Jobs /\ row[j] = "pending"
    BY DEF Ready
  <1>4. \A v \in Workers : \A j \in taken : j \notin batch[v]
    BY <1>3 DEF IInv, OneWorkerEach
  <1>5. JobTypeOK'
    BY <1>2, <1>3 DEF IInv, JobTypeOK
  <1>6. OneWorkerEach'
    BY <1>2, <1>3, <1>4 DEF IInv, JobTypeOK, OneWorkerEach
  <1>7. ProcessedOnce'
    BY <1>2 DEF IInv, ProcessedOnce
  <1>8. FailedWhenExhausted'
    BY <1>2, <1>3 DEF IInv, JobTypeOK, FailedWhenExhausted
  <1>9. HandledKnown'
    BY <1>2, <1>3 DEF IInv, JobTypeOK, HandledKnown
  <1>10. QED
    BY <1>5, <1>6, <1>7, <1>8, <1>9 DEF IInv

\* A job that a worker is at, and that the worker has not handled yet, was never
\* processed before.
LEMMA HandleKeepsIInv ==
    ASSUME IInv, NEW w \in Workers, NEW j \in Jobs, HandleJob(w, j)
    PROVE  IInv'
  <1>1. /\ j \in batch[w] /\ handled[w] = NoJob
        /\ handled' = [handled EXCEPT ![w] = j]
        /\ processed' = [processed EXCEPT ![j] = @ + 1]
        /\ UNCHANGED <<row, due, attempts, batch, faults>>
    BY DEF HandleJob
  <1>2. processed[j] = 0 /\ row[j] = "processing" /\ j # NoJob
    BY <1>1, JobAssumption DEF IInv, JobTypeOK, OneWorkerEach, HandledKnown
  <1>3. \A v \in Workers : j \in batch[v] => v = w
    BY <1>1 DEF IInv, OneWorkerEach
  <1>4. JobTypeOK'
    BY <1>1 DEF IInv, JobTypeOK
  <1>5. OneWorkerEach' /\ FailedWhenExhausted'
    BY <1>1 DEF IInv, OneWorkerEach, FailedWhenExhausted
  <1>6. ProcessedOnce'
    BY <1>1, <1>2 DEF IInv, JobTypeOK, ProcessedOnce
  <1>7. ASSUME NEW v \in Workers, handled'[v] # NoJob
        PROVE  handled'[v] \in batch'[v]
    BY <1>1, <1>7 DEF IInv, JobTypeOK, HandledKnown
  <1>8. ASSUME NEW k \in Jobs, processed'[k] > 0
        PROVE  /\ row'[k] \in {"processing", "completed"}
               /\ \A v \in Workers : k \in batch'[v] => handled'[v] = k
    <2>1. CASE k = j
      BY <1>1, <1>2, <1>3, <2>1 DEF IInv, JobTypeOK
    <2>2. CASE k # j
      <3>1. processed[k] > 0
        BY <1>1, <1>8, <2>2 DEF IInv, JobTypeOK
      <3>2. \A v \in Workers : k \in batch[v] => handled[v] = k
        BY <3>1 DEF IInv, HandledKnown
      <3>3. k \notin batch[w]
        BY <1>1, <1>2, <3>2, JobAssumption
      <3>4. QED
        BY <1>1, <3>1, <3>2, <3>3 DEF IInv, JobTypeOK, HandledKnown
    <2>3. QED
      BY <2>1, <2>2
  <1>9. HandledKnown'
    BY <1>7, <1>8 DEF HandledKnown
  <1>10. QED
    BY <1>4, <1>5, <1>6, <1>9 DEF IInv

\* What completing, failing, losing an update and crashing have in common: a
\* worker lets go of some jobs, one of which may get a new row.
LEMMA LettingGoKeepsIInv ==
    ASSUME IInv, NEW w \in Workers, NEW left \in SUBSET batch[w],
           batch' = [batch EXCEPT ![w] = left],
           handled' = [handled EXCEPT ![w] = NoJob],
           handled[w] \notin left,
           UNCHANGED processed,
           JobTypeOK', FailedWhenExhausted',
           \A j \in Jobs : \/ row'[j] = row[j]
                           \/ /\ j \in batch[w] \ left
                              /\ processed[j] > 0 => row'[j] = "completed"
    PROVE  IInv'
  <1>1. \A v \in Workers : batch'[v] \subseteq batch[v]
    BY DEF IInv, JobTypeOK
  <1>2. \A v \in Workers : v # w => batch'[v] = batch[v] /\ handled'[v] = handled[v]
    BY DEF IInv, JobTypeOK
  <1>3. batch'[w] = left /\ handled'[w] = NoJob
    BY DEF IInv, JobTypeOK
  <1>4. \A v \in Workers : \A j \in batch'[v] : j \in Jobs /\ row'[j] = row[j]
    <2> SUFFICES ASSUME NEW v \in Workers, NEW j \in batch'[v]
                 PROVE  j \in Jobs /\ row'[j] = row[j]
      OBVIOUS
    <2>1. j \in Jobs /\ j \in batch[v]
      BY <1>1 DEF IInv, JobTypeOK
    <2>2. j \notin batch[w] \ left
      BY <1>2, <1>3, <2>1 DEF IInv, OneWorkerEach
    <2>3. QED
      BY <2>1, <2>2
  <1>5. OneWorkerEach'
    BY <1>1, <1>4 DEF IInv, OneWorkerEach
  <1>6. ProcessedOnce'
    BY DEF IInv, ProcessedOnce
  <1>7. ASSUME NEW v \in Workers, handled'[v] # NoJob
        PROVE  handled'[v] \in batch'[v]
    BY <1>2, <1>3, <1>7 DEF IInv, HandledKnown
  <1>8. ASSUME NEW j \in Jobs, processed'[j] > 0
        PROVE  /\ row'[j] \in {"processing", "completed"}
               /\ \A v \in Workers : j \in batch'[v] => handled'[v] = j
    <2>1. row[j] \in {"processing", "completed"}
      BY <1>8 DEF IInv, HandledKnown
    <2>2. row'[j] \in {"processing", "completed"}
      BY <1>8, <2>1
    <2>3. \A v \in Workers : j \in batch[v] => handled[v] = j
      BY <1>8 DEF IInv, HandledKnown
    <2>4. j \notin left
      BY <2>3
    <2>5. QED
      BY <1>2, <1>3, <2>2, <2>3, <2>4
  <1>9. HandledKnown'
    BY <1>7, <1>8 DEF HandledKnown
  <1>10. QED
    BY <1>5, <1>6, <1>9 DEF IInv

LEMMA CompleteKeepsIInv ==
    ASSUME IInv, NEW w \in Workers, NEW j \in Jobs, CompleteJob(w, j)
    PROVE  IInv'
  <1>1. /\ handled[w] = j /\ row' = [row EXCEPT ![j] = "completed"]
        /\ batch' = [batch EXCEPT ![w] = @ \ {j}]
        /\ handled' = [handled EXCEPT ![w] = NoJob]
        /\ UNCHANGED <<due, attempts, processed, faults>>
    BY DEF CompleteJob, Drop
  <1>2. j \in batch[w] /\ row[j] = "processing"
    BY <1>1, JobAssumption DEF IInv, HandledKnown, OneWorkerEach
  <1>3. JobTypeOK'
    BY <1>1 DEF IInv, JobTypeOK
  <1>4. FailedWhenExhausted'
    BY <1>1, <1>2 DEF IInv, JobTypeOK, FailedWhenExhausted
  <1>5. batch' = [batch EXCEPT ![w] = batch[w] \ {j}]
    BY <1>1
  <1> DEFINE left == batch[w] \ {j}
  <1>6. \A k \in Jobs : \/ row'[k] = row[k]
                        \/ /\ k \in batch[w] \ left
                           /\ processed[k] > 0 => row'[k] = "completed"
    BY <1>1, <1>2 DEF IInv, JobTypeOK
  <1>7. left \in SUBSET batch[w] /\ handled[w] \notin left /\ UNCHANGED processed
    BY <1>1
  <1> HIDE DEF left
  <1>8. batch' = [batch EXCEPT ![w] = left] /\ handled' = [handled EXCEPT ![w] = NoJob]
    BY <1>1, <1>5 DEF left
  <1>9. QED
    BY <1>3, <1>4, <1>6, <1>7, <1>8, LettingGoKeepsIInv

LEMMA FailKeepsIInv ==
    ASSUME IInv, NEW w \in Workers, NEW j \in Jobs, FailJob(w, j)
    PROVE  IInv'
  <1>1. /\ j \in batch[w] /\ handled[w] = NoJob
        /\ attempts' = [attempts EXCEPT ![j] = @ + 1]
        /\ row' = [row EXCEPT ![j] =
              IF attempts[j] + 1 >= MaxAttempts THEN "failed" ELSE "pending"]
        /\ due' = IF attempts[j] + 1 >= MaxAttempts THEN due ELSE due \ {j}
        /\ batch' = [batch EXCEPT ![w] = @ \ {j}]
        /\ handled' = [handled EXCEPT ![w] = NoJob]
        /\ UNCHANGED <<processed, faults>>
    BY DEF FailJob, Drop, CountAttempt, FailedOrPending
  <1>2. row[j] = "processing" /\ j # NoJob
    BY <1>1, JobAssumption DEF IInv, OneWorkerEach
  <1>3. attempts[j] \in 0 .. MaxAttempts /\ attempts[j] < MaxAttempts
    BY <1>2, JobAssumption DEF IInv, JobTypeOK, FailedWhenExhausted
  <1>4. ~(processed[j] > 0)
    BY <1>1, <1>2 DEF IInv, HandledKnown
  <1>5. JobTypeOK'
    <2>1. attempts' \in [Jobs -> 0 .. MaxAttempts]
      BY <1>1, <1>3, JobAssumption DEF IInv, JobTypeOK
    <2>2. QED
      BY <1>1, <2>1 DEF IInv, JobTypeOK
  <1>6. FailedWhenExhausted'
    BY <1>1, <1>3, JobAssumption DEF IInv, JobTypeOK, FailedWhenExhausted
  <1>7. batch' = [batch EXCEPT ![w] = batch[w] \ {j}]
    BY <1>1
  <1> DEFINE left == batch[w] \ {j}
  <1>8. \A k \in Jobs : \/ row'[k] = row[k]
                        \/ /\ k \in batch[w] \ left
                           /\ processed[k] > 0 => row'[k] = "completed"
    BY <1>1, <1>4 DEF IInv, JobTypeOK
  <1>9. left \in SUBSET batch[w] /\ handled[w] \notin left /\ UNCHANGED processed
    BY <1>1, JobAssumption DEF IInv, JobTypeOK
  <1> HIDE DEF left
  <1>10. batch' = [batch EXCEPT ![w] = left] /\ handled' = [handled EXCEPT ![w] = NoJob]
    BY <1>1, <1>7 DEF left
  <1>11. QED
    BY <1>5, <1>6, <1>8, <1>9, <1>10, LettingGoKeepsIInv

LEMMA FaultKeepsIInv ==
    ASSUME IInv, NEW w \in Workers,
           Crash(w) \/ \E j \in Jobs : LoseUpdate(w, j)
    PROVE  IInv'
  <1>1. CASE Crash(w)
    <2>1. /\ JobTypeOK' /\ FailedWhenExhausted'
      BY <1>1, JobAssumption DEF Crash, IInv, JobTypeOK, FailedWhenExhausted
    <2>2. /\ batch' = [batch EXCEPT ![w] = {}] /\ handled' = [handled EXCEPT ![w] = NoJob]
          /\ UNCHANGED <<row, processed>>
      BY <1>1 DEF Crash
    <2>3. QED
      BY <2>1, <2>2, LettingGoKeepsIInv
  <1>2. ASSUME NEW j \in Jobs, LoseUpdate(w, j) PROVE IInv'
    <2>1. /\ JobTypeOK' /\ FailedWhenExhausted'
      BY <1>2, JobAssumption
      DEF LoseUpdate, Drop, IInv, JobTypeOK, FailedWhenExhausted
    <2>2. /\ batch' = [batch EXCEPT ![w] = batch[w] \ {j}]
          /\ handled' = [handled EXCEPT ![w] = NoJob]
          /\ UNCHANGED <<row, processed>>
      BY <1>2 DEF LoseUpdate, Drop
    <2>3. handled[w] \notin batch[w] \ {j}
      BY <1>2, JobAssumption DEF LoseUpdate, IInv, JobTypeOK
    <2>4. QED
      BY <2>1, <2>2, <2>3, LettingGoKeepsIInv
  <1>3. QED
    BY <1>1, <1>2

LEMMA JobNextKeepsIInv == IInv /\ [JobNext]_jobVars => IInv'
  <1> SUFFICES ASSUME IInv, [JobNext]_jobVars PROVE IInv'
    OBVIOUS
  <1>1. CASE UNCHANGED jobVars
    BY <1>1 DEF jobVars, IInv, JobTypeOK, OneWorkerEach, ProcessedOnce,
                FailedWhenExhausted, HandledKnown
  <1>2. CASE \E j \in Jobs : Enqueue(j) \/ BecomesDue(j)
    BY <1>2, EnqueueKeepsIInv, BecomesDueKeepsIInv
  <1>3. ASSUME NEW w \in Workers, Work(w) PROVE IInv'
    BY <1>3, FetchKeepsIInv, HandleKeepsIInv, CompleteKeepsIInv, FailKeepsIInv DEF Work
  <1>4. ASSUME NEW w \in Workers, Crash(w) \/ \E j \in Jobs : LoseUpdate(w, j) PROVE IInv'
    BY <1>4, FaultKeepsIInv
  <1>5. QED
    BY <1>1, <1>2, <1>3, <1>4 DEF JobNext

-----------------------------------------------------------------------------

LEMMA JobIInvAlways == JobSpec => []IInv
  <1>1. JobInit => IInv
    BY JobInitIInv
  <1>2. IInv /\ [JobNext]_jobVars => IInv'
    BY JobNextKeepsIInv
  <1>3. QED
    BY <1>1, <1>2, PTL DEF JobSpec

\* No notification goes out twice: a job is handled with success once at most,
\* however often EnqueueJob is called and workers crash.
THEOREM ProcessedOnceAlways == JobSpec => []ProcessedOnce
  <1>1. IInv => ProcessedOnce
    BY DEF IInv
  <1>2. QED
    BY <1>1, JobIInvAlways, PTL

\* FetchDueJobs never gives a job to a worker while another one is at it.
THEOREM OneWorkerEachAlways == JobSpec => []OneWorkerEach
  <1>1. IInv => OneWorkerEach
    BY DEF IInv
  <1>2. QED
    BY <1>1, JobIInvAlways, PTL

\* FailJob gives a job up exactly when max_attempts is reached.
THEOREM FailedWhenExhaustedAlways == JobSpec => []FailedWhenExhausted
  <1>1. IInv => FailedWhenExhausted
    BY DEF IInv
  <1>2. QED
    BY <1>1, JobIInvAlways, PTL

\* The rows, the attempts and what the workers have in memory keep their types.
THEOREM JobTypeCorrect == JobSpec => []JobTypeOK
  <1>1. IInv => JobTypeOK
    BY DEF IInv
  <1>2. QED
    BY <1>1, JobIInvAlways, PTL

-----------------------------------------------------------------------------
(* What faults leave behind                                                *)

\* A worker has no more than one batch, so that a fault strands no more either.
SmallBatches ==
    \A w \in Workers : IsFiniteSet(batch[w]) /\ Cardinality(batch[w]) <= BatchLimit

StrandInv ==
    /\ JobTypeOK
    /\ SmallBatches
    /\ IsFiniteSet(Stranded)
    /\ OnlyFaultsStrand

LEMMA PartOfBatch ==
  ASSUME NEW S, IsFiniteSet(S), Cardinality(S) <= BatchLimit, NEW T, T \subseteq S
  PROVE  IsFiniteSet(T) /\ Cardinality(T) <= BatchLimit
  <1>1. IsFiniteSet(T) /\ Cardinality(T) <= Cardinality(S)
    BY FS_Subset
  <1>2. Cardinality(T) \in Nat /\ Cardinality(S) \in Nat
    BY <1>1, FS_CardinalityType
  <1>3. QED
    BY <1>1, <1>2, JobAssumption

\* A step without a fault strands nothing.
LEMMA NothingStranded ==
  ASSUME StrandInv, Stranded' \subseteq Stranded, faults' = faults
  PROVE  IsFiniteSet(Stranded') /\ OnlyFaultsStrand'
  <1>1. IsFiniteSet(Stranded') /\ Cardinality(Stranded') <= Cardinality(Stranded)
    BY FS_Subset DEF StrandInv
  <1>2. Cardinality(Stranded') \in Nat /\ Cardinality(Stranded) \in Nat
    BY <1>1, FS_CardinalityType DEF StrandInv
  <1>3. faults * BatchLimit \in Nat
    BY JobAssumption DEF StrandInv, JobTypeOK
  <1>4. QED
    BY <1>1, <1>2, <1>3 DEF StrandInv, OnlyFaultsStrand

\* A fault of w strands what is in its batch.
LEMMA BatchStranded ==
  ASSUME StrandInv, NEW w \in Workers, Stranded' \subseteq Stranded \cup batch[w],
         faults' = faults + 1
  PROVE  IsFiniteSet(Stranded') /\ OnlyFaultsStrand'
  <1> DEFINE both == Stranded \cup batch[w]
  <1>1. /\ IsFiniteSet(Stranded) /\ IsFiniteSet(batch[w])
        /\ Cardinality(batch[w]) <= BatchLimit
        /\ Cardinality(Stranded) <= faults * BatchLimit
    BY DEF StrandInv, SmallBatches, OnlyFaultsStrand
  <1>2. /\ IsFiniteSet(both)
        /\ Cardinality(both) = Cardinality(Stranded) + Cardinality(batch[w])
                                 - Cardinality(Stranded \cap batch[w])
    BY <1>1, FS_Union
  <1>3. IsFiniteSet(Stranded \cap batch[w])
    BY <1>1, FS_Subset
  <1>4. IsFiniteSet(Stranded') /\ Cardinality(Stranded') <= Cardinality(both)
    BY <1>2, FS_Subset
  <1>5. /\ Cardinality(Stranded') \in Nat /\ Cardinality(both) \in Nat
        /\ Cardinality(Stranded) \in Nat /\ Cardinality(batch[w]) \in Nat
        /\ Cardinality(Stranded \cap batch[w]) \in Nat
    BY <1>1, <1>2, <1>3, <1>4, FS_CardinalityType
  <1>6. /\ faults \in Nat /\ BatchLimit \in Nat /\ faults * BatchLimit \in Nat
        /\ (faults + 1) * BatchLimit = faults * BatchLimit + BatchLimit
    BY JobAssumption DEF StrandInv, JobTypeOK
  <1> HIDE DEF both
  <1>7. Cardinality(Stranded') <= faults * BatchLimit + BatchLimit
    BY <1>1, <1>2, <1>4, <1>5, <1>6
  <1>8. QED
    BY <1>4, <1>6, <1>7 DEF OnlyFaultsStrand

LEMMA NextKeepsStranded ==
  ASSUME StrandInv, JobTypeOK', [JobNext]_jobVars
  PROVE  StrandInv'
  <1> USE DEF StrandInv, JobTypeOK
  <1>1. ASSUME \E j \in Jobs : Enqueue(j) \/ BecomesDue(j)
        PROVE  Stranded' \subseteq Stranded /\ UNCHANGED <<batch, faults>>
    BY <1>1 DEF Enqueue, BecomesDue, Stranded
  <1>2. ASSUME UNCHANGED jobVars
        PROVE  Stranded' \subseteq Stranded /\ UNCHANGED <<batch, faults>>
    BY <1>2 DEF jobVars, Stranded
  <1>3. ASSUME NEW w \in Workers, FetchDueJobs(w) PROVE StrandInv'
    <2>1. PICK taken \in SUBSET Jobs :
              /\ IsFiniteSet(taken) /\ Cardinality(taken) <= BatchLimit
              /\ Take(w, taken)
              /\ batch[w] = {} /\ faults' = faults
      BY <1>3 DEF FetchDueJobs
    <2>2. SmallBatches'
      BY <2>1 DEF Take, SmallBatches
    <2>3. Stranded' \subseteq Stranded
      BY <2>1 DEF Take, Stranded
    <2>4. QED
      BY <2>1, <2>2, <2>3, NothingStranded
  <1>4. ASSUME NEW w \in Workers, NEW j \in Jobs,
               HandleJob(w, j) \/ CompleteJob(w, j) \/ FailJob(w, j)
        PROVE  StrandInv'
    <2>1. faults' = faults /\ \A v \in Workers : batch'[v] \subseteq batch[v]
      BY <1>4 DEF HandleJob, CompleteJob, FailJob, Drop
    <2>2. SmallBatches'
      BY <2>1, PartOfBatch DEF SmallBatches
    <2>3. Stranded' \subseteq Stranded
      <3>1. CASE HandleJob(w, j)
        BY <3>1 DEF HandleJob, Stranded
      <3>2. CASE CompleteJob(w, j)
        BY <3>2 DEF CompleteJob, Drop, Stranded
      <3>3. CASE FailJob(w, j)
        BY <3>3 DEF FailJob, FailedOrPending, Drop, Stranded
      <3>4. QED
        BY <1>4, <3>1, <3>2, <3>3
    <2>4. QED
      BY <2>1, <2>2, <2>3, NothingStranded
  <1>5. ASSUME NEW w \in Workers, Crash(w) \/ \E j \in Jobs : LoseUpdate(w, j)
        PROVE  StrandInv'
    <2>1. /\ faults' = faults + 1 /\ row' = row
          /\ \A v \in Workers : batch'[v] \subseteq batch[v]
          /\ \A v \in Workers \ {w} : batch'[v] = batch[v]
      BY <1>5 DEF Crash, LoseUpdate, Drop
    <2>2. SmallBatches'
      BY <2>1, PartOfBatch DEF SmallBatches
    <2>3. Stranded' \subseteq Stranded \cup batch[w]
      BY <2>1 DEF Stranded
    <2>4. QED
      BY <2>1, <2>2, <2>3, BatchStranded
  <1>6. QED
    BY <1>1, <1>2, <1>3, <1>4, <1>5, NothingStranded DEF JobNext, Work, SmallBatches

LEMMA InitStranded == JobInit => StrandInv
  <1> SUFFICES ASSUME JobInit PROVE StrandInv
    OBVIOUS
  <1>1. JobTypeOK
    BY JobInitIInv DEF IInv
  <1>2. Stranded = {}
    BY DEF JobInit, Stranded
  <1>3. IsFiniteSet({}) /\ Cardinality({}) = 0
    BY FS_EmptySet
  <1>4. SmallBatches
    BY <1>3, JobAssumption DEF JobInit, SmallBatches
  <1>5. QED
    BY <1>1, <1>2, <1>3, <1>4, JobAssumption DEF StrandInv, OnlyFaultsStrand, JobInit

\* Whatever the workers, the jobs and their retries are, only crashes and lost
\* updates leave jobs marked that nobody is at, and each leaves one batch at most.
THEOREM OnlyFaultsStrandAlways == JobSpec => []OnlyFaultsStrand
  <1>1. JobInit => StrandInv
    BY InitStranded
  <1>2. StrandInv /\ JobTypeOK' /\ [JobNext]_jobVars => StrandInv'
    BY NextKeepsStranded
  <1>3. StrandInv => OnlyFaultsStrand
    BY DEF StrandInv
  <1>4. QED
    BY <1>1, <1>2, <1>3, JobTypeCorrect, PTL DEF JobSpec
=============================================================================
