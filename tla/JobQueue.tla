------------------------------- MODULE JobQueue -------------------------------
(***************************************************************************)
(* The background_jobs table and the workers that empty it:                *)
(* forecast.Repository's EnqueueJob, FetchDueJobs, CompleteJob and         *)
(* FailJob, and forecast.Worker.Run.  A server starts one worker; there    *)
(* are several while an old and a new server run side by side.             *)
(*                                                                         *)
(* FetchDueJobs locks the rows it selects and skips those that others have *)
(* locked, so a fetch is one action whose effect is that of the commit.    *)
(* The order of run_at is abstracted: any due jobs may be the first ones.  *)
(***************************************************************************)
EXTENDS Naturals, FiniteSets

CONSTANTS
    Jobs,         \* dedupe keys
    Undecodable,  \* jobs whose payload handleJob cannot decode
    Workers,
    MaxAttempts,  \* background_jobs.max_attempts
    BatchLimit,   \* the limit of a fetch
    MaxFaults     \* bound: crashes and lost updates together

NoJob == "none"

ASSUME JobAssumption ==
    /\ NoJob \notin Jobs
    /\ Undecodable \subseteq Jobs
    /\ MaxAttempts \in Nat \ {0}
    /\ BatchLimit \in Nat \ {0}
    /\ MaxFaults \in Nat

VARIABLES
    row,        \* background_jobs.status; "absent" before the job is enqueued
    due,        \* the jobs whose run_at has passed
    attempts,   \* background_jobs.attempts
    batch,      \* batch[w]: jobs that w fetched and has still to process
    handled,    \* handled[w]: the job w handled and has still to complete
    processed,  \* history: how often a job was handled with success
    faults

jobVars == <<row, due, attempts, batch, handled, processed, faults>>

JobTypeOK ==
    /\ row \in [Jobs -> {"absent", "pending", "processing", "completed", "failed"}]
    /\ due \subseteq Jobs
    /\ attempts \in [Jobs -> 0 .. MaxAttempts]
    /\ batch \in [Workers -> SUBSET Jobs]
    /\ handled \in [Workers -> Jobs \cup {NoJob}]
    /\ processed \in [Jobs -> Nat]
    /\ faults \in 0 .. MaxFaults

JobInit ==
    /\ row = [j \in Jobs |-> "absent"]
    /\ due = {}
    /\ attempts = [j \in Jobs |-> 0]
    /\ batch = [w \in Workers |-> {}]
    /\ handled = [w \in Workers |-> NoJob]
    /\ processed = [j \in Jobs |-> 0]
    /\ faults = 0

-----------------------------------------------------------------------------

\* Faulty variant: the conflicting row is overwritten.
EnqueueAnew(j) ==
    /\ row' = [row EXCEPT ![j] = "pending"]
    /\ due' \in {due, due \cup {j}}
    /\ UNCHANGED <<attempts, batch, handled, processed, faults>>

\* ON CONFLICT DO NOTHING: only the first job of a dedupe key gets a row.  It is
\* due at once or, a reminder, later.
Enqueue(j) ==
    /\ row[j] = "absent"
    /\ row' = [row EXCEPT ![j] = "pending"]
    /\ due' \in {due, due \cup {j}}
    /\ UNCHANGED <<attempts, batch, handled, processed, faults>>

\* run_at passes.
BecomesDue(j) ==
    /\ row[j] = "pending" /\ j \notin due
    /\ due' = due \cup {j}
    /\ UNCHANGED <<row, attempts, batch, handled, processed, faults>>

\* Faulty variant: jobs that another worker is at are due as well.
ReadyOrTaken(j) == j \in due /\ row[j] \in {"pending", "processing"}

Ready(j) == j \in due /\ row[j] = "pending"

\* Faulty variant: all due jobs are marked, the limit applies to the result.
FetchMarksAll(w, taken) ==
    /\ batch' = [batch EXCEPT ![w] = taken]
    /\ row' = [j \in Jobs |-> IF Ready(j) THEN "processing" ELSE row[j]]

Take(w, taken) ==
    /\ batch' = [batch EXCEPT ![w] = taken]
    /\ row' = [j \in Jobs |-> IF j \in taken THEN "processing" ELSE row[j]]

\* A tick of an idle worker.
FetchDueJobs(w) ==
    /\ batch[w] = {}
    /\ \E taken \in SUBSET {j \in Jobs : Ready(j)} :
          /\ taken # {}
          /\ IsFiniteSet(taken) /\ Cardinality(taken) <= BatchLimit
          /\ Take(w, taken)
    /\ UNCHANGED <<due, attempts, handled, processed, faults>>

\* handleJob has done its work: a log line, for every kind of job.
HandleJob(w, j) ==
    /\ j \in batch[w] \ Undecodable
    /\ handled[w] = NoJob
    /\ handled' = [handled EXCEPT ![w] = j]
    /\ processed' = [processed EXCEPT ![j] = @ + 1]
    /\ UNCHANGED <<row, due, attempts, batch, faults>>

\* The worker goes on to its next job.
Drop(w, j) ==
    /\ batch' = [batch EXCEPT ![w] = @ \ {j}]
    /\ handled' = [handled EXCEPT ![w] = NoJob]

CompleteJob(w, j) ==
    /\ handled[w] = j
    /\ row' = [row EXCEPT ![j] = "completed"]
    /\ Drop(w, j)
    /\ UNCHANGED <<due, attempts, processed, faults>>

\* Faulty variant: the last attempt is not counted.
FailedAfterOneMore(j) ==
    row' = [row EXCEPT ![j] = IF attempts[j] >= MaxAttempts THEN "failed" ELSE "pending"]

FailedOrPending(j) ==
    row' = [row EXCEPT ![j] = IF attempts[j] + 1 >= MaxAttempts THEN "failed" ELSE "pending"]

\* Faulty variant: the attempt is not counted.
CountNothing(j) == attempts' = attempts

CountAttempt(j) == attempts' = [attempts EXCEPT ![j] = @ + 1]

\* handleJob failed; the next attempt is due after a while.
FailJob(w, j) ==
    /\ j \in batch[w] \cap Undecodable
    /\ handled[w] = NoJob
    /\ CountAttempt(j)
    /\ FailedOrPending(j)
    /\ due' = IF attempts[j] + 1 >= MaxAttempts THEN due ELSE due \ {j}
    /\ Drop(w, j)
    /\ UNCHANGED <<processed, faults>>

\* CompleteJob or FailJob returns an error, which Run ignores.
LoseUpdate(w, j) ==
    /\ faults < MaxFaults
    /\ faults' = faults + 1
    /\ j \in batch[w]
    /\ handled[w] = j \/ (handled[w] = NoJob /\ j \in Undecodable)
    /\ Drop(w, j)
    /\ UNCHANGED <<row, due, attempts, processed>>

\* The server of w ends, by a crash or a signal (no context ever stops a worker),
\* and starts again; the rows stay as they are.
Crash(w) ==
    /\ faults < MaxFaults
    /\ faults' = faults + 1
    /\ batch' = [batch EXCEPT ![w] = {}]
    /\ handled' = [handled EXCEPT ![w] = NoJob]
    /\ UNCHANGED <<row, due, attempts, processed>>

-----------------------------------------------------------------------------

Work(w) ==
    \/ FetchDueJobs(w)
    \/ \E j \in Jobs : HandleJob(w, j) \/ CompleteJob(w, j) \/ FailJob(w, j)

JobNext ==
    \/ \E j \in Jobs : Enqueue(j) \/ BecomesDue(j)
    \/ \E w \in Workers :
          \/ Work(w)
          \/ \E j \in Jobs : LoseUpdate(w, j)
          \/ Crash(w)

\* Time passes, and a worker that is up ticks every two seconds.
JobFairness ==
    /\ \A j \in Jobs : WF_jobVars(BecomesDue(j))
    /\ \A w \in Workers : WF_jobVars(Work(w))

JobSpec == JobInit /\ [][JobNext]_jobVars
FairJobSpec == JobSpec /\ JobFairness

-----------------------------------------------------------------------------
(* Properties                                                              *)

\* No two workers are at the same job, and whatever a worker is at is marked so:
\* SKIP LOCKED and the mark of the fetch keep servers apart.
OneWorkerEach ==
    \A w \in Workers : \A j \in batch[w] :
        /\ row[j] = "processing"
        /\ \A other \in Workers \ {w} : j \notin batch[other]

\* No notification goes out twice, whatever is enqueued again, retried or lost.
ProcessedOnce == \A j \in Jobs : processed[j] <= 1

\* A job is given up exactly when its attempts are used up.
FailedWhenExhausted ==
    \A j \in Jobs : row[j] = "failed" <=> attempts[j] = MaxAttempts

\* The jobs that are marked and that no worker is at.
Stranded == {j \in Jobs : row[j] = "processing" /\ \A w \in Workers : j \notin batch[w]}

\* Jobs are stranded by faults only: a fault strands no more than one batch.
OnlyFaultsStrand == Cardinality(Stranded) <= faults * BatchLimit

\* Every job that is enqueued is completed or given up in the end, unless a fault
\* strands it, and then nobody takes it up again.
EveryJobEnds ==
    \A j \in Jobs :
        row[j] = "pending" ~> (row[j] \in {"completed", "failed"} \/ j \in Stranded)
=============================================================================
