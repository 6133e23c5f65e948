---------------------------- MODULE RunLifecycle ----------------------------
(***************************************************************************)
(* The life of a run from submission to a verdict: the status column of    *)
(* `runs`, the jobs that move it, the worker's two transactions around the *)
(* pipeline (worker/runner.py), what a failure or a reclaim does to it     *)
(* (worker/app.py, db/queue.py) and the requests that accept, cancel,      *)
(* re-check and finalize it (api/routers/runs.py, reports.py).             *)
(*                                                                         *)
(* It composes with JobQueue: every worker step here is a step of the      *)
(* queue together with what the same transaction does to the run.  The     *)
(* queue promises nothing about runs; this module is about the two tables  *)
(* agreeing.                                                               *)
(***************************************************************************)
EXTENDS Naturals, Integers, Sequences, FiniteSets

CONSTANTS
    NJobs, Workers, NoWorker, MaxAttempts, StaleAfter, Backoff, Grace, Past,
    Timely,      \* as in JobQueue
    Runs,        \* the runs
    Requests     \* the API's request handlers

ASSUME QueueAssumption ==
    /\ NJobs \in Nat /\ NoWorker \notin Workers
    /\ MaxAttempts \in Nat \ {0}
    /\ StaleAfter \in Nat /\ StaleAfter > 1
    /\ Backoff \in Seq(Nat) /\ Len(Backoff) > 0
    /\ Grace \in Nat /\ Past \in Nat
    /\ Timely \in BOOLEAN

VARIABLES
    job, worker, held, \* as in JobQueue
    run,     \* the runs table
    work,    \* the run and task columns of the jobs table
    phase,   \* how far a worker is in its handler
    request  \* what an open API request has read

queueVars == <<job, worker, held>>
vars == <<job, worker, held, run, work, phase, request>>

Q == INSTANCE JobQueue

RunStatuses == {"absent", "held", "queued", "running", "needs_review", "finalized",
                "failed", "cancelled", "gone"}
\* `started`: started_at is set.  `frozen`: the run's row in final_reports exists.
RunRow == [status : RunStatuses, started : BOOLEAN, frozen : BOOLEAN]
NewRun == [status |-> "absent", started |-> FALSE, frozen |-> FALSE]

NoWork == [task |-> "none"]
Tasks == {"run_pipeline", "recheck"}

NoRequest == [op |-> "none"]
RequestState ==
    {NoRequest} \cup [op : {"accept"}, run : Runs]
                \cup [op : {"cancel"}, run : Runs, listed : SUBSET Q!Jobs]

TypeOK ==
    /\ Q!TypeOK
    /\ run \in [Runs -> RunRow]
    /\ work \in [Q!Jobs -> {NoWork} \cup [run : Runs, task : Tasks]]
    /\ phase \in [Workers -> {"none", "claimed", "executing", "saved", "raising"}]
    /\ request \in [Requests -> RequestState]

Init ==
    /\ Q!Init
    /\ run = [r \in Runs |-> NewRun]
    /\ work = [j \in Q!Jobs |-> NoWork]
    /\ phase = [w \in Workers |-> "none"]
    /\ request = [q \in Requests |-> NoRequest]

-----------------------------------------------------------------------------
Status(r) == run[r].status
Exists(r) == Status(r) \notin {"absent", "gone"}
JobsOf(r) == {j \in Q!Jobs : work[j] # NoWork /\ work[j].run = r}
Active(j) == job[j].status \in {"queued", "running"}

SetStatus(r, s) == [run EXCEPT ![r].status = s]

\* A job for the run, claimable once its delay has passed.
EnqueueFor(r, task, wait) ==
    \E j \in Q!Jobs :
        /\ Q!Enqueue(j, wait)
        /\ work' = [work EXCEPT ![j] = [run |-> r, task |-> task]]
        /\ UNCHANGED <<worker, held>>

-----------------------------------------------------------------------------
(* Submission and review. *)

\* A new delivery whose artifacts agree with the form is queued behind its
\* grace period, and one whose artifacts disagree is held without a job.
Submit(r) ==
    /\ Status(r) = "absent"
    /\ \/ /\ run' = SetStatus(r, "queued")
          /\ EnqueueFor(r, "run_pipeline", Grace)
       \/ /\ run' = SetStatus(r, "held")
          /\ UNCHANGED <<queueVars, work>>
    /\ UNCHANGED <<phase, request>>

\* A reviewer asks for a re-check, with or without an edit.
RequestRecheck(r) ==
    /\ Status(r) = "needs_review"
    /\ EnqueueFor(r, "recheck", 0)
    /\ UNCHANGED <<run, phase, request>>

\* A reviewed run is frozen, once.
Finalize(r) ==
    /\ Status(r) \in {"needs_review", "finalized"}
    /\ ~run[r].frozen
    /\ run' = [run EXCEPT ![r] = [@ EXCEPT !.status = "finalized", !.frozen = TRUE]]
    /\ UNCHANGED <<queueVars, work, phase, request>>

\* The retention sweep deletes an expired run whatever its status.  Its jobs
\* stay: `jobs.run_id` is no foreign key.
Purge(r) ==
    /\ Exists(r)
    /\ run' = [run EXCEPT ![r] = [NewRun EXCEPT !.status = "gone"]]
    /\ UNCHANGED <<queueVars, work, phase, request>>

-----------------------------------------------------------------------------
(* Requests that read, decide and commit. *)

\* Faulty variant: any run with a disagreement may be accepted.
AcceptReadUnguarded(q, r) ==
    /\ request[q] = NoRequest
    /\ Exists(r)
    /\ request' = [request EXCEPT ![q] = [op |-> "accept", run |-> r]]
    /\ UNCHANGED <<queueVars, run, work, phase>>

\* Somebody accepts the last outstanding disagreement of a held run.
AcceptRead(q, r) ==
    /\ request[q] = NoRequest
    /\ Status(r) = "held"
    /\ request' = [request EXCEPT ![q] = [op |-> "accept", run |-> r]]
    /\ UNCHANGED <<queueVars, run, work, phase>>

AcceptCommit(q) ==
    /\ request[q].op = "accept"
    /\ LET r == request[q].run IN
       IF Exists(r)
       THEN run' = SetStatus(r, "queued") /\ EnqueueFor(r, "run_pipeline", Grace)
       ELSE UNCHANGED <<queueVars, run, work>>
    /\ request' = [request EXCEPT ![q] = NoRequest]
    /\ UNCHANGED phase

\* Faulty variant: a claimed job does not refuse the cancellation.
CancelReadBlind(q, r) ==
    /\ request[q] = NoRequest
    /\ Status(r) \in {"queued", "held"}
    /\ request' = [request EXCEPT ![q] =
         [op |-> "cancel", run |-> r, listed |-> {j \in JobsOf(r) : job[j].status = "queued"}]]
    /\ UNCHANGED <<queueVars, run, work, phase>>

\* A cancellation: refused once a job of the run is running, otherwise the
\* pending jobs are listed.
CancelRead(q, r) ==
    /\ request[q] = NoRequest
    /\ Status(r) \in {"queued", "held"}
    /\ \A j \in JobsOf(r) : job[j].status # "running"
    /\ request' = [request EXCEPT ![q] =
         [op |-> "cancel", run |-> r, listed |-> {j \in JobsOf(r) : job[j].status = "queued"}]]
    /\ UNCHANGED <<queueVars, run, work, phase>>

\* The listed rows are deleted by id and the run is cancelled.
CancelCommit(q) ==
    /\ request[q].op = "cancel"
    /\ LET r == request[q].run IN
       IF Exists(r)
       THEN /\ run' = SetStatus(r, "cancelled")
            /\ job' = [j \in Q!Jobs |-> IF j \in request[q].listed
                                        THEN [job[j] EXCEPT !.status = "deleted"] ELSE job[j]]
       ELSE UNCHANGED <<run, job>>
    /\ request' = [request EXCEPT ![q] = NoRequest]
    /\ UNCHANGED <<worker, held, work, phase>>

-----------------------------------------------------------------------------
(* The worker. *)

\* Faulty variant: nobody tells the runs.
RunsNotTold(doomed) == run

\* `reclaim_stale` fails the waiting or running runs of the jobs it gives up on.
RunsGivenUp(doomed) ==
    [r \in Runs |->
        IF Status(r) \in {"queued", "running"} /\ doomed \cap JobsOf(r) # {}
        THEN [run[r] EXCEPT !.status = "failed"] ELSE run[r]]

Poll(w) == Q!Poll(w) /\ UNCHANGED <<run, work, phase, request>>

Claim(w) ==
    /\ Q!Claim(w)
    /\ run' = RunsGivenUp(worker[w].doomed)
    /\ phase' = [phase EXCEPT ![w] = "claimed"]
    /\ UNCHANGED <<work, request>>

ClaimNothing(w) ==
    /\ Q!ClaimNothing(w)
    /\ run' = RunsGivenUp(worker[w].doomed)
    /\ UNCHANGED <<work, phase, request>>

MyRun(w) == work[worker[w].job].run
MyTask(w) == work[worker[w].job].task
At(w, p) == worker[w].pc = "working" /\ phase[w] = p

\* The handler's first transaction.  A pipeline marks its run running, unless
\* it is gone or held; a re-check changes no status.
Start(w) ==
    /\ At(w, "claimed")
    /\ LET r == MyRun(w)
           refused == ~Exists(r) \/ (MyTask(w) = "run_pipeline" /\ Status(r) = "held")
       IN IF refused
          THEN /\ phase' = [phase EXCEPT ![w] = "raising"]
               /\ UNCHANGED run
          ELSE /\ phase' = [phase EXCEPT ![w] = "executing"]
               /\ run' = IF MyTask(w) = "run_pipeline"
                         THEN [run EXCEPT ![r] = [@ EXCEPT !.status = "running", !.started = TRUE]]
                         ELSE run
    /\ UNCHANGED <<queueVars, work, request>>

\* The second transaction, when every stage succeeded.
SaveSuccess(w) ==
    /\ At(w, "executing")
    /\ Exists(MyRun(w))
    /\ run' = IF MyTask(w) = "run_pipeline" THEN SetStatus(MyRun(w), "needs_review") ELSE run
    /\ phase' = [phase EXCEPT ![w] = "saved"]
    /\ UNCHANGED <<queueVars, work, request>>

\* The second transaction, when a stage of the pipeline failed: the run shows
\* the failure before the queue decides about a retry.
SaveFailure(w) ==
    /\ At(w, "executing")
    /\ Exists(MyRun(w)) /\ MyTask(w) = "run_pipeline"
    /\ run' = SetStatus(MyRun(w), "failed")
    /\ phase' = [phase EXCEPT ![w] = "raising"]
    /\ UNCHANGED <<queueVars, work, request>>

\* Anything else that raises out of the handler; its transaction rolls back.
Raise(w) ==
    /\ At(w, "claimed") \/ At(w, "executing")
    /\ phase' = [phase EXCEPT ![w] = "raising"]
    /\ UNCHANGED <<queueVars, run, work, request>>

Return(w) ==
    /\ At(w, "saved")
    /\ Q!Return(w)
    /\ phase' = [phase EXCEPT ![w] = "none"]
    /\ UNCHANGED <<run, work, request>>

Finish(w) == Q!Finish(w) /\ UNCHANGED <<run, work, phase, request>>

\* Faulty variant: a dead job leaves its run waiting.
StatusForgiving(willRetry) == "queued"

StatusAfterFailure(willRetry) == IF willRetry THEN "queued" ELSE "failed"

FailRead(w) == At(w, "raising") /\ Q!FailRead(w) /\ UNCHANGED <<run, work, phase, request>>

\* One transaction: the queue's verdict on the job, and the run's status after
\* it.  A failed re-check leaves the run where it was, and a row deleted since
\* it was loaded rolls the whole of it back.
FailWrite(w) ==
    /\ Q!FailWrite(w)
    /\ LET r == MyRun(w)
           read == worker[w].read
           willRetry == read.status # "deleted" /\ read.attempts < MaxAttempts
           rolledBack == read.status # "deleted" /\ job[worker[w].job].status = "deleted"
       IN run' = IF Exists(r) /\ MyTask(w) # "recheck" /\ ~rolledBack
                 THEN SetStatus(r, StatusAfterFailure(willRetry)) ELSE run
    /\ phase' = [phase EXCEPT ![w] = "none"]
    /\ UNCHANGED <<work, request>>

Crash(w) ==
    /\ Q!Crash(w)
    /\ phase' = [phase EXCEPT ![w] = "none"]
    /\ UNCHANGED <<run, work, request>>

Heartbeat(w) == Q!Heartbeat(w) /\ UNCHANGED <<run, work, phase, request>>
SetHold == Q!SetHold /\ UNCHANGED <<run, work, phase, request>>
Tick == Q!Tick /\ UNCHANGED <<run, work, phase, request>>

-----------------------------------------------------------------------------
Step(w) ==
    \/ Poll(w) \/ Claim(w) \/ ClaimNothing(w)
    \/ Start(w) \/ SaveSuccess(w) \/ SaveFailure(w) \/ Raise(w)
    \/ Return(w) \/ Finish(w) \/ FailRead(w) \/ FailWrite(w)

Commit(q) == AcceptCommit(q) \/ CancelCommit(q)

Next ==
    \/ \E r \in Runs : Submit(r) \/ RequestRecheck(r) \/ Finalize(r) \/ Purge(r)
    \/ \E q \in Requests, r \in Runs : AcceptRead(q, r) \/ CancelRead(q, r)
    \/ \E q \in Requests : Commit(q)
    \/ \E w \in Workers : Step(w) \/ Heartbeat(w) \/ Crash(w)
    \/ SetHold
    \/ Tick

Spec == Init /\ [][Next]_vars

\* Action constraint: nobody commits between a request's reads and its commit.
Serial == \A q \in Requests : request[q] # NoRequest => request'[q] = NoRequest

\* Workers, heartbeats and time as in JobQueue; a request that was received
\* commits.
FairSpec ==
    /\ Spec
    /\ WF_vars(Tick)
    /\ \A w \in Workers : WF_vars(Step(w)) /\ WF_vars(Heartbeat(w))
    /\ \A q \in Requests : WF_vars(Commit(q))

-----------------------------------------------------------------------------
(* Correctness properties. *)

\* A run that says it waits or runs has a job that will move it: no run is
\* "left running with no job and nothing watching".
SomebodyIsOnIt ==
    \A r \in Runs : Status(r) \in {"queued", "running"} =>
        \E j \in JobsOf(r) : Active(j) /\ work[j].task = "run_pipeline"

\* Two workers never run the pipeline of one run at the same time.
OnePipeline ==
    \A v, w \in Workers :
        /\ At(v, "executing") /\ MyTask(v) = "run_pipeline"
        /\ At(w, "executing") /\ MyTask(w) = "run_pipeline"
        /\ MyRun(v) = MyRun(w)
        => v = w

\* A run whose failure is final was tried as often as a run may be.
FailedAfterEveryTry ==
    \A r \in Runs :
        Status(r) = "failed" /\ (\A j \in JobsOf(r) : ~Active(j)) =>
            \E j \in JobsOf(r) : job[j].attempts = MaxAttempts

\* Cancelling is final: no step brings a cancelled run back.
CancelledForGood ==
    [][\A r \in Runs : Status(r) = "cancelled" => run'[r].status \in {"cancelled", "gone"}]_vars

\* Only a run that has not started can be cancelled.
CancelledUnstarted == \A r \in Runs : Status(r) = "cancelled" => ~run[r].started

\* A run awaiting a retry does not flash "failed" and then recover.
NoFailedFlash ==
    [][\A r \in Runs : Status(r) = "failed" => run'[r].status # "queued"]_vars

\* A frozen report's run is finalized: the queue does not take back a run whose
\* report was "stored once and never regenerated".
FrozenIsFinalized == \A r \in Runs : run[r].frozen => Status(r) = "finalized"

\* Unless the queue is held for ever, a submitted run comes to rest: reviewed,
\* failed, cancelled or deleted.
EveryRunRests ==
    (<>[]~held) => \A r \in Runs :
        Status(r) = "queued" ~> Status(r) \notin {"queued", "running"}
=============================================================================
