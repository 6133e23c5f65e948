------------------------------ MODULE JobQueue ------------------------------
(***************************************************************************)
(* The database job queue (greenlight_ai/db/queue.py) and the worker loop  *)
(* that drives it (greenlight_ai/worker/app.py).                           *)
(*                                                                         *)
(* A job is one row of the `jobs` table.  A worker polls: in one           *)
(* transaction it gives up on or returns stale claims and takes the next   *)
(* due job; it then runs the job's handler while a heartbeat thread        *)
(* refreshes `locked_at`, and finally marks the job done or failed in a    *)
(* transaction of its own.  `fail` loads the row without locking it and    *)
(* writes it by id later, so a worker that was slow enough to lose its     *)
(* claim may write what it decided about an attempt that is past.          *)
(*                                                                         *)
(* Time is counted in ticks of one heartbeat period.  Columns that hold an *)
(* instant are kept relative to now: `age` is now - locked_at and `wait`   *)
(* is run_after - now, so the model needs no clock that grows.  A statement *)
(* compares against the clock when it runs: `reclaim_stale` reads the clock *)
(* once, at most a tick before its second statement.                       *)
(***************************************************************************)
EXTENDS Naturals, Integers, Sequences

CONSTANTS
    NJobs,       \* job ids are 1..NJobs, in the order of their creation
    Workers,     \* the worker processes
    NoWorker,    \* the empty `locked_by`
    MaxAttempts, \* Job.max_attempts
    StaleAfter,  \* STALE_CLAIM_SECONDS, in ticks
    Backoff,     \* BACKOFF_SECONDS, in ticks
    Grace,       \* the change-your-mind window of a submission, in ticks
    Past,        \* bound: how far in the past run_after is told apart
    Timely       \* TRUE: a live worker's heartbeat is never late

ASSUME NJobsAssumption == NJobs \in Nat
ASSUME WorkersAssumption == NoWorker \notin Workers
ASSUME AttemptsAssumption == MaxAttempts \in Nat \ {0}
ASSUME StaleAssumption == StaleAfter \in Nat /\ StaleAfter > 1
ASSUME BackoffAssumption == Backoff \in Seq(Nat) /\ Len(Backoff) > 0
ASSUME DelayAssumption == Grace \in Nat /\ Past \in Nat
ASSUME TimelyAssumption == Timely \in BOOLEAN

VARIABLES
    job,    \* the jobs table
    worker, \* what each worker process holds in memory
    held    \* queue.paused or maintenance.mode: nothing new is started

vars == <<job, worker, held>>

Jobs == 1 .. NJobs
NoJob == 0

\* "absent": not created yet.  "deleted": the row was removed by a cancellation.
Statuses == {"absent", "queued", "running", "done", "failed", "deleted"}

\* `late` is history, not a column: a worker whose claim was taken over has
\* since put the job back.
JobRow == [status : Statuses, locked_by : Workers \cup {NoWorker},
           age : 0 .. StaleAfter + 1, attempts : Nat, wait : Int, late : BOOLEAN]

\* pc: idle - between polls; polling - inside the claim transaction, after
\* the abandoned jobs were read; working - the handler runs; failing - the
\* handler raised and `fail` has loaded the row as `read`, its heartbeat still
\* going; finishing - the handler returned and the heartbeat stopped, `finish`
\* is not committed yet.
WorkerState == [pc : {"idle", "polling", "working", "failing", "finishing"},
                job : Jobs \cup {NoJob}, doomed : SUBSET Jobs, beating : BOOLEAN,
                read : [status : Statuses, attempts : Nat]]

TypeOK ==
    /\ job \in [Jobs -> JobRow]
    /\ worker \in [Workers -> WorkerState]
    /\ held \in BOOLEAN

NoRow == [status |-> "absent", locked_by |-> NoWorker,
          age |-> 0, attempts |-> 0, wait |-> 0, late |-> FALSE]
NoRead == [status |-> "absent", attempts |-> 0]
Idle == [pc |-> "idle", job |-> NoJob, doomed |-> {}, beating |-> FALSE, read |-> NoRead]

Init ==
    /\ job = [j \in Jobs |-> NoRow]
    /\ worker = [w \in Workers |-> Idle]
    /\ held = FALSE

-----------------------------------------------------------------------------
(* What the queue's statements select on. *)

Executing(w) == worker[w].pc \in {"working", "failing", "finishing"}
Alive(w) == worker[w].pc \in {"working", "failing"} /\ worker[w].beating
LastAttempt(j) == job[j].attempts >= MaxAttempts
\* Faulty variant: the window is no longer than the heartbeat period.
StaleTooSoon(j) == job[j].status = "running" /\ job[j].age >= 1
Stale(j) == job[j].status = "running" /\ job[j].age > StaleAfter
\* Faulty variant: any stale job is given up on.
AbandonedAny == {j \in Jobs : Stale(j)}
Abandoned == {j \in Jobs : Stale(j) /\ LastAttempt(j)}
Due(row) == row.status = "queued" /\ row.wait <= 0

\* ORDER BY run_after, id LIMIT 1 over the due jobs of a table.
IsNext(table, j) ==
    /\ Due(table[j])
    /\ \A k \in Jobs : Due(table[k]) =>
         \/ table[j].wait < table[k].wait
         \/ table[j].wait = table[k].wait /\ j <= k

RetryDelay(attempts) ==
    Backoff[IF attempts <= Len(Backoff) THEN attempts ELSE Len(Backoff)]

-----------------------------------------------------------------------------
(* The queue's operations. *)

\* A submission, a re-check request or the retention sweep adds a job.  Ids
\* are given in order.
Enqueue(j, wait) ==
    /\ job[j].status = "absent"
    /\ \A k \in 1 .. j - 1 : job[k].status # "absent"
    /\ job' = [job EXCEPT ![j] = [NoRow EXCEPT !.status = "queued", !.wait = wait]]

\* A row whose claim is given up, and a row that is taken by a worker.
Released(row, status) ==
    [row EXCEPT !.status = status, !.locked_by = NoWorker, !.age = 0]
Taken(row, w) ==
    [row EXCEPT !.status = "running", !.locked_by = w, !.age = 0, !.attempts = @ + 1]

\* Faulty variants: only the hopeless jobs are dealt with; stale jobs go back
\* whatever their attempts.
ReclaimedNoReturn(doomed) ==
    [j \in Jobs |-> IF j \in doomed THEN Released(job[j], "failed") ELSE job[j]]
ReclaimedForEver(doomed) ==
    [j \in Jobs |-> IF Stale(j) THEN Released(job[j], "queued") ELSE job[j]]

\* The table after `reclaim_stale`, which fails the jobs read as abandoned
\* whatever became of them since, unless they are gone, and returns the other
\* stale ones.
Reclaimed(doomed) ==
    [j \in Jobs |->
        IF j \in doomed /\ job[j].status # "deleted" THEN Released(job[j], "failed")
        ELSE IF Stale(j) /\ ~LastAttempt(j) THEN Released(job[j], "queued")
        ELSE job[j]]

\* A worker opens its claim transaction: the queue is not held, and the jobs
\* to give up on are read.
Poll(w) ==
    /\ worker[w].pc = "idle"
    /\ ~held
    /\ worker' = [worker EXCEPT ![w] = [@ EXCEPT !.pc = "polling", !.doomed = Abandoned]]
    /\ UNCHANGED <<job, held>>

\* The rest of that transaction, when a job is due: it is taken.
Claim(w) ==
    /\ worker[w].pc = "polling"
    /\ LET table == Reclaimed(worker[w].doomed) IN
       \E j \in Jobs :
         /\ IsNext(table, j)
         /\ job' = [table EXCEPT ![j] = Taken(@, w)]
         /\ worker' = [worker EXCEPT ![w] =
                         [Idle EXCEPT !.pc = "working", !.job = j, !.beating = TRUE]]
    /\ UNCHANGED held

\* The rest of that transaction, when nothing is due.
ClaimNothing(w) ==
    /\ worker[w].pc = "polling"
    /\ LET table == Reclaimed(worker[w].doomed) IN
         /\ \A j \in Jobs : ~Due(table[j])
         /\ job' = table
    /\ worker' = [worker EXCEPT ![w] = Idle]
    /\ UNCHANGED held

\* One wake of the heartbeat thread: `touch`, and the thread ends when the
\* row is no longer running.
Heartbeat(w) ==
    /\ Alive(w)
    /\ LET j == worker[w].job IN
       IF job[j].status = "running"
       THEN /\ job[j].age > 0
            /\ job' = [job EXCEPT ![j].age = 0]
            /\ UNCHANGED worker
       ELSE /\ worker' = [worker EXCEPT ![w].beating = FALSE]
            /\ UNCHANGED job
    /\ UNCHANGED held

\* The handler returned: the heartbeat is stopped before `finish` commits.
Return(w) ==
    /\ worker[w].pc = "working"
    /\ worker' = [worker EXCEPT ![w] = [@ EXCEPT !.pc = "finishing", !.beating = FALSE]]
    /\ UNCHANGED <<job, held>>

\* `finish` updates the row by id alone.
Finish(w) ==
    /\ worker[w].pc = "finishing"
    /\ LET j == worker[w].job IN
       job' = IF job[j].status = "deleted" THEN job
              ELSE [job EXCEPT ![j].status = "done"]
    /\ worker' = [worker EXCEPT ![w] = Idle]
    /\ UNCHANGED held

\* A row that `fail` puts back, having loaded it as `read`.  A column that
\* already had its new value when it was loaded is not written.
Retried(read, row) ==
    [IF read.status = "queued" THEN row ELSE Released(row, "queued")
       EXCEPT !.wait = RetryDelay(read.attempts),
              !.late = @ \/ read.attempts < row.attempts]

\* Faulty variant: a failure is always retried.
FailedAlwaysRetries(read, row) ==
    IF "deleted" \in {read.status, row.status} THEN row ELSE Retried(read, row)

\* The row after `fail` wrote, by id alone, what it decided from `read`.
Failed(read, row) ==
    IF "deleted" \in {read.status, row.status} \/ read.status = "failed" THEN row
    ELSE IF read.attempts >= MaxAttempts THEN [row EXCEPT !.status = "failed"]
    ELSE Retried(read, row)

\* The handler raised: `_handle_failure` opens its transaction, and `fail`
\* loads the row.
FailRead(w) ==
    /\ worker[w].pc = "working"
    /\ LET row == job[worker[w].job] IN
       worker' = [worker EXCEPT ![w] =
         [@ EXCEPT !.pc = "failing",
                   !.read = [status |-> row.status, attempts |-> row.attempts]]]
    /\ UNCHANGED <<job, held>>

\* Its flush and commit.  An update of a row that is gone raises, and the
\* process starts again.
FailWrite(w) ==
    /\ worker[w].pc = "failing"
    /\ job' = [job EXCEPT ![worker[w].job] = Failed(worker[w].read, @)]
    /\ worker' = [worker EXCEPT ![w] = Idle]
    /\ UNCHANGED held

\* The process dies while it holds a job, and its container starts it again.
\* Dying inside a claim transaction rolls it back, which changes nothing.
Crash(w) ==
    /\ Executing(w)
    /\ worker' = [worker EXCEPT ![w] = Idle]
    /\ UNCHANGED <<job, held>>

\* A run is cancelled before a worker took its job.
Drop(j) ==
    /\ job[j].status = "queued"
    /\ job' = [job EXCEPT ![j].status = "deleted"]
    /\ UNCHANGED <<worker, held>>

\* An administrator holds or releases the queue.
SetHold ==
    /\ held' = ~held
    /\ UNCHANGED <<job, worker>>

-----------------------------------------------------------------------------
(* Time. *)

\* A heartbeat is due, or `finish` has been pending for the whole window.
Overdue(w) ==
    LET age == job[worker[w].job].age IN
    \/ Alive(w) /\ age >= 1
    \/ worker[w].pc = "finishing" /\ age >= StaleAfter

Aged(row) ==
    [row EXCEPT !.age = IF row.status = "running" /\ @ <= StaleAfter THEN @ + 1 ELSE @,
                !.wait = IF row.status \in {"queued", "running"} /\ @ > -Past
                         THEN @ - 1 ELSE @]

Tick ==
    /\ Timely => \A w \in Workers : ~Overdue(w)
    /\ job' = [j \in Jobs |-> Aged(job[j])]
    /\ job' # job
    /\ UNCHANGED <<worker, held>>

-----------------------------------------------------------------------------
Submit(j) == \E wait \in {0, Grace} : Enqueue(j, wait) /\ UNCHANGED <<worker, held>>

Step(w) ==
    \/ Poll(w) \/ Claim(w) \/ ClaimNothing(w)
    \/ Return(w) \/ Finish(w) \/ FailRead(w) \/ FailWrite(w)

Next ==
    \/ \E j \in Jobs : Submit(j) \/ Drop(j)
    \/ \E w \in Workers : Step(w) \/ Heartbeat(w) \/ Crash(w)
    \/ SetHold
    \/ Tick

Spec == Init /\ [][Next]_vars

\* A worker process keeps polling, a handler ends (every model call in it has
\* a timeout), the heartbeat thread keeps waking and time passes.  Nobody has
\* to submit, cancel, crash, or release a held queue.
Fairness ==
    /\ WF_vars(Tick)
    /\ \A w \in Workers : WF_vars(Step(w)) /\ WF_vars(Heartbeat(w))

FairSpec == Spec /\ Fairness

-----------------------------------------------------------------------------
(* Correctness properties. *)

\* A job has at most one live worker: nobody else takes a job while the
\* process that claimed it is still executing it.
OneOwner ==
    \A v, w \in Workers :
        Executing(v) /\ Executing(w) /\ worker[v].job = worker[w].job => v = w

\* The row of a job that is being executed says so: it is running, and names
\* the worker that executes it.
ClaimRecorded ==
    \A w \in Workers : Executing(w) =>
        LET row == job[worker[w].job] IN row.status = "running" /\ row.locked_by = w

\* A job is never tried more than max_attempts times, and is given up on only
\* after that many: neither a crash, a reclaim nor a stalled worker costs or
\* saves an attempt.  The one way past the maximum is a failure written late,
\* from what was read before the job was taken over and claimed again.
GivenUpFairly ==
    \A j \in Jobs :
        /\ job[j].attempts > MaxAttempts => job[j].late
        /\ job[j].status = "failed" => job[j].attempts >= MaxAttempts

\* A job that was done or given up on is never run again or decided again.
Ended(j) == job[j].status \in {"done", "failed", "deleted"}
EndedForGood == [][\A j \in Jobs : Ended(j) => job'[j].status = job[j].status]_vars

\* A heartbeat that finds its row running belongs to the row's owner: a worker
\* whose claim was taken over learns so ("somebody else has already taken it").
HeartbeatIsOwn ==
    [][\A w \in Workers :
         Heartbeat(w) /\ job[worker[w].job].status = "running"
            => job[worker[w].job].locked_by = w]_vars

\* Unless the queue is held for ever, every submitted job comes to an end.
EveryJobEnds ==
    (<>[]~held) => \A j \in Jobs : (job[j].status = "queued") ~> Ended(j)

-----------------------------------------------------------------------------
(* The queue implements the service, when heartbeats are timely. *)

Holder(j) ==
    IF \E w \in Workers : Executing(w) /\ worker[w].job = j
    THEN job[j].locked_by ELSE NoWorker

Service == INSTANCE JobService WITH
    state <- [j \in Jobs |-> job[j].status],
    tries <- [j \in Jobs |-> job[j].attempts],
    holder <- [j \in Jobs |-> Holder(j)]

\* Whatever claims, heartbeats, crashes and reclaims interleave, what is seen
\* of the jobs is a behaviour of the service.
ImplementsService == Service!Spec
=============================================================================
