------------------------- MODULE RunLifecycle_proofs -------------------------
(***************************************************************************)
(* Proofs about RunLifecycle, for any runs, jobs, workers and requests,    *)
(* when heartbeats are timely and nothing is committed between a request's *)
(* reads and its commit.                                                   *)
(*                                                                         *)
(* The invariant ties the two tables together: a run has one pipeline job  *)
(* at most, from its submission on, so that whoever executes a pipeline is *)
(* the only one who can, and a job that is about to be marked done is not  *)
(* the one a waiting run counts on.                                        *)
(***************************************************************************)
EXTENDS RunLifecycle, Evidence, Subsequences_proofs, FiniteSetTheorems, TLAPS

\* The queue, with what is proved about it.
QP == INSTANCE JobQueue_proofs

-----------------------------------------------------------------------------
(* The invariant. *)

Pipeline(j) == work[j] # NoWork /\ work[j].task = "run_pipeline"

\* The columns a job is created with are those of the rows there are.
RowsHaveWork == \A j \in Q!Jobs : work[j] = NoWork <=> job[j].status = "absent"

\* A run is queued for its pipeline once.
OnePipelineJob ==
    \A i, j \in Q!Jobs : Pipeline(i) /\ Pipeline(j) /\ work[i].run = work[j].run => i = j

\* A run that was not queued yet has no job.
NoJobBeforeQueued == \A r \in Runs : Status(r) \in {"absent", "held"} => JobsOf(r) = {}

\* A cancelled run has none that could start.
NoJobAfterCancel ==
    \A r \in Runs : Status(r) = "cancelled" => \A j \in JobsOf(r) : ~Active(j)

\* Behind a pipeline that was saved, its run does not wait.
Saved(w) == At(w, "saved") \/ worker[w].pc = "finishing"
SavedIsSettled ==
    \A w \in Workers : Saved(w) /\ Pipeline(worker[w].job) =>
        Status(MyRun(w)) \notin {"queued", "running"}

\* What a request has read is so until it commits, and nobody else is at it.
ReadsAreTrue ==
    \A q \in Requests :
        LET r == request[q].run IN
        /\ request[q].op = "accept" => Status(r) = "held"
        /\ request[q].op = "cancel" =>
             /\ Status(r) \in {"queued", "held"}
             /\ request[q].listed = {j \in JobsOf(r) : Active(j)}
             /\ \A j \in request[q].listed : job[j].status = "queued"
OneRequest ==
    \A p, q \in Requests : request[p] # NoRequest /\ request[q] # NoRequest => p = q

Agreement == /\ RowsHaveWork /\ OnePipelineJob /\ NoJobBeforeQueued /\ NoJobAfterCancel
             /\ SavedIsSettled /\ ReadsAreTrue /\ OneRequest /\ SomebodyIsOnIt

Typed == /\ run \in [Runs -> RunRow]
         /\ work \in [Q!Jobs -> {NoWork} \cup [run : Runs, task : Tasks]]
         /\ phase \in [Workers -> {"none", "claimed", "executing", "saved", "raising"}]
         /\ request \in [Requests -> RequestState]

IInv == QP!IInv /\ Typed /\ Agreement

-----------------------------------------------------------------------------
(* The queue. Q and QP are instances of one module: a step of the one is the *)
(* same step of the other.                                                   *)

LEMMA SameTerms ==
    /\ Q!Jobs = QP!Jobs /\ Q!Idle = QP!Idle /\ Q!NoRow = QP!NoRow
    /\ \A row, s : Q!Released(row, s) = QP!Released(row, s)
    /\ \A row, w : Q!Taken(row, w) = QP!Taken(row, w)
    /\ \A read, row : Q!Failed(read, row) = QP!Failed(read, row)
    /\ \A j : Q!Stale(j) <=> QP!Stale(j)
    /\ \A j : Q!LastAttempt(j) <=> QP!LastAttempt(j)
    /\ \A w : Q!Executing(w) <=> QP!Executing(w)
<1>1. Q!Jobs = QP!Jobs  BY DEF Q!Jobs, QP!Jobs
<1>2. Q!Idle = QP!Idle /\ Q!NoRow = QP!NoRow
  BY DEF Q!Idle, QP!Idle, Q!NoRow, QP!NoRow, Q!NoJob, QP!NoJob, Q!NoRead, QP!NoRead
<1>3. \A row, s : Q!Released(row, s) = QP!Released(row, s)
  BY DEF Q!Released, QP!Released
<1>4. \A row, w : Q!Taken(row, w) = QP!Taken(row, w)
  BY DEF Q!Taken, QP!Taken
<1>5. \A read, row : Q!Failed(read, row) = QP!Failed(read, row)
  <2>1. \A n : Q!RetryDelay(n) = QP!RetryDelay(n)  BY DEF Q!RetryDelay, QP!RetryDelay
  <2>2. \A read, row : Q!Retried(read, row) = QP!Retried(read, row)
    BY <1>3, <2>1 DEF Q!Retried, QP!Retried
  <2> QED  BY <2>2 DEF Q!Failed, QP!Failed
<1>6. \A j : Q!Stale(j) <=> QP!Stale(j)  BY DEF Q!Stale, QP!Stale
<1>7. \A j : Q!LastAttempt(j) <=> QP!LastAttempt(j)
  BY DEF Q!LastAttempt, QP!LastAttempt
<1>8. \A w : Q!Executing(w) <=> QP!Executing(w)  BY DEF Q!Executing, QP!Executing
<1> QED  BY <1>1, <1>2, <1>3, <1>4, <1>5, <1>6, <1>7, <1>8

LEMMA SameSteps ==
    ASSUME NEW w \in Workers
    PROVE  /\ Q!Poll(w) => QP!Poll(w)
           /\ Q!Claim(w) => QP!Claim(w)
           /\ Q!ClaimNothing(w) => QP!ClaimNothing(w)
           /\ Q!Return(w) => QP!Return(w)
           /\ Q!Finish(w) => QP!Finish(w)
           /\ Q!FailRead(w) => QP!FailRead(w)
           /\ Q!FailWrite(w) => QP!FailWrite(w)
           /\ Q!Crash(w) => QP!Crash(w)
           /\ Q!Heartbeat(w) => QP!Heartbeat(w)
<1> USE SameTerms
<1>1. \A d : Q!Reclaimed(d) = QP!Reclaimed(d)  BY DEF Q!Reclaimed, QP!Reclaimed
<1>2. \A t, j : Q!IsNext(t, j) <=> QP!IsNext(t, j)
  BY DEF Q!IsNext, QP!IsNext, Q!Due, QP!Due
<1>3. Q!Poll(w) => QP!Poll(w)  BY DEF Q!Poll, QP!Poll, Q!Abandoned, QP!Abandoned
<1>4. Q!Claim(w) => QP!Claim(w)  BY <1>1, <1>2 DEF Q!Claim, QP!Claim
<1>5. Q!ClaimNothing(w) => QP!ClaimNothing(w)
  BY <1>1 DEF Q!ClaimNothing, QP!ClaimNothing, Q!Due, QP!Due
<1>6. Q!Return(w) => QP!Return(w)  BY DEF Q!Return, QP!Return
<1>7. Q!Finish(w) => QP!Finish(w)  BY DEF Q!Finish, QP!Finish
<1>8. Q!FailWrite(w) => QP!FailWrite(w)  BY DEF Q!FailWrite, QP!FailWrite
<1>11. Q!FailRead(w) => QP!FailRead(w)  BY DEF Q!FailRead, QP!FailRead
<1>9. Q!Crash(w) => QP!Crash(w)  BY DEF Q!Crash, QP!Crash
<1>10. Q!Heartbeat(w) => QP!Heartbeat(w)  BY DEF Q!Heartbeat, QP!Heartbeat, Q!Alive, QP!Alive
<1> HIDE SameTerms
<1> QED  BY <1>3, <1>4, <1>5, <1>6, <1>7, <1>8, <1>9, <1>10, <1>11

LEMMA SameOthers ==
    /\ Q!Init => QP!Init
    /\ Q!SetHold => QP!SetHold
    /\ Q!Tick => QP!Tick
    /\ \A j \in Q!Jobs, wait \in {0, Grace} :
          Q!Enqueue(j, wait) /\ UNCHANGED <<worker, held>> => QP!Submit(j)
<1> USE SameTerms
<1>1. Q!Init => QP!Init  BY DEF Q!Init, QP!Init
<1>2. Q!SetHold => QP!SetHold  BY DEF Q!SetHold, QP!SetHold
<1>3. Q!Tick => QP!Tick
  BY DEF Q!Tick, QP!Tick, Q!Overdue, QP!Overdue, Q!Alive, QP!Alive, Q!Aged, QP!Aged
<1>4. \A j \in Q!Jobs, wait \in {0, Grace} :
         Q!Enqueue(j, wait) /\ UNCHANGED <<worker, held>> => QP!Submit(j)
  BY DEF Q!Enqueue, QP!Enqueue, QP!Submit
<1> HIDE SameTerms
<1> QED  BY <1>1, <1>2, <1>3, <1>4

\* What the queue's invariant says to the runs.
LEMMA QueueFacts ==
    ASSUME QP!IInv
    PROVE  /\ Q!TypeOK
           /\ \A w \in Workers : Q!Executing(w) =>
                 worker[w].job \in Q!Jobs /\ job[worker[w].job].status = "running"
           /\ \A w \in Workers : worker[w].pc = "failing" =>
                 /\ worker[w].read.status = "running"
                 /\ worker[w].read.attempts = job[worker[w].job].attempts
           /\ \A v, w \in Workers :
                 Q!Executing(v) /\ Q!Executing(w) /\ worker[v].job = worker[w].job => v = w
           /\ \A w \in Workers : \A j \in worker[w].doomed :
                 j \in Q!Jobs /\ job[j].status \in {"running", "failed"}
<1> USE SameTerms DEF QP!IInv
<1>1. Q!TypeOK
  BY DEF Q!TypeOK, QP!TypeOK, Q!JobRow, QP!JobRow, Q!Statuses, QP!Statuses,
         Q!WorkerState, QP!WorkerState, Q!NoJob, QP!NoJob
<1>2. \A w \in Workers : Q!Executing(w) =>
         /\ worker[w].job \in Q!Jobs
         /\ job[worker[w].job].status = "running" /\ job[worker[w].job].locked_by = w
  BY DEF QP!ClaimRecorded, QP!Fresh
<1>3. \A w \in Workers : \A j \in worker[w].doomed :
         j \in Q!Jobs /\ job[j].status \in {"running", "failed"}
  BY DEF QP!DoomedAreDead, QP!TypeOK, QP!WorkerState
<1>4. \A w \in Workers : worker[w].pc = "failing" =>
         /\ worker[w].read.status = "running"
         /\ worker[w].read.attempts = job[worker[w].job].attempts
  BY DEF QP!ReadIsCurrent
<1> HIDE SameTerms DEF QP!IInv
<1> QED  BY <1>1, <1>2, <1>3, <1>4

\* A step of the queue keeps its invariant.
LEMMA QueueKept ==
    ASSUME Timely, QP!IInv,
           \/ UNCHANGED queueVars
           \/ QP!SetHold \/ QP!Tick \/ \E j \in Q!Jobs : QP!Submit(j)
           \/ \E w \in Workers : QP!Step(w) \/ QP!Heartbeat(w) \/ QP!Crash(w)
    PROVE  QP!IInv'
<1>1. [QP!Next]_(QP!vars)  BY SameTerms DEF QP!Next, QP!vars, queueVars
<1> QED  BY <1>1, QueueAssumption, QP!NextIInv

\* What `reclaim_stale` leaves of a row.
LEMMA TableMoves ==
    ASSUME QP!IInv, NEW w \in Workers, NEW k \in Q!Jobs
    PROVE  LET row == Q!Reclaimed(worker[w].doomed)[k] IN
           /\ k \in worker[w].doomed => row.status = "failed" /\ job[k].status \in {"running", "failed"}
           /\ k \notin worker[w].doomed =>
                row.status = job[k].status \/ (job[k].status = "running" /\ row.status = "queued")
<1>1. job[k] \in Q!JobRow  BY QueueFacts DEF Q!TypeOK
<1>2. \A s : Q!Released(job[k], s).status = s
  BY <1>1 DEF Q!JobRow, Q!Released
<1>3. CASE k \in worker[w].doomed
  BY <1>2, <1>3, QueueFacts DEF Q!Reclaimed
<1>4. CASE k \notin worker[w].doomed /\ Q!Stale(k) /\ ~Q!LastAttempt(k)
  BY <1>2, <1>4 DEF Q!Reclaimed, Q!Stale
<1>5. CASE k \notin worker[w].doomed /\ ~(Q!Stale(k) /\ ~Q!LastAttempt(k))
  BY <1>5 DEF Q!Reclaimed
<1> QED  BY <1>3, <1>4, <1>5

\* A job that a claim did not give up on is as active as it was.
LEMMA ClaimMoves ==
    ASSUME QP!IInv, NEW w \in Workers, Q!Claim(w) \/ Q!ClaimNothing(w)
    PROVE  /\ \A k \in Q!Jobs :
                /\ job'[k].status = "absent" <=> job[k].status = "absent"
                /\ Active(k)' => Active(k)
                /\ k \notin worker[w].doomed => (Active(k) => Active(k)')
           /\ \A v \in Workers : v # w => worker'[v] = worker[v]
           /\ worker'[w].pc = "idle" \/ Q!Claim(w)
<1> DEFINE table == Q!Reclaimed(worker[w].doomed)
<1>1. worker \in [Workers -> Q!WorkerState]  BY QueueFacts DEF Q!TypeOK
<1>2. CASE Q!ClaimNothing(w)
  <2>1. job' = table /\ worker' = [worker EXCEPT ![w] = Q!Idle]
    BY <1>2 DEF Q!ClaimNothing
  <2>2. \A v \in Workers : v # w => worker'[v] = worker[v]  BY <1>1, <2>1
  <2>3. worker'[w].pc = "idle"  BY <1>1, <2>1 DEF Q!Idle
  <2>4. \A k \in Q!Jobs : job'[k].status = table[k].status  BY <2>1
  <2> HIDE DEF table
  <2>5. ASSUME NEW k \in Q!Jobs
        PROVE  /\ job'[k].status = "absent" <=> job[k].status = "absent"
               /\ Active(k)' => Active(k)
               /\ k \notin worker[w].doomed => (Active(k) => Active(k)')
    BY <2>4, TableMoves DEF Active, table
  <2> QED  BY <2>2, <2>3, <2>5
<1>3. CASE Q!Claim(w)
  <2>1. PICK j \in Q!Jobs :
          /\ Q!IsNext(table, j)
          /\ job' = [table EXCEPT ![j] = Q!Taken(@, w)]
          /\ worker' = [worker EXCEPT ![w] =
               [Q!Idle EXCEPT !.pc = "working", !.job = j, !.beating = TRUE]]
    BY <1>3 DEF Q!Claim
  <2>2. \A v \in Workers : v # w => worker'[v] = worker[v]  BY <1>1, <2>1
  <2>4. table[j].status = "queued"  BY <2>1 DEF Q!IsNext, Q!Due
  <2>5. /\ DOMAIN table = Q!Jobs
        /\ table[j] \in Q!JobRow
    <3>1. DOMAIN table = Q!Jobs  BY DEF Q!Reclaimed
    <3>2. table[j] \in Q!JobRow
      <4>1. QP!Reclaimed(worker[w].doomed) \in [QP!Jobs -> QP!JobRow]
        BY QP!ReclaimedType, QueueAssumption DEF QP!IInv, QP!TypeOK, QP!WorkerState
      <4>2. Q!Reclaimed(worker[w].doomed) = QP!Reclaimed(worker[w].doomed)
        BY SameTerms DEF Q!Reclaimed, QP!Reclaimed
      <4> QED  BY <4>1, <4>2, SameTerms DEF Q!JobRow, QP!JobRow, Q!Statuses, QP!Statuses
    <3> QED  BY <3>1, <3>2
  <2>6. \A k \in Q!Jobs : job'[k].status = IF k = j THEN "running" ELSE table[k].status
    <3>1. Q!Taken(table[j], w).status = "running"  BY <2>5 DEF Q!Taken, Q!JobRow
    <3> HIDE DEF table
    <3> QED  BY <2>1, <2>5, <3>1
  <2> HIDE DEF table
  <2>7. ASSUME NEW k \in Q!Jobs
        PROVE  /\ job'[k].status = "absent" <=> job[k].status = "absent"
               /\ Active(k)' => Active(k)
               /\ k \notin worker[w].doomed => (Active(k) => Active(k)')
    BY <2>4, <2>6, TableMoves DEF Active, table
  <2> QED  BY <1>3, <2>2, <2>7
<1> QED  BY <1>2, <1>3

-----------------------------------------------------------------------------
(* Keeping the agreement. *)

\* A step that asks nothing of a request and creates no job keeps it, if it
\* revives no job and no run, and leaves somebody on every run that waits.
LEMMA Calm ==
    ASSUME IInv, UNCHANGED <<work, request>>,
           \A q \in Requests : request[q] = NoRequest,
           \A k \in Q!Jobs :
              /\ job'[k].status = "absent" <=> job[k].status = "absent"
              /\ job'[k].status \in {"queued", "running"} => job[k].status \in {"queued", "running"},
           \A s \in Runs :
              /\ run'[s].status \in {"absent", "held"} => run[s].status \in {"absent", "held"}
              /\ run'[s].status = "cancelled" => run[s].status = "cancelled",
           SomebodyIsOnIt', SavedIsSettled'
    PROVE  Agreement'
<1> USE DEF IInv, Agreement, Active, Status
<1>1. RowsHaveWork'  BY DEF RowsHaveWork
<1>2. OnePipelineJob'  BY DEF OnePipelineJob, Pipeline
<1>3. NoJobBeforeQueued'  BY DEF NoJobBeforeQueued, JobsOf
<1>4. NoJobAfterCancel'  BY DEF NoJobAfterCancel, JobsOf
<1>5. ReadsAreTrue' /\ OneRequest'  BY DEF ReadsAreTrue, OneRequest, NoRequest
<1> QED  BY <1>1, <1>2, <1>3, <1>4, <1>5

\* A step the runs do not notice.
LEMMA Unnoticed ==
    ASSUME IInv, UNCHANGED <<run, work, request>>,
           \A k \in Q!Jobs : job'[k].status = job[k].status,
           \A w \in Workers : Saved(w)' => Saved(w) /\ worker'[w].job = worker[w].job
    PROVE  Agreement'
<1> USE DEF IInv, Agreement
<1>1. RowsHaveWork'  BY DEF RowsHaveWork
<1>2. OnePipelineJob'  BY DEF OnePipelineJob, Pipeline
<1>3. NoJobBeforeQueued'  BY DEF NoJobBeforeQueued, JobsOf, Status
<1>4. NoJobAfterCancel'  BY DEF NoJobAfterCancel, JobsOf, Status, Active
<1>5. SavedIsSettled'  BY DEF SavedIsSettled, Pipeline, MyRun, Status
<1>6. \A r : JobsOf(r)' = JobsOf(r)  BY DEF JobsOf
<1>7. ReadsAreTrue'
  <2>1. \A r : {j \in JobsOf(r)' : Active(j)'} = {j \in JobsOf(r) : Active(j)}
    BY <1>6 DEF JobsOf, Active
  <2>2. \A q \in Requests : request[q].op = "cancel" => request[q].listed \subseteq Q!Jobs
    BY DEF Typed, RequestState, NoRequest
  <2> QED  BY <2>1, <2>2 DEF ReadsAreTrue, Status
<1>8. OneRequest'  BY DEF OneRequest
<1>9. SomebodyIsOnIt'  BY <1>6 DEF SomebodyIsOnIt, Status, Active, JobsOf
<1> QED  BY <1>1, <1>2, <1>3, <1>4, <1>5, <1>7, <1>8, <1>9

Waits(r) == Status(r) \in {"queued", "running"}

LEMMA StillOnIt ==
    ASSUME IInv, UNCHANGED work,
           \A s \in Runs : Waits(s)' =>
              Waits(s) /\ \A k \in JobsOf(s) : Pipeline(k) /\ Active(k) => Active(k)'
    PROVE  SomebodyIsOnIt'
BY DEF IInv, Agreement, SomebodyIsOnIt, Waits, JobsOf, Pipeline

LEMMA StillSettled ==
    ASSUME IInv, UNCHANGED work,
           \A v \in Workers : Saved(v)' => Saved(v) /\ worker'[v].job = worker[v].job,
           \A s \in Runs : Waits(s)' => Waits(s)
    PROVE  SavedIsSettled'
<1>1. ASSUME NEW w \in Workers, Saved(w), Pipeline(worker[w].job)
      PROVE  MyRun(w) \in Runs
  <2>1. worker[w].job \in Q!Jobs  BY <1>1, QueueFacts DEF IInv, Saved, At, Q!Executing
  <2> QED  BY <1>1, <2>1 DEF IInv, Typed, Pipeline, MyRun
<1> QED  BY <1>1 DEF IInv, Agreement, SavedIsSettled, Waits, Pipeline, MyRun

\* The run of a worker's job, and what its row says of the job.
LEMMA AtWork ==
    ASSUME IInv, NEW w \in Workers, Q!Executing(w)
    PROVE  /\ worker[w].job \in Q!Jobs /\ job[worker[w].job].status = "running"
           /\ work[worker[w].job] # NoWork
           /\ MyRun(w) \in Runs /\ MyTask(w) \in Tasks
           /\ worker[w].job \in JobsOf(MyRun(w))
           /\ Pipeline(worker[w].job) <=> MyTask(w) = "run_pipeline"
           /\ Status(MyRun(w)) \notin {"absent", "held", "cancelled"}
<1>1. worker[w].job \in Q!Jobs /\ job[worker[w].job].status = "running"
  BY QueueFacts DEF IInv
<1>2. work[worker[w].job] # NoWork  BY <1>1 DEF IInv, Agreement, RowsHaveWork
<1>3. /\ MyRun(w) \in Runs /\ MyTask(w) \in Tasks
      /\ Pipeline(worker[w].job) <=> MyTask(w) = "run_pipeline"
  BY <1>1, <1>2 DEF IInv, Typed, MyRun, MyTask, Pipeline
<1>4. worker[w].job \in JobsOf(MyRun(w))  BY <1>1, <1>2 DEF JobsOf, MyRun
<1>5. Status(MyRun(w)) \notin {"absent", "held", "cancelled"}
  BY <1>1, <1>3, <1>4 DEF IInv, Agreement, NoJobBeforeQueued, NoJobAfterCancel, Active
<1> QED  BY <1>1, <1>2, <1>3, <1>4, <1>5

-----------------------------------------------------------------------------
(* The runs' own steps. *)

LEMMA NobodyAsked ==
    ASSUME Serial, UNCHANGED request
    PROVE  \A q \in Requests : request[q] = NoRequest
BY DEF Serial

\* The run of one job, or of no job, comes to rest.
LEMMA Settling ==
    ASSUME IInv, Serial, UNCHANGED <<queueVars, work, request>>, NEW r \in Runs,
           \A s \in Runs : s # r => run'[s] = run[s],
           \/ run'[r].status \in {"needs_review", "finalized", "failed", "gone"}
           \/ run[r].status = "absent" /\ run'[r].status = "held",
           \A v \in Workers : Saved(v)' =>
              Saved(v) \/ (Pipeline(worker[v].job) => MyRun(v) = r)
    PROVE  Agreement'
<1>1. \A s \in Runs : Status(s)' = IF s = r THEN run'[r].status ELSE Status(s)
  BY DEF Status
<1>2. \A s \in Runs : Waits(s)' => s # r /\ Waits(s)  BY <1>1 DEF Waits
<1>3. SomebodyIsOnIt'
  <2>1. \A k : Active(k)' <=> Active(k)  BY DEF Active, queueVars
  <2> QED  BY <1>2, <2>1, StillOnIt
<1>4. SavedIsSettled'
  <2> SUFFICES ASSUME NEW w \in Workers, Saved(w)', Pipeline(worker[w].job)
               PROVE  ~Waits(MyRun(w))'
    BY DEF SavedIsSettled, Pipeline, Waits, queueVars, MyRun
  <2>1. Q!Executing(w)  BY DEF Saved, At, Q!Executing, queueVars
  <2>2. MyRun(w) \in Runs /\ MyRun(w)' = MyRun(w)  BY <2>1, AtWork DEF MyRun, queueVars
  <2>3. CASE Saved(w)
    BY <2>2, <2>3, <1>2 DEF IInv, Agreement, SavedIsSettled, Waits, Status
  <2>4. CASE MyRun(w) = r
    BY <2>2, <2>4, <1>2 DEF Waits, Status
  <2> QED  BY <2>3, <2>4
<1>5. \A s \in Runs : /\ Status(s)' \in {"absent", "held"} => Status(s) \in {"absent", "held"}
                     /\ Status(s)' = "cancelled" => Status(s) = "cancelled"
  BY <1>1
<1>6. \A k \in Q!Jobs : /\ job'[k].status = "absent" <=> job[k].status = "absent"
                        /\ Active(k)' => Active(k)
  BY DEF queueVars, Active
<1>7. \A q \in Requests : request[q] = NoRequest  BY NobodyAsked
<1> QED  BY <1>3, <1>4, <1>5, <1>6, <1>7, Calm DEF Active, Status

LEMMA SubmitHeld ==
    ASSUME IInv, Serial, NEW r \in Runs, Status(r) = "absent", run' = SetStatus(r, "held"),
           UNCHANGED <<queueVars, work, phase, request>>
    PROVE  Agreement'
<1>1. /\ \A s \in Runs : s # r => run'[s] = run[s]
      /\ run[r].status = "absent" /\ run'[r].status = "held"
  BY DEF IInv, Typed, RunRow, SetStatus, Status
<1>2. \A v \in Workers : Saved(v)' => Saved(v)  BY DEF Saved, At, queueVars
<1> QED  BY <1>1, <1>2, Settling

LEMMA FinalizeAgrees ==
    ASSUME IInv, Serial, NEW r \in Runs, Finalize(r)
    PROVE  Agreement'
<1>1. /\ \A s \in Runs : s # r => run'[s] = run[s]
      /\ run'[r].status = "finalized"
  BY DEF IInv, Typed, RunRow, Finalize
<1>2. \A v \in Workers : Saved(v)' => Saved(v)  BY DEF Finalize, Saved, At, queueVars
<1>3. UNCHANGED <<queueVars, work, request>>  BY DEF Finalize
<1> QED  BY <1>1, <1>2, <1>3, Settling

LEMMA PurgeAgrees ==
    ASSUME IInv, Serial, NEW r \in Runs, Purge(r)
    PROVE  Agreement'
<1>1. /\ \A s \in Runs : s # r => run'[s] = run[s]
      /\ run'[r].status = "gone"
  BY DEF IInv, Typed, RunRow, NewRun, Purge
<1>2. \A v \in Workers : Saved(v)' => Saved(v)  BY DEF Purge, Saved, At, queueVars
<1>3. UNCHANGED <<queueVars, work, request>>  BY DEF Purge
<1> QED  BY <1>1, <1>2, <1>3, Settling

\* A worker's second transaction settles the run of a pipeline.
LEMMA SaveAgrees ==
    ASSUME IInv, Serial, NEW w \in Workers, SaveSuccess(w) \/ SaveFailure(w)
    PROVE  Agreement'
<1>1. Q!Executing(w) /\ UNCHANGED <<queueVars, work, request>>
  BY DEF SaveSuccess, SaveFailure, At, Q!Executing
<1>2. MyRun(w) \in Runs /\ (Pipeline(worker[w].job) <=> MyTask(w) = "run_pipeline")
  BY <1>1, AtWork
<1>3. phase' = [phase EXCEPT ![w] = "saved"] \/ phase' = [phase EXCEPT ![w] = "raising"]
  BY DEF SaveSuccess, SaveFailure
<1>4. \A v \in Workers : Saved(v)' => Saved(v) \/ v = w
  BY <1>1, <1>3 DEF Saved, At, IInv, Typed, queueVars
<1>5. CASE MyTask(w) = "run_pipeline"
  <2>1. PICK t \in {"needs_review", "failed"} : run' = SetStatus(MyRun(w), t)
    BY <1>5 DEF SaveSuccess, SaveFailure
  <2>2. PICK r \in Runs : r = MyRun(w)  BY <1>2
  <2>3. /\ \A s \in Runs : s # r => run'[s] = run[s]
        /\ run'[r].status \in {"needs_review", "failed"}
    BY <2>1, <2>2 DEF IInv, Typed, RunRow, SetStatus
  <2>4. \A v \in Workers : Saved(v)' => Saved(v) \/ (Pipeline(worker[v].job) => MyRun(v) = r)
    BY <1>4, <2>2
  <2> QED  BY <1>1, <2>3, <2>4, Settling
<1>6. CASE MyTask(w) # "run_pipeline"
  <2>1. UNCHANGED run /\ ~Pipeline(worker[w].job)
    BY <1>2, <1>6 DEF SaveSuccess, SaveFailure
  <2>2. SavedIsSettled'
    BY <1>1, <1>4, <2>1 DEF IInv, Agreement, SavedIsSettled, Pipeline, MyRun, Status, queueVars
  <2>3. SomebodyIsOnIt'
    BY <1>1, <2>1 DEF IInv, Agreement, SomebodyIsOnIt, JobsOf, Status, Active, queueVars
  <2> QED  BY <1>1, <2>1, <2>2, <2>3, NobodyAsked, Calm DEF Status, Active, queueVars
<1> QED  BY <1>5, <1>6

-----------------------------------------------------------------------------
(* New jobs and requests. *)

\* A pipeline is queued for a run that never had a job, and a re-check for one
\* that awaits review.
LEMMA EnqueueAgrees ==
    ASSUME IInv, NEW r \in Runs, NEW task \in Tasks, NEW wait, EnqueueFor(r, task, wait),
           UNCHANGED phase, \A q \in Requests : request'[q] = NoRequest,
           \A s \in Runs : s # r => run'[s] = run[s],
           \/ /\ task = "run_pipeline" /\ run[r].status \in {"absent", "held"}
              /\ run'[r].status = "queued"
           \/ task = "recheck" /\ run[r].status = "needs_review" /\ run'[r] = run[r]
    PROVE  Agreement'
<1> USE DEF IInv, Agreement
<1>1. PICK j \in Q!Jobs : Q!Enqueue(j, wait) /\ UNCHANGED <<worker, held>>
                         /\ work' = [work EXCEPT ![j] = [run |-> r, task |-> task]]
  BY DEF EnqueueFor
<1>2. /\ job[j].status = "absent" /\ job'[j].status = "queued"
      /\ \A k \in Q!Jobs : k # j => job'[k] = job[k]
  BY <1>1, QueueFacts DEF Q!Enqueue, Q!NoRow, Q!TypeOK
<1>3. /\ work[j] = NoWork /\ work'[j] = [run |-> r, task |-> task]
      /\ work'[j] # NoWork
      /\ \A k \in Q!Jobs : k # j => work'[k] = work[k]
  BY <1>1, <1>2 DEF RowsHaveWork, Typed, NoWork
<1>4. \A s \in Runs : Status(s)' = IF s = r THEN run'[r].status ELSE Status(s)  BY DEF Status
<1>5. \A s : JobsOf(s)' = IF s = r THEN JobsOf(s) \cup {j} ELSE JobsOf(s)
  BY <1>3 DEF JobsOf
<1>6. \A k \in Q!Jobs : k # j => (Pipeline(k)' <=> Pipeline(k))  BY <1>3 DEF Pipeline
<1>7. Pipeline(j)' <=> task = "run_pipeline"  BY <1>3 DEF Pipeline
<1>8. Pipeline(j)' => \A k \in Q!Jobs : Pipeline(k) => work[k].run # r
  BY <1>7 DEF NoJobBeforeQueued, JobsOf, Pipeline, Status, Tasks
<1>9. \A w \in Workers : Saved(w)' => Saved(w) /\ worker[w].job \in Q!Jobs \ {j}
                                      /\ worker'[w] = worker[w]
  <2>1. \A w \in Workers : Q!Executing(w) => worker[w].job \in Q!Jobs \ {j}
    BY <1>2, QueueFacts
  <2> QED  BY <1>1, <2>1 DEF Saved, At, Q!Executing
<1>10. RowsHaveWork'  BY <1>2, <1>3 DEF RowsHaveWork
<1>11. OnePipelineJob'
  <2>1. ASSUME NEW k \in Q!Jobs, NEW l \in Q!Jobs, Pipeline(k)', Pipeline(l)',
               work'[k].run = work'[l].run
        PROVE  k = l
    <3>1. CASE k = j /\ l # j  BY <2>1, <3>1, <1>3, <1>6, <1>8
    <3>2. CASE l = j /\ k # j  BY <2>1, <3>2, <1>3, <1>6, <1>8
    <3>3. CASE k # j /\ l # j  BY <2>1, <3>3, <1>3, <1>6 DEF OnePipelineJob
    <3> QED  BY <3>1, <3>2, <3>3
  <2> QED  BY <2>1 DEF OnePipelineJob, Pipeline
<1>12. NoJobBeforeQueued'
  BY <1>4, <1>5 DEF NoJobBeforeQueued
<1>13. NoJobAfterCancel'
  <2>1. \A s \in Runs : Status(s)' = "cancelled" => s # r /\ Status(s) = "cancelled"
    BY <1>4 DEF Status
  <2> QED  BY <2>1, <1>2, <1>5 DEF NoJobAfterCancel, Active, JobsOf
<1>14. SavedIsSettled'
  <2> SUFFICES ASSUME NEW w \in Workers, Saved(w)', Pipeline(worker[w].job)'
               PROVE  Status(MyRun(w))' \notin {"queued", "running"}
    BY DEF SavedIsSettled
  <2>1. Saved(w) /\ worker'[w] = worker[w] /\ worker[w].job \in Q!Jobs \ {j}  BY <1>9
  <2>2. Pipeline(worker[w].job) /\ MyRun(w)' = MyRun(w)
    BY <2>1, <1>3, <1>6 DEF MyRun, Pipeline
  <2>3. MyRun(w) \in Runs /\ Status(MyRun(w)) \notin {"queued", "running", "absent", "held"}
    BY <2>1, <2>2, AtWork DEF SavedIsSettled, Saved, At, Q!Executing
  <2>4. Status(MyRun(w))' = Status(MyRun(w))
    BY <2>2, <2>3 DEF Status
  <2> QED  BY <2>2, <2>3, <2>4 DEF Status
<1>15. SomebodyIsOnIt'
  <2> SUFFICES ASSUME NEW s \in Runs, Status(s)' \in {"queued", "running"}
               PROVE  \E k \in JobsOf(s)' : Active(k)' /\ work'[k].task = "run_pipeline"
    BY DEF SomebodyIsOnIt
  <2>1. CASE s = r
    <3>1. task = "run_pipeline"  BY <2>1, <1>4 DEF Status
    <3> QED  BY <2>1, <3>1, <1>2, <1>3, <1>5 DEF Active
  <2>2. CASE s # r
    <3>1. PICK k \in JobsOf(s) : Active(k) /\ work[k].task = "run_pipeline"
      BY <2>2, <1>4 DEF SomebodyIsOnIt
    <3>2. k \in Q!Jobs \ {j} /\ k \in JobsOf(s)'
      BY <3>1, <1>2, <1>5 DEF Active, JobsOf
    <3> QED  BY <3>1, <3>2, <1>2, <1>3 DEF Active
  <2> QED  BY <2>1, <2>2
<1>16. ReadsAreTrue' /\ OneRequest'  BY DEF ReadsAreTrue, OneRequest, NoRequest
<1> QED  BY <1>10, <1>11, <1>12, <1>13, <1>14, <1>15, <1>16

LEMMA SubmitAgrees ==
    ASSUME IInv, Serial, NEW r \in Runs, Submit(r)
    PROVE  Agreement'
<1>1. /\ Status(r) = "absent" /\ UNCHANGED <<phase, request>>
      /\ \/ run' = SetStatus(r, "queued") /\ EnqueueFor(r, "run_pipeline", Grace)
         \/ run' = SetStatus(r, "held") /\ UNCHANGED <<queueVars, work>>
  BY DEF Submit
<1>2. CASE run' = SetStatus(r, "held") /\ UNCHANGED <<queueVars, work>>
  BY <1>1, <1>2, SubmitHeld
<1>3. CASE run' = SetStatus(r, "queued") /\ EnqueueFor(r, "run_pipeline", Grace)
  <2>1. /\ \A s \in Runs : s # r => run'[s] = run[s]
        /\ run[r].status \in {"absent", "held"} /\ run'[r].status = "queued"
    BY <1>1, <1>3 DEF IInv, Typed, RunRow, SetStatus, Status
  <2>2. \A q \in Requests : request'[q] = NoRequest  BY <1>1, NobodyAsked
  <2>3. "run_pipeline" \in Tasks  BY DEF Tasks
  <2> QED  BY <1>1, <1>3, <2>1, <2>2, <2>3, EnqueueAgrees
<1> QED  BY <1>1, <1>2, <1>3

LEMMA RecheckAgrees ==
    ASSUME IInv, Serial, NEW r \in Runs, RequestRecheck(r)
    PROVE  Agreement'
<1>1. /\ run[r].status = "needs_review" /\ EnqueueFor(r, "recheck", 0)
      /\ UNCHANGED <<run, phase, request>>
  BY DEF RequestRecheck, Status
<1>2. \A q \in Requests : request'[q] = NoRequest  BY <1>1, NobodyAsked
<1>3. "recheck" \in Tasks  BY DEF Tasks
<1> QED  BY <1>1, <1>2, <1>3, EnqueueAgrees

\* The request that is received is the only one there is.
LEMMA ReadAgrees ==
    ASSUME IInv, Serial, NEW q \in Requests, NEW r \in Runs, AcceptRead(q, r) \/ CancelRead(q, r)
    PROVE  Agreement'
<1> USE DEF IInv, Agreement
<1>1. UNCHANGED <<queueVars, run, work, phase>>  BY DEF AcceptRead, CancelRead
<1>2. PICK new : request' = [request EXCEPT ![q] = new]
  BY DEF AcceptRead, CancelRead
<1>3. \A p \in Requests : p # q => request[p] = NoRequest /\ request'[p] = NoRequest
  BY <1>2 DEF Serial, Typed
<1>4. RowsHaveWork' /\ OnePipelineJob' /\ NoJobBeforeQueued'
  BY <1>1 DEF RowsHaveWork, OnePipelineJob, Pipeline, NoJobBeforeQueued, JobsOf, Status, queueVars
<1>5. NoJobAfterCancel' /\ SavedIsSettled'
  BY <1>1 DEF NoJobAfterCancel, SavedIsSettled, JobsOf, Status, Active, Saved, At, Pipeline,
              MyRun, queueVars
<1>6. SomebodyIsOnIt'
  BY <1>1 DEF SomebodyIsOnIt, JobsOf, Status, Active, queueVars
<1>7. OneRequest'  BY <1>3 DEF OneRequest
<1>8. ReadsAreTrue'
  <2>1. \A p \in Requests : p # q => request'[p].op = "none"
    BY <1>3 DEF NoRequest
  <2>2. CASE AcceptRead(q, r)
    <3>1. request'[q] = [op |-> "accept", run |-> r] /\ run[r].status = "held"
      BY <2>2 DEF AcceptRead, Typed, Status
    <3> QED  BY <3>1, <2>1, <1>1 DEF ReadsAreTrue, Status
  <2>3. CASE CancelRead(q, r)
    <3> DEFINE listed == {j \in JobsOf(r) : job[j].status = "queued"}
    <3>1. /\ request'[q] = [op |-> "cancel", run |-> r, listed |-> listed]
          /\ Status(r) \in {"queued", "held"}
          /\ \A j \in JobsOf(r) : job[j].status # "running"
      BY <2>3 DEF CancelRead, Typed
    <3>2. listed = {j \in JobsOf(r) : Active(j)}  BY <3>1 DEF Active
    <3>3. listed = {j \in JobsOf(r)' : Active(j)'} /\ \A j \in listed : job'[j].status = "queued"
      BY <3>2, <1>1 DEF JobsOf, Active, queueVars
    <3> HIDE DEF listed
    <3> QED  BY <3>1, <3>3, <2>1, <1>1 DEF ReadsAreTrue, Status
  <2> QED  BY <2>2, <2>3
<1> QED  BY <1>4, <1>5, <1>6, <1>7, <1>8

LEMMA AcceptCommitAgrees ==
    ASSUME IInv, Serial, NEW q \in Requests, AcceptCommit(q)
    PROVE  Agreement'
<1>1. request[q].op = "accept" /\ request' = [request EXCEPT ![q] = NoRequest]
  BY DEF AcceptCommit
<1>2. PICK r \in Runs : r = request[q].run
  BY <1>1 DEF IInv, Typed, RequestState, NoRequest
<1>3. Status(r) = "held"  BY <1>1, <1>2 DEF IInv, Agreement, ReadsAreTrue
<1>4. /\ run' = SetStatus(r, "queued") /\ EnqueueFor(r, "run_pipeline", Grace)
      /\ UNCHANGED phase
  BY <1>2, <1>3 DEF AcceptCommit, Exists
<1>5. /\ \A s \in Runs : s # r => run'[s] = run[s]
      /\ run[r].status \in {"absent", "held"} /\ run'[r].status = "queued"
  BY <1>3, <1>4 DEF IInv, Typed, RunRow, SetStatus, Status
<1>6. \A p \in Requests : request'[p] = NoRequest
  BY <1>1 DEF IInv, Typed, Agreement, OneRequest, NoRequest
<1>7. "run_pipeline" \in Tasks  BY DEF Tasks
<1> QED  BY <1>4, <1>5, <1>6, <1>7, EnqueueAgrees

\* What was listed is still all there is of the run, so that nothing is left
\* of it that could start.
LEMMA CancelCommitAgrees ==
    ASSUME IInv, Serial, NEW q \in Requests, CancelCommit(q)
    PROVE  Agreement' /\ QP!IInv'
<1> USE DEF IInv, Agreement
<1>1. /\ request[q].op = "cancel" /\ request' = [request EXCEPT ![q] = NoRequest]
      /\ UNCHANGED <<worker, held, work, phase>>
  BY DEF CancelCommit
<1>2. PICK r \in Runs : r = request[q].run
  BY <1>1 DEF Typed, RequestState, NoRequest
<1>3. PICK S : S = request[q].listed  OBVIOUS
<1>4. /\ Status(r) \in {"queued", "held"}
      /\ S = {j \in JobsOf(r) : Active(j)} /\ \A j \in S : job[j].status = "queued"
  BY <1>1, <1>2, <1>3 DEF ReadsAreTrue
<1>5. /\ run' = SetStatus(r, "cancelled")
      /\ job' = [j \in Q!Jobs |-> IF j \in S THEN [job[j] EXCEPT !.status = "deleted"]
                                 ELSE job[j]]
  BY <1>2, <1>3, <1>4 DEF CancelCommit, Exists
<1>6. /\ \A s \in Runs : s # r => run'[s] = run[s]
      /\ run'[r].status = "cancelled"
  BY <1>5 DEF Typed, RunRow, SetStatus
<1>7. S \subseteq Q!Jobs  BY <1>4 DEF JobsOf
<1>8. \A j \in Q!Jobs : job'[j].status = IF j \in S THEN "deleted" ELSE job[j].status
  BY <1>5, QueueFacts DEF Q!TypeOK, Q!JobRow
<1>9. RowsHaveWork'  BY <1>1, <1>4, <1>8 DEF RowsHaveWork
<1>10. \A s : JobsOf(s)' = JobsOf(s)  BY <1>1 DEF JobsOf
<1>11. OnePipelineJob'  BY <1>1 DEF OnePipelineJob, Pipeline
<1>12. NoJobBeforeQueued'  BY <1>6, <1>10 DEF NoJobBeforeQueued, Status
<1>13. NoJobAfterCancel'
  <2> SUFFICES ASSUME NEW s \in Runs, Status(s)' = "cancelled", NEW j \in JobsOf(s)
               PROVE  ~Active(j)'
    BY <1>10 DEF NoJobAfterCancel
  <2>1. j \in Q!Jobs  BY DEF JobsOf
  <2>2. CASE s = r  BY <2>1, <2>2, <1>4, <1>8 DEF Active
  <2>3. CASE s # r  BY <2>1, <2>3, <1>6, <1>8 DEF Active, NoJobAfterCancel, Status
  <2> QED  BY <2>2, <2>3
<1>14. SavedIsSettled'
  <2>1. \A s \in Runs : Waits(s)' => Waits(s)  BY <1>6 DEF Waits, Status
  <2>2. \A v \in Workers : Saved(v)' => Saved(v) /\ worker'[v].job = worker[v].job
    BY <1>1 DEF Saved, At
  <2> QED  BY <1>1, <2>1, <2>2, StillSettled
<1>15. SomebodyIsOnIt'
  <2>1. ASSUME NEW s \in Runs, Waits(s)'
        PROVE  Waits(s) /\ \A k \in JobsOf(s) : Pipeline(k) /\ Active(k) => Active(k)'
    <3>1. s # r /\ Waits(s)  BY <2>1, <1>6 DEF Waits, Status
    <3>2. \A k \in JobsOf(s) : k \in Q!Jobs /\ k \notin S  BY <3>1, <1>4 DEF JobsOf
    <3> QED  BY <3>1, <3>2, <1>8 DEF Active
  <2> QED  BY <1>1, <2>1, StillOnIt
<1>16. \A p \in Requests : request'[p] = NoRequest
  BY <1>1 DEF Typed, OneRequest, NoRequest
<1>17. ReadsAreTrue' /\ OneRequest'  BY <1>16 DEF ReadsAreTrue, OneRequest, NoRequest
<1>18. QP!IInv'
  BY <1>1, <1>4, <1>5, <1>7, SameTerms, QueueAssumption, QP!WithdrawnTogether
<1> QED  BY <1>9, <1>11, <1>12, <1>13, <1>14, <1>15, <1>17, <1>18

-----------------------------------------------------------------------------
(* The worker's steps. *)

\* Time changes no row's status.
LEMMA OnlyOlder ==
    ASSUME NEW row \in Q!JobRow
    PROVE  Q!Aged(row).status = row.status
<1> DEFINE a == IF row.status = "running" /\ row.age <= StaleAfter
                THEN row.age + 1 ELSE row.age
           t == IF row.status \in {"queued", "running"} /\ row.wait > -Past
                THEN row.wait - 1 ELSE row.wait
<1>1. Q!Aged(row) = [row EXCEPT !.age = a, !.wait = t]
  BY DEF Q!Aged, Q!JobRow
<1> HIDE DEF a, t
<1> QED  BY <1>1 DEF Q!JobRow

LEMMA SharedAgrees ==
    ASSUME IInv, SetHold \/ Tick
    PROVE  Agreement'
<1>1. UNCHANGED <<worker, run, work, phase, request>>
  BY DEF SetHold, Tick, Q!SetHold, Q!Tick
<1>2. \A k \in Q!Jobs : job'[k].status = job[k].status
  <2>1. CASE SetHold
    BY <2>1 DEF SetHold, Q!SetHold
  <2>2. CASE Tick
    <3>1. \A k \in Q!Jobs : job'[k] = Q!Aged(job[k])  BY <2>2 DEF Tick, Q!Tick
    <3>2. \A k \in Q!Jobs : Q!Aged(job[k]).status = job[k].status
      BY QueueFacts, OnlyOlder DEF Q!TypeOK, IInv
    <3> QED  BY <3>1, <3>2
  <2> QED  BY <2>1, <2>2
<1>3. \A v \in Workers : Saved(v)' => Saved(v) /\ worker'[v].job = worker[v].job
  BY <1>1 DEF Saved, At
<1> QED  BY <1>1, <1>2, <1>3, Unnoticed

LEMMA QuietAgrees ==
    ASSUME IInv, NEW w \in Workers,
           Poll(w) \/ Raise(w) \/ FailRead(w) \/ Return(w) \/ Crash(w) \/ Heartbeat(w)
    PROVE  Agreement'
<1>1. UNCHANGED <<run, work, request>>
  BY DEF Poll, Raise, FailRead, Return, Crash, Heartbeat
<1>2. /\ job \in [Q!Jobs -> Q!JobRow] /\ worker \in [Workers -> Q!WorkerState]
      /\ phase \in [Workers -> {"none", "claimed", "executing", "saved", "raising"}]
  BY QueueFacts DEF Q!TypeOK, IInv, Typed
<1>3. \A k \in Q!Jobs : job'[k].status = job[k].status
  <2>1. CASE Heartbeat(w)
    <3>1. UNCHANGED job \/ job' = [job EXCEPT ![worker[w].job].age = 0]
      BY <2>1 DEF Heartbeat, Q!Heartbeat
    <3> QED  BY <3>1, <1>2 DEF Q!JobRow
  <2>2. CASE ~Heartbeat(w)
    <3>1. UNCHANGED job
      BY <2>2 DEF Poll, Raise, FailRead, Return, Crash, queueVars, Q!Poll, Q!FailRead,
                  Q!Return, Q!Crash
    <3> QED  BY <3>1
  <2> QED  BY <2>1, <2>2
<1>4. \A v \in Workers : Saved(v)' => Saved(v) /\ worker'[v].job = worker[v].job
  <2> USE DEF Saved, At
  <2>2. CASE Poll(w)
    BY <2>2, <1>2 DEF Poll, Q!Poll, Q!WorkerState
  <2>3. CASE Raise(w)
    BY <2>3, <1>2 DEF Raise, queueVars
  <2>4. CASE Return(w)
    BY <2>4, <1>2 DEF Return, Q!Return, Q!WorkerState
  <2>5. CASE Crash(w)
    BY <2>5, <1>2 DEF Crash, Q!Crash, Q!Idle
  <2>6. CASE Heartbeat(w)
    <3>1. UNCHANGED phase /\ \A v \in Workers : v # w => worker'[v] = worker[v]
      BY <2>6, <1>2 DEF Heartbeat, Q!Heartbeat
    <3>2. worker'[w].pc = worker[w].pc /\ worker'[w].job = worker[w].job
      BY <2>6, <1>2 DEF Heartbeat, Q!Heartbeat, Q!WorkerState
    <3> QED  BY <3>1, <3>2
  <2>7. CASE FailRead(w)
    <3>1. UNCHANGED phase /\ \A v \in Workers : v # w => worker'[v] = worker[v]
      BY <2>7, <1>2 DEF FailRead, Q!FailRead
    <3>2. worker'[w].pc = "failing"
      BY <2>7, <1>2 DEF FailRead, Q!FailRead, Q!WorkerState
    <3> QED  BY <3>1, <3>2
  <2> QED  BY <2>2, <2>3, <2>4, <2>5, <2>6, <2>7
<1> QED  BY <1>1, <1>3, <1>4, Unnoticed

\* A run whose job is given up on waits no longer; every other job that
\* somebody counts on is still there, queued or taken.
LEMMA ClaimAgrees ==
    ASSUME IInv, Serial, NEW w \in Workers, Claim(w) \/ ClaimNothing(w)
    PROVE  Agreement'
<1>1. /\ Q!Claim(w) \/ Q!ClaimNothing(w)
      /\ run' = RunsGivenUp(worker[w].doomed) /\ UNCHANGED <<work, request>>
  BY DEF Claim, ClaimNothing
<1>2. /\ \A k \in Q!Jobs :
           /\ job'[k].status = "absent" <=> job[k].status = "absent"
           /\ Active(k)' => Active(k)
           /\ k \notin worker[w].doomed => (Active(k) => Active(k)')
      /\ \A v \in Workers : v # w => worker'[v] = worker[v]
      /\ worker'[w].pc = "idle" \/ Q!Claim(w)
  BY <1>1, ClaimMoves DEF IInv
<1>3. \A s \in Runs :
         IF Waits(s) /\ worker[w].doomed \cap JobsOf(s) # {}
         THEN Status(s)' = "failed" ELSE Status(s)' = Status(s)
  BY <1>1 DEF RunsGivenUp, Status, Waits, IInv, Typed, RunRow
<1>4. SomebodyIsOnIt'
  <2>1. ASSUME NEW s \in Runs, Waits(s)'
        PROVE  Waits(s) /\ \A k \in JobsOf(s) : Pipeline(k) /\ Active(k) => Active(k)'
    <3>1. Waits(s) /\ worker[w].doomed \cap JobsOf(s) = {}
      BY <2>1, <1>3 DEF Waits
    <3> QED  BY <3>1, <1>2 DEF JobsOf
  <2> QED  BY <1>1, <2>1, StillOnIt
<1>5. SavedIsSettled'
  <2>1. \A s \in Runs : Waits(s)' => Waits(s)  BY <1>3 DEF Waits
  <2>2. ASSUME NEW v \in Workers, Saved(v)'
        PROVE  Saved(v) /\ worker'[v].job = worker[v].job
    <3>1. CASE v # w
      <4>1. worker'[v] = worker[v] /\ phase'[v] = phase[v]
        BY <1>2, <3>1 DEF Claim, ClaimNothing, IInv, Typed
      <4> QED  BY <4>1, <2>2 DEF Saved, At
    <3>2. CASE v = w
      <4>1. worker'[w].pc # "finishing"
        <5>1. CASE Q!Claim(w)
          <6>1. PICK j \in Q!Jobs : worker' = [worker EXCEPT ![w] =
                    [Q!Idle EXCEPT !.pc = "working", !.job = j, !.beating = TRUE]]
            BY <5>1 DEF Q!Claim
          <6>2. worker \in [Workers -> Q!WorkerState]  BY QueueFacts DEF IInv, Q!TypeOK
          <6>3. [Q!Idle EXCEPT !.pc = "working", !.job = j, !.beating = TRUE].pc = "working"
            BY DEF Q!Idle
          <6> QED  BY <6>1, <6>2, <6>3
        <5> QED  BY <5>1, <1>2
      <4>2. worker'[w].pc = "idle" \/ phase'[w] = "claimed"
        <5>1. CASE Claim(w)  BY <5>1 DEF Claim, IInv, Typed
        <5>2. CASE ClaimNothing(w)
          <6>1. worker \in [Workers -> Q!WorkerState]  BY QueueFacts DEF IInv, Q!TypeOK
          <6> QED  BY <5>2, <6>1 DEF ClaimNothing, Q!ClaimNothing, Q!Idle
        <5> QED  BY <5>1, <5>2
      <4> QED  BY <2>2, <3>2, <4>1, <4>2 DEF Saved, At
    <3> QED  BY <3>1, <3>2
  <2> QED  BY <1>1, <2>1, <2>2, StillSettled
<1>6. \A q \in Requests : request[q] = NoRequest  BY <1>1, NobodyAsked
<1> QED  BY <1>1, <1>2, <1>3, <1>4, <1>5, <1>6, Calm DEF Active, Status

\* Whoever has a pipeline of the same run has the same job, and is the same.
LEMMA OnlyOne ==
    ASSUME IInv, NEW v \in Workers, NEW w \in Workers, Q!Executing(v), Q!Executing(w),
           Pipeline(worker[v].job), Pipeline(worker[w].job), MyRun(v) = MyRun(w)
    PROVE  v = w
<1>1. worker[v].job \in Q!Jobs /\ worker[w].job \in Q!Jobs  BY AtWork
<1>2. worker[v].job = worker[w].job
  BY <1>1 DEF IInv, Agreement, OnePipelineJob, MyRun
<1> QED  BY <1>2, QueueFacts DEF IInv

LEMMA StartAgrees ==
    ASSUME IInv, Serial, NEW w \in Workers, Start(w)
    PROVE  Agreement'
<1>1. /\ Q!Executing(w) /\ UNCHANGED <<queueVars, work, request>>
      /\ phase' \in {[phase EXCEPT ![w] = "raising"], [phase EXCEPT ![w] = "executing"]}
  BY DEF Start, At, Q!Executing
<1>2. PICK r \in Runs : r = MyRun(w)  BY <1>1, AtWork
<1>3. \A v \in Workers : Saved(v)' => v # w /\ Saved(v) /\ worker'[v].job = worker[v].job
  <2>1. worker[w].pc = "working"  BY DEF Start, At
  <2>2. phase'[w] # "saved" /\ \A v \in Workers : v # w => phase'[v] = phase[v]
    BY <1>1 DEF IInv, Typed
  <2> QED  BY <1>1, <2>1, <2>2 DEF Saved, At, queueVars
<1>5. CASE UNCHANGED run
  BY <1>1, <1>3, <1>5, Unnoticed DEF queueVars
<1>6. CASE MyTask(w) = "run_pipeline"
           /\ run' = [run EXCEPT ![r] = [@ EXCEPT !.status = "running", !.started = TRUE]]
  <2>1. /\ \A s \in Runs : Status(s)' = IF s = r THEN "running" ELSE Status(s)
    BY <1>6 DEF IInv, Typed, RunRow, Status
  <2>2. Pipeline(worker[w].job) /\ worker[w].job \in JobsOf(r) /\ Active(worker[w].job)
    BY <1>1, <1>2, <1>6, AtWork DEF Active
  <2>3. SomebodyIsOnIt'
    <3> SUFFICES ASSUME NEW s \in Runs, Status(s)' \in {"queued", "running"}
                 PROVE  \E k \in JobsOf(s) : Active(k) /\ work[k].task = "run_pipeline"
      BY <1>1 DEF SomebodyIsOnIt, JobsOf, Active, queueVars
    <3>1. CASE s = r  BY <3>1, <2>2 DEF Pipeline
    <3>2. CASE s # r  BY <3>2, <2>1 DEF IInv, Agreement, SomebodyIsOnIt
    <3> QED  BY <3>1, <3>2
  <2>4. SavedIsSettled'
    <3> SUFFICES ASSUME NEW v \in Workers, Saved(v)', Pipeline(worker[v].job)
                 PROVE  Status(MyRun(v))' \notin {"queued", "running"}
      BY <1>1 DEF SavedIsSettled, Pipeline, queueVars
    <3>1. v # w /\ Saved(v) /\ Q!Executing(v)  BY <1>3 DEF Saved, At, Q!Executing
    <3>2. MyRun(v) # r  BY <3>1, <1>1, <1>2, <2>2, OnlyOne
    <3>3. MyRun(v) \in Runs /\ MyRun(v)' = MyRun(v)
      BY <3>1, <1>1, AtWork DEF MyRun, queueVars
    <3>4. Status(MyRun(v))' = Status(MyRun(v))
      BY <3>2, <3>3, <2>1 DEF Status
    <3> QED  BY <3>1, <3>4 DEF IInv, Agreement, SavedIsSettled
  <2>5. \A q \in Requests : request[q] = NoRequest  BY <1>1, NobodyAsked
  <2> QED  BY <1>1, <2>1, <2>3, <2>4, <2>5, Calm DEF Status, queueVars
<1> QED  BY <1>2, <1>5, <1>6 DEF Start

\* The run of a job that is marked done waits for nothing.
LEMMA FinishAgrees ==
    ASSUME IInv, Serial, NEW w \in Workers, Finish(w)
    PROVE  Agreement'
<1>1. /\ Q!Executing(w) /\ Saved(w) /\ UNCHANGED <<run, work, phase, request>>
      /\ worker' = [worker EXCEPT ![w] = Q!Idle]
  BY DEF Finish, Q!Finish, Q!Executing, Saved
<1>2. PICK j \in Q!Jobs : /\ j = worker[w].job /\ job[j].status = "running"
                          /\ Pipeline(j) <=> MyTask(w) = "run_pipeline"
                          /\ j \in JobsOf(MyRun(w)) /\ MyRun(w) \in Runs
  BY <1>1, AtWork
<1>3. /\ job \in [Q!Jobs -> Q!JobRow] /\ worker \in [Workers -> Q!WorkerState]
  BY QueueFacts DEF Q!TypeOK, IInv
<1>4. \A k \in Q!Jobs : job'[k].status = IF k = j THEN "done" ELSE job[k].status
  <2>1. job' = [job EXCEPT ![j].status = "done"]
    BY <1>2 DEF Finish, Q!Finish
  <2> QED  BY <2>1, <1>3 DEF Q!JobRow
<1>5. SomebodyIsOnIt'
  <2>1. ASSUME NEW s \in Runs, Waits(s)'
        PROVE  Waits(s) /\ \A k \in JobsOf(s) : Pipeline(k) /\ Active(k) => Active(k)'
    <3>1. Waits(s)  BY <2>1, <1>1 DEF Waits, Status
    <3>2. ASSUME NEW k \in JobsOf(s), Pipeline(k), Active(k)
          PROVE  Active(k)'
      <4>1. k \in Q!Jobs /\ work[k].run = s  BY DEF JobsOf
      <4>2. k # j
        BY <1>1, <1>2, <3>1, <3>2, <4>1 DEF IInv, Agreement, SavedIsSettled, Waits, MyRun
      <4> QED  BY <1>4, <3>2, <4>1, <4>2 DEF Active
    <3> QED  BY <3>1, <3>2
  <2> QED  BY <1>1, <2>1, StillOnIt
<1>6. SavedIsSettled'
  <2>1. \A v \in Workers : Saved(v)' => Saved(v) /\ worker'[v].job = worker[v].job
    BY <1>1, <1>3 DEF Saved, At, Q!Idle
  <2>2. \A s \in Runs : Waits(s)' => Waits(s)  BY <1>1 DEF Waits, Status
  <2> QED  BY <1>1, <2>1, <2>2, StillSettled
<1>7. \A q \in Requests : request[q] = NoRequest  BY <1>1, NobodyAsked
<1> QED  BY <1>1, <1>2, <1>4, <1>5, <1>6, <1>7, Calm

\* A failed pipeline leaves its run queued exactly if it is queued itself; a
\* failed re-check takes nobody off a run that waits.
LEMMA FailWriteAgrees ==
    ASSUME IInv, Serial, NEW w \in Workers, FailWrite(w)
    PROVE  Agreement'
<1>1. /\ Q!Executing(w) /\ worker[w].pc = "failing" /\ UNCHANGED <<work, request>>
      /\ worker' = [worker EXCEPT ![w] = Q!Idle]
      /\ phase' = [phase EXCEPT ![w] = "none"]
  BY DEF FailWrite, Q!FailWrite, Q!Executing
<1>2. PICK j \in Q!Jobs, r \in Runs :
         /\ j = worker[w].job /\ r = MyRun(w) /\ job[j].status = "running"
         /\ Pipeline(j) <=> MyTask(w) = "run_pipeline"
         /\ MyTask(w) \in Tasks /\ j \in JobsOf(r)
         /\ Status(r) \notin {"absent", "held", "cancelled"}
  BY <1>1, AtWork
<1>3. /\ job \in [Q!Jobs -> Q!JobRow] /\ worker \in [Workers -> Q!WorkerState]
  BY QueueFacts DEF Q!TypeOK, IInv
<1>10. PICK willRetry \in BOOLEAN :
          /\ willRetry <=> worker[w].read.attempts < MaxAttempts
          /\ run' = IF Exists(r) /\ MyTask(w) # "recheck"
                    THEN SetStatus(r, StatusAfterFailure(willRetry)) ELSE run
  <2>1. worker[w].read.status = "running"  BY <1>1, QueueFacts DEF IInv
  <2> QED  BY <1>2, <2>1 DEF FailWrite
<1>4. /\ job'[j].status = IF willRetry THEN "queued" ELSE "failed"
      /\ \A k \in Q!Jobs : k # j => job'[k] = job[k]
  <2> DEFINE row == Q!Failed(worker[w].read, job[j])
  <2>1. job' = [job EXCEPT ![j] = row]
    BY <1>2 DEF FailWrite, Q!FailWrite
  <2>2. row.status = IF willRetry THEN "queued" ELSE "failed"
    <3>1. /\ QP!Failed(worker[w].read, job[j]).attempts = job[j].attempts
          /\ \/ /\ QP!Failed(worker[w].read, job[j]).status = "failed"
                /\ job[j].attempts >= MaxAttempts
             \/ /\ QP!Failed(worker[w].read, job[j]).status = "queued"
                /\ ~(job[j].attempts >= MaxAttempts)
      BY <1>1, <1>2, QP!FailedIs, QueueAssumption DEF IInv, QP!LastAttempt
    <3>2. row = QP!Failed(worker[w].read, job[j])  BY SameTerms
    <3>3. /\ worker[w].read.attempts = job[j].attempts
          /\ job[j].attempts \in Nat
      BY <1>1, <1>2, <1>3, QueueFacts DEF IInv, Q!JobRow
    <3> HIDE DEF row
    <3> QED  BY <1>10, <3>1, <3>2, <3>3, QueueAssumption
  <2> HIDE DEF row
  <2> QED  BY <2>1, <2>2, <1>3
<1>5. \A v \in Workers : Saved(v)' => v # w /\ Saved(v) /\ worker'[v].job = worker[v].job
  BY <1>1, <1>3 DEF Saved, At, Q!Idle, IInv, Typed
<1>6. \A q \in Requests : request[q] = NoRequest  BY <1>1, NobodyAsked
<1>7. \A s \in Runs : j \in JobsOf(s) => s = r
  BY <1>2 DEF JobsOf, MyRun
<1>8. CASE Exists(r) /\ Pipeline(j)
  <2>1. \A s \in Runs : run'[s].status =
           IF s = r THEN StatusAfterFailure(willRetry) ELSE run[s].status
    BY <1>2, <1>8, <1>10 DEF SetStatus, IInv, Typed, RunRow
  <2>2. SomebodyIsOnIt'
    <3> SUFFICES ASSUME NEW s \in Runs, run'[s].status \in {"queued", "running"}
                 PROVE  \E k \in JobsOf(s) : /\ job'[k].status \in {"queued", "running"}
                                             /\ work[k].task = "run_pipeline"
      BY <1>1 DEF SomebodyIsOnIt, JobsOf, Active, Status
    <3>1. CASE s = r
      BY <3>1, <1>2, <1>8, <1>4, <2>1 DEF StatusAfterFailure, Pipeline
    <3>2. CASE s # r
      <4>1. PICK k \in JobsOf(s) : Active(k) /\ work[k].task = "run_pipeline"
        BY <3>2, <2>1 DEF IInv, Agreement, SomebodyIsOnIt, Status
      <4>2. k \in Q!Jobs /\ k # j  BY <3>2, <1>7 DEF JobsOf
      <4> QED  BY <4>1, <4>2, <1>4 DEF Active
    <3> QED  BY <3>1, <3>2
  <2>3. SavedIsSettled'
    <3> SUFFICES ASSUME NEW v \in Workers, Saved(v)', Pipeline(worker[v].job)
                 PROVE  run'[MyRun(v)].status \notin {"queued", "running"}
      BY <1>1, <1>5 DEF SavedIsSettled, Pipeline, Status, MyRun
    <3>1. v # w /\ Saved(v) /\ Q!Executing(v)  BY <1>5 DEF Saved, At, Q!Executing
    <3>2. MyRun(v) # r  BY <3>1, <1>1, <1>2, <1>8, OnlyOne
    <3>3. MyRun(v) \in Runs  BY <3>1, AtWork
    <3> QED
      BY <3>1, <3>2, <3>3, <2>1 DEF IInv, Agreement, SavedIsSettled, Status
  <2>4. \A s \in Runs :
           /\ run'[s].status \in {"absent", "held"} => run[s].status \in {"absent", "held"}
           /\ run'[s].status = "cancelled" => run[s].status = "cancelled"
    BY <2>1 DEF StatusAfterFailure
  <2> QED  BY <1>1, <1>2, <1>4, <1>6, <2>2, <2>3, <2>4, Calm
<1>9. CASE ~(Exists(r) /\ Pipeline(j))
  <2>1. UNCHANGED run
    BY <1>2, <1>9, <1>10 DEF Tasks
  <2>2. SomebodyIsOnIt'
    <3>1. ASSUME NEW s \in Runs, Waits(s)'
          PROVE  Waits(s) /\ \A k \in JobsOf(s) : Pipeline(k) /\ Active(k) => Active(k)'
      <4>1. Waits(s)  BY <3>1, <2>1 DEF Waits, Status
      <4>2. ASSUME NEW k \in JobsOf(s), Pipeline(k), Active(k)
            PROVE  Active(k)'
        <5>1. k \in Q!Jobs  BY DEF JobsOf
        <5>2. k # j  BY <1>7, <1>9, <4>1, <4>2 DEF Exists, Waits
        <5> QED  BY <1>4, <4>2, <5>1, <5>2 DEF Active
      <4> QED  BY <4>1, <4>2
    <3> QED  BY <1>1, <3>1, StillOnIt
  <2>3. SavedIsSettled'
    <3>1. \A s \in Runs : Waits(s)' => Waits(s)  BY <2>1 DEF Waits, Status
    <3> QED  BY <1>1, <1>5, <3>1, StillSettled
  <2> QED  BY <1>1, <1>2, <1>4, <1>6, <2>1, <2>2, <2>3, Calm
<1> QED  BY <1>8, <1>9

-----------------------------------------------------------------------------
(* The invariant holds. *)

LEMMA InitHolds == Init => IInv
<1> SUFFICES ASSUME Init PROVE IInv
  OBVIOUS
<1>1. QP!IInv  BY SameOthers, QueueAssumption, QP!InitIInv DEF Init
<1>2. Typed
  BY DEF Init, Typed, RunRow, RunStatuses, NewRun, RequestState
<1>3. /\ \A j \in Q!Jobs : work[j] = NoWork /\ job[j].status = "absent"
      /\ \A r \in Runs : Status(r) = "absent" /\ JobsOf(r) = {}
      /\ \A w \in Workers : worker[w].pc = "idle"
      /\ \A q \in Requests : request[q] = NoRequest
  BY DEF Init, Q!Init, Q!NoRow, Q!Idle, Status, JobsOf, NewRun
<1>4. Agreement
  BY <1>3 DEF Agreement, RowsHaveWork, OnePipelineJob, NoJobBeforeQueued, NoJobAfterCancel,
              SavedIsSettled, ReadsAreTrue, OneRequest, SomebodyIsOnIt, Pipeline, Saved, At,
              NoRequest
<1> QED  BY <1>1, <1>2, <1>4 DEF IInv

\* A new job names a run and a task.
LEMMA EnqueueTyped ==
    ASSUME Typed, NEW r \in Runs, NEW task \in Tasks, NEW wait, EnqueueFor(r, task, wait)
    PROVE  work' \in [Q!Jobs -> {NoWork} \cup [run : Runs, task : Tasks]]
<1>1. PICK j \in Q!Jobs : work' = [work EXCEPT ![j] = [run |-> r, task |-> task]]
  BY DEF EnqueueFor
<1> QED  BY <1>1 DEF Typed

LEMMA StatusTyped ==
    ASSUME Typed, NEW r \in Runs, NEW t \in RunStatuses
    PROVE  SetStatus(r, t) \in [Runs -> RunRow]
BY DEF Typed, RunRow, SetStatus

LEMMA NextTyped ==
    ASSUME IInv, Next
    PROVE  Typed'
<1> USE DEF Typed
<1>0. Typed  BY DEF IInv
<1>1. CASE \E r \in Runs : Submit(r) \/ RequestRecheck(r) \/ Finalize(r) \/ Purge(r)
  <2> PICK r \in Runs : Submit(r) \/ RequestRecheck(r) \/ Finalize(r) \/ Purge(r)  BY <1>1
  <2>1. CASE Submit(r)
    BY <1>0, <2>1, EnqueueTyped, StatusTyped DEF Submit, Tasks, RunStatuses
  <2>2. CASE RequestRecheck(r)
    BY <1>0, <2>2, EnqueueTyped DEF RequestRecheck, Tasks
  <2>3. CASE Finalize(r)
    BY <1>0, <2>3 DEF Finalize, RunRow, RunStatuses
  <2>4. CASE Purge(r)
    BY <1>0, <2>4 DEF Purge, RunRow, RunStatuses, NewRun
  <2> QED  BY <2>1, <2>2, <2>3, <2>4
<1>2. CASE \E q \in Requests, r \in Runs : AcceptRead(q, r) \/ CancelRead(q, r)
  <2> PICK q \in Requests, r \in Runs : AcceptRead(q, r) \/ CancelRead(q, r)  BY <1>2
  <2>1. CASE AcceptRead(q, r)
    BY <1>0, <2>1 DEF AcceptRead, RequestState
  <2>2. CASE CancelRead(q, r)
    <3> DEFINE L == {j \in JobsOf(r) : job[j].status = "queued"}
    <3>1. L \in SUBSET Q!Jobs  BY DEF JobsOf
    <3>2. request' = [request EXCEPT ![q] = [op |-> "cancel", run |-> r, listed |-> L]]
      BY <2>2 DEF CancelRead
    <3> HIDE DEF L
    <3>3. [op |-> "cancel", run |-> r, listed |-> L] \in RequestState
      BY <3>1 DEF RequestState
    <3> QED  BY <1>0, <2>2, <3>2, <3>3 DEF CancelRead
  <2> QED  BY <2>1, <2>2
<1>3. CASE \E q \in Requests : Commit(q)
  <2> PICK q \in Requests : Commit(q)  BY <1>3
  <2>1. request[q] # NoRequest /\ request' = [request EXCEPT ![q] = NoRequest]
        /\ UNCHANGED phase
    BY DEF Commit, AcceptCommit, CancelCommit, NoRequest
  <2>2. request' \in [Requests -> RequestState]  BY <1>0, <2>1 DEF RequestState
  <2>3. request[q].run \in Runs  BY <1>0, <2>1 DEF RequestState, NoRequest
  <2>4. CASE AcceptCommit(q)
    BY <1>0, <2>1, <2>2, <2>3, <2>4, EnqueueTyped, StatusTyped DEF AcceptCommit, Tasks, RunStatuses
  <2>5. CASE CancelCommit(q)
    BY <1>0, <2>1, <2>2, <2>3, <2>5, StatusTyped DEF CancelCommit, RunStatuses
  <2> QED  BY <2>4, <2>5 DEF Commit
<1>4. CASE \E w \in Workers : Step(w) \/ Heartbeat(w) \/ Crash(w)
  <2> PICK w \in Workers : Step(w) \/ Heartbeat(w) \/ Crash(w)  BY <1>4
  <2>1. CASE Poll(w) \/ Finish(w) \/ FailRead(w) \/ Heartbeat(w)
    BY <1>0, <2>1 DEF Poll, Finish, FailRead, Heartbeat
  <2>2. CASE Raise(w) \/ Return(w) \/ Crash(w)
    BY <1>0, <2>2 DEF Raise, Return, Crash
  <2>3. CASE Claim(w) \/ ClaimNothing(w)
    <3>1. RunsGivenUp(worker[w].doomed) \in [Runs -> RunRow]
      BY <1>0 DEF RunsGivenUp, RunRow, RunStatuses
    <3> QED  BY <1>0, <2>3, <3>1 DEF Claim, ClaimNothing
  <2>4. CASE Start(w)
    <3>1. PICK r \in Runs : r = MyRun(w)
      BY <2>4, AtWork DEF Start, At, Q!Executing
    <3>2. [run EXCEPT ![r] = [@ EXCEPT !.status = "running", !.started = TRUE]] \in [Runs -> RunRow]
      BY <1>0 DEF RunRow, RunStatuses
    <3>3. UNCHANGED run
          \/ run' = [run EXCEPT ![r] = [@ EXCEPT !.status = "running", !.started = TRUE]]
      BY <2>4, <3>1 DEF Start
    <3>4. UNCHANGED <<work, request>>
          /\ phase' \in {[phase EXCEPT ![w] = "raising"], [phase EXCEPT ![w] = "executing"]}
      BY <2>4 DEF Start
    <3> QED  BY <1>0, <3>2, <3>3, <3>4
  <2>5. CASE SaveSuccess(w) \/ SaveFailure(w)
    <3>1. MyRun(w) \in Runs  BY <2>5, AtWork DEF SaveSuccess, SaveFailure, At, Q!Executing
    <3> QED  BY <1>0, <2>5, <3>1, StatusTyped DEF SaveSuccess, SaveFailure, RunStatuses
  <2>6. CASE FailWrite(w)
    <3>1. MyRun(w) \in Runs  BY <2>6, AtWork DEF FailWrite, Q!FailWrite, Q!Executing
    <3>2. \A b : StatusAfterFailure(b) \in RunStatuses
      BY DEF StatusAfterFailure, RunStatuses
    <3>3. run' \in [Runs -> RunRow]
      BY <1>0, <2>6, <3>1, <3>2, StatusTyped DEF FailWrite
    <3> QED
      BY <1>0, <2>6, <3>3 DEF FailWrite
  <2> QED  BY <2>1, <2>2, <2>3, <2>4, <2>5, <2>6 DEF Step
<1>5. CASE SetHold \/ Tick
  BY <1>0, <1>5 DEF SetHold, Tick
<1> QED  BY <1>1, <1>2, <1>3, <1>4, <1>5 DEF Next

\* The queue's part of a step is a step of the queue.
LEMMA QueueSteps ==
    ASSUME Timely, IInv, Serial, Next
    PROVE  QP!IInv'
<1>0. QP!IInv /\ Typed  BY DEF IInv
<1>1. CASE \E q \in Requests : CancelCommit(q)
  BY <1>1, CancelCommitAgrees
<1>2. CASE UNCHANGED queueVars
  BY <1>0, <1>2, QueueKept
<1>3. CASE \E j \in Q!Jobs, wait \in {0, Grace} : Q!Enqueue(j, wait) /\ UNCHANGED <<worker, held>>
  BY <1>0, <1>3, SameOthers, QueueKept
<1>4. CASE \E r \in Runs : Submit(r) \/ RequestRecheck(r) \/ Finalize(r) \/ Purge(r)
  BY <1>2, <1>3, <1>4 DEF Submit, RequestRecheck, Finalize, Purge, EnqueueFor
<1>5. CASE \E q \in Requests : Commit(q)
  BY <1>1, <1>2, <1>3, <1>5 DEF Commit, AcceptCommit, EnqueueFor
<1>6. CASE \E q \in Requests, r \in Runs : AcceptRead(q, r) \/ CancelRead(q, r)
  BY <1>2, <1>6 DEF AcceptRead, CancelRead
<1>7. CASE \E w \in Workers : Step(w) \/ Heartbeat(w) \/ Crash(w)
  <2> PICK w \in Workers : Step(w) \/ Heartbeat(w) \/ Crash(w)  BY <1>7
  <2>1. CASE Start(w) \/ SaveSuccess(w) \/ SaveFailure(w) \/ Raise(w)
    BY <1>2, <2>1 DEF Start, SaveSuccess, SaveFailure, Raise
  <2>2. CASE ~(Start(w) \/ SaveSuccess(w) \/ SaveFailure(w) \/ Raise(w))
    <3>1. \/ Q!Poll(w) \/ Q!Claim(w) \/ Q!ClaimNothing(w) \/ Q!Return(w) \/ Q!Finish(w)
          \/ Q!FailRead(w) \/ Q!FailWrite(w) \/ Q!Heartbeat(w) \/ Q!Crash(w)
      BY <2>2 DEF Step, Poll, Claim, ClaimNothing, Return, Finish, FailRead, FailWrite,
                  Heartbeat, Crash
    <3>2. QP!Step(w) \/ QP!Heartbeat(w) \/ QP!Crash(w)
      BY <3>1, SameSteps DEF QP!Step
    <3> QED  BY <1>0, <3>2, QueueKept
  <2> QED  BY <2>1, <2>2
<1>8. CASE SetHold \/ Tick
  BY <1>0, <1>8, SameOthers, QueueKept DEF SetHold, Tick
<1> QED  BY <1>4, <1>5, <1>6, <1>7, <1>8 DEF Next

LEMMA NextHolds ==
    ASSUME Timely, IInv, [Next]_vars, [Serial]_vars
    PROVE  IInv'
<1>1. CASE UNCHANGED vars
  <2> USE <1>1 DEF IInv, vars
  <2>1. QP!IInv'  BY QueueKept DEF queueVars
  <2>2. Typed'  BY DEF Typed
  <2>3. Agreement'
    <3>1. \A w \in Workers : Saved(w)' => Saved(w) /\ worker'[w].job = worker[w].job
      BY DEF Saved, At
    <3> QED  BY <3>1, Unnoticed
  <2> QED  BY <2>1, <2>2, <2>3
<1>2. CASE Next /\ Serial
  <2>1. QP!IInv'  BY <1>2, QueueSteps
  <2>2. Typed'  BY <1>2, NextTyped
  <2>3. Agreement'
    <3>1. CASE \E r \in Runs : Submit(r) \/ RequestRecheck(r) \/ Finalize(r) \/ Purge(r)
      BY <1>2, <3>1, SubmitAgrees, RecheckAgrees, FinalizeAgrees, PurgeAgrees
    <3>2. CASE \E q \in Requests, r \in Runs : AcceptRead(q, r) \/ CancelRead(q, r)
      BY <1>2, <3>2, ReadAgrees
    <3>3. CASE \E q \in Requests : Commit(q)
      BY <1>2, <3>3, AcceptCommitAgrees, CancelCommitAgrees DEF Commit
    <3>4. CASE \E w \in Workers : Step(w) \/ Heartbeat(w) \/ Crash(w)
      BY <1>2, <3>4, QuietAgrees, ClaimAgrees, StartAgrees, SaveAgrees, FinishAgrees,
         FailWriteAgrees DEF Step
    <3>5. CASE SetHold \/ Tick
      BY <1>2, <3>5, SharedAgrees
    <3> QED  BY <1>2, <3>1, <3>2, <3>3, <3>4, <3>5 DEF Next
  <2> QED  BY <2>1, <2>2, <2>3 DEF IInv
<1> QED  BY <1>1, <1>2

\* Workers, jobs, runs and requests in any number: if heartbeats are timely and
\* nothing is committed between a request's reads and its commit, the two
\* tables agree in every reachable state.
THEOREM TablesAgree == ASSUME Timely PROVE Spec /\ [][Serial]_vars => []IInv
<1>1. Init => IInv
  BY InitHolds
<1>2. IInv /\ [Next]_vars /\ [Serial]_vars => IInv'
  BY NextHolds
<1> QED BY <1>1, <1>2, PTL DEF Spec

\* The tables, the workers' memory and what requests have read keep their types.
THEOREM RunTypeCorrect == ASSUME Timely PROVE Spec /\ [][Serial]_vars => []TypeOK
<1>1. IInv => TypeOK
  BY QueueFacts DEF IInv, Typed, TypeOK
<1> QED BY <1>1, TablesAgree, PTL

\* A run that says it waits or runs always has a pipeline job that is queued or
\* taken: crashes, retries, reclaims and cancellations strand no run.
THEOREM NoRunIsStranded == ASSUME Timely PROVE Spec /\ [][Serial]_vars => []SomebodyIsOnIt
<1>1. IInv => SomebodyIsOnIt
  BY DEF IInv, Agreement
<1> QED BY <1>1, TablesAgree, PTL

\* Two workers never run the pipeline of one run at the same time.
THEOREM OnePipelineAtATime == ASSUME Timely PROVE Spec /\ [][Serial]_vars => []OnePipeline
<1>1. IInv => OnePipeline
  <2> SUFFICES ASSUME IInv, NEW v \in Workers, NEW w \in Workers,
                      At(v, "executing"), MyTask(v) = "run_pipeline",
                      At(w, "executing"), MyTask(w) = "run_pipeline", MyRun(v) = MyRun(w)
               PROVE  v = w
    BY DEF OnePipeline
  <2>1. Q!Executing(v) /\ Q!Executing(w)  BY DEF At, Q!Executing
  <2>2. Pipeline(worker[v].job) /\ Pipeline(worker[w].job)  BY <2>1, AtWork
  <2> QED  BY <2>1, <2>2, OnlyOne
<1> QED BY <1>1, TablesAgree, PTL

\* No step, of a worker, a request or the retention sweep, brings a cancelled
\* run back to life.
LEMMA NothingRevives ==
    ASSUME IInv, [Next]_vars, NEW s \in Runs, Status(s) = "cancelled"
    PROVE  run'[s].status \in {"cancelled", "gone"}
<1>0. run \in [Runs -> RunRow] /\ run[s].status = "cancelled"
  BY DEF IInv, Typed, Status
<1>1. CASE UNCHANGED run
  BY <1>0, <1>1
<1>2. CASE \E r \in Runs : Submit(r) \/ RequestRecheck(r) \/ Finalize(r) \/ Purge(r)
  <2> PICK r \in Runs : Submit(r) \/ RequestRecheck(r) \/ Finalize(r) \/ Purge(r)  BY <1>2
  <2>1. CASE RequestRecheck(r)  BY <2>1, <1>1 DEF RequestRecheck
  <2>2. CASE s # r
    BY <1>0, <2>1, <2>2 DEF Submit, Finalize, Purge, SetStatus
  <2>3. CASE s = r
    BY <1>0, <2>1, <2>3 DEF Submit, Finalize, Purge, Status, NewRun
  <2> QED  BY <2>2, <2>3
<1>3. CASE \E q \in Requests : Commit(q)
  <2> PICK q \in Requests : Commit(q)  BY <1>3
  <2>1. CASE AcceptCommit(q)
    <3>1. Status(request[q].run) = "held"
      BY <2>1 DEF AcceptCommit, IInv, Agreement, ReadsAreTrue
    <3> QED  BY <1>0, <1>1, <2>1, <3>1 DEF AcceptCommit, SetStatus, Status
  <2>2. CASE CancelCommit(q)
    <3>1. PICK r \in Runs : r = request[q].run
      BY <2>2 DEF CancelCommit, IInv, Typed, RequestState, NoRequest
    <3>2. UNCHANGED run \/ run' = [run EXCEPT ![r].status = "cancelled"]
      BY <2>2, <3>1 DEF CancelCommit, SetStatus
    <3>3. run[s] \in RunRow  BY <1>0
    <3> QED  BY <1>0, <1>1, <3>2, <3>3 DEF RunRow
  <2> QED  BY <2>1, <2>2 DEF Commit
<1>4. CASE \E w \in Workers : Claim(w) \/ ClaimNothing(w)
  BY <1>0, <1>4 DEF Claim, ClaimNothing, RunsGivenUp, Status
<1>5. CASE \E w \in Workers : Start(w) \/ SaveSuccess(w) \/ SaveFailure(w) \/ FailWrite(w)
  <2> PICK w \in Workers : Start(w) \/ SaveSuccess(w) \/ SaveFailure(w) \/ FailWrite(w)
    BY <1>5
  <2>1. MyRun(w) \in Runs /\ MyRun(w) # s
    BY AtWork DEF Start, SaveSuccess, SaveFailure, FailWrite, Q!FailWrite, At, Q!Executing
  <2>2. \A r \in Runs : \A t : r # s => SetStatus(r, t)[s] = run[s]  BY <1>0 DEF SetStatus
  <2>3. CASE Start(w)  BY <1>0, <2>1, <2>3 DEF Start
  <2>4. CASE SaveSuccess(w) \/ SaveFailure(w) \/ FailWrite(w)
    BY <1>0, <2>1, <2>2, <2>4 DEF SaveSuccess, SaveFailure, FailWrite
  <2> QED  BY <2>3, <2>4
<1>6. CASE \/ \E q \in Requests, r \in Runs : AcceptRead(q, r) \/ CancelRead(q, r)
           \/ \E w \in Workers : \/ Poll(w) \/ Raise(w) \/ FailRead(w) \/ Return(w)
                                 \/ Finish(w) \/ Heartbeat(w) \/ Crash(w)
           \/ SetHold \/ Tick \/ UNCHANGED vars
  BY <1>1, <1>6 DEF AcceptRead, CancelRead, Poll, Raise, FailRead, Return, Finish,
                    Heartbeat, Crash, SetHold, Tick, vars
<1> QED  BY <1>2, <1>3, <1>4, <1>5, <1>6 DEF Next, Step

\* Cancelling is final: whatever was queued, claimed or asked for at the time,
\* a cancelled run is never queued, run or reviewed again.
THEOREM CancelledStaysCancelled ==
    ASSUME Timely PROVE Spec /\ [][Serial]_vars => CancelledForGood
<1>1. IInv /\ [Next]_vars =>
        [\A r \in Runs : Status(r) = "cancelled" => run'[r].status \in {"cancelled", "gone"}]_vars
  BY NothingRevives
<1> QED BY <1>1, TablesAgree, PTL DEF Spec, CancelledForGood

-----------------------------------------------------------------------------
(***************************************************************************)
(* Proofs about Evidence, for any deliveries, tables, answers of the model *)
(* and edits of people meanwhile.                                          *)
(*                                                                         *)
(* While the checks look names up, each name they need is still to come or *)
(* was looked up, and what the model read is on the run's list; the report *)
(* puts that list down, and what is looked up after it is none of what the *)
(* checks rest on.                                                         *)
(***************************************************************************)
LateHeadings == {Heading("Attribute"), Heading("Mean"), Heading("Step")}

\* Of these looks, what the model read is on the list.
Listed(looks) ==
    \A l \in looks : heard[l].by = "model" /\ heard[l].found # NoName =>
        Reading(l, heard[l].found) \in reasoned

ReadingsIInv ==
    /\ stage \in {"idle", "checks", "late", "done"}
    /\ stage # "idle" => delivery \in Deliveries
    /\ stage \in {"idle", "done"} => todo = <<>>
    /\ stage = "idle" => DOMAIN heard = {}
    /\ stage = "checks" =>
          /\ todo \in Seq(Looks[delivery])
          /\ Looks[delivery] \subseteq ToSet(todo) \cup DOMAIN heard
          /\ Listed(DOMAIN heard)
    /\ stage = "late" => todo \in Seq(LateHeadings \ Looks[delivery])
    /\ stage \in {"late", "done"} => Looks[delivery] \subseteq DOMAIN heard
    /\ ReadingsAreReported

LEMMA HeadAndTail ==
    ASSUME NEW S, NEW s \in Seq(S), s # <<>>
    PROVE  Head(s) \in S /\ Tail(s) \in Seq(S) /\ ToSet(s) = {Head(s)} \cup ToSet(Tail(s))
<1>1. Head(s) \in S /\ Tail(s) \in Seq(S) /\ Len(s) \in Nat \ {0} /\ Head(s) = s[1]
  OBVIOUS
<1>2. /\ DOMAIN s = 1 .. Len(s) /\ DOMAIN Tail(s) = 1 .. Len(s) - 1
      /\ \A i \in DOMAIN Tail(s) : Tail(s)[i] = s[i + 1]
  BY <1>1
<1>3. \A x \in ToSet(s) : x = Head(s) \/ x \in ToSet(Tail(s))
  <2> SUFFICES ASSUME NEW i \in DOMAIN s, i # 1 PROVE s[i] \in ToSet(Tail(s))
    BY <1>1 DEF ToSet
  <2>1. i - 1 \in DOMAIN Tail(s) /\ Tail(s)[i - 1] = s[i]
    BY <1>1, <1>2
  <2> QED BY <2>1 DEF ToSet
<1>4. \A x \in ToSet(Tail(s)) : x \in ToSet(s)
  BY <1>1, <1>2 DEF ToSet
<1>5. Head(s) \in ToSet(s)
  BY <1>1, <1>2 DEF ToSet
<1> QED BY <1>1, <1>3, <1>4, <1>5

\* What is looked up late is nothing that was looked up.
LEMMA LateLooksAreNew == LateLooks \in Seq(LateHeadings \ DOMAIN heard)
<1> DEFINE S == LateHeadings \ DOMAIN heard
           fresh(l) == IF l \in DOMAIN heard THEN <<>> ELSE <<l>>
<1>1. ASSUME NEW l \in LateHeadings PROVE fresh(l) \in Seq(S)
  <2>1. CASE l \in DOMAIN heard
    BY <2>1
  <2>2. CASE l \notin DOMAIN heard
    <3>1. l \in S
      BY <2>2
    <3>2. \A R : \A x \in R : <<x>> \in Seq(R)
      OBVIOUS
    <3> QED BY <2>2, <3>1, <3>2
  <2> QED BY <2>1, <2>2
<1>2. /\ Heading("Attribute") \in LateHeadings /\ Heading("Mean") \in LateHeadings
      /\ Heading("Step") \in LateHeadings
  BY DEF LateHeadings
<1>3. LateLooks = (IF delivery.dirt = <<>> THEN <<>>
                   ELSE fresh(Heading("Attribute")) \o fresh(Heading("Mean"))) \o fresh(Heading("Step"))
  BY DEF LateLooks
<1> HIDE DEF S, fresh
<1>4. \A s, t \in Seq(S) : s \o t \in Seq(S)
  OBVIOUS
<1>5. <<>> \in Seq(S)
  OBVIOUS
<1> QED BY <1>1, <1>2, <1>3, <1>4, <1>5 DEF S

\* A look-up that says what it heard, and lists it when the model read a name.
LEMMA LookUpStep ==
    ASSUME ReadingsIInv, todo # <<>>, NEW match, Heard(match), reasoned \subseteq reasoned',
           match.by = "model" /\ match.found # NoName
               => Reading(Head(todo), match.found) \in reasoned'
    PROVE  ReadingsIInv'
<1> DEFINE h == Head(todo)
<1>1. /\ heard' = [l \in DOMAIN heard \cup {h} |-> IF l = h THEN match ELSE heard[l]]
      /\ todo' = Tail(todo) /\ UNCHANGED <<stage, delivery, findings>>
  BY DEF Heard
<1>2. stage \in {"checks", "late"}
  BY DEF ReadingsIInv
<1>3. CASE stage = "checks"
  <2>1. h \in Looks[delivery] /\ Tail(todo) \in Seq(Looks[delivery])
        /\ ToSet(todo) = {h} \cup ToSet(Tail(todo))
    BY <1>3, HeadAndTail DEF ReadingsIInv
  <2>2. Looks[delivery] \subseteq ToSet(todo') \cup DOMAIN heard'
    BY <1>1, <1>3, <2>1 DEF ReadingsIInv
  <2>3. Listed(DOMAIN heard)'
    <3> SUFFICES ASSUME NEW l \in DOMAIN heard', heard'[l].by = "model", heard'[l].found # NoName
                 PROVE  Reading(l, heard'[l].found) \in reasoned'
      BY DEF Listed, Reading
    <3>1. CASE l = h
      BY <1>1, <3>1
    <3>2. CASE l # h
      <4>1. l \in DOMAIN heard /\ heard'[l] = heard[l]
        BY <1>1, <3>2
      <4> QED BY <1>3, <4>1 DEF ReadingsIInv, Listed
    <3> QED BY <3>1, <3>2
  <2> QED BY <1>1, <1>3, <2>1, <2>2, <2>3 DEF ReadingsIInv, ReadingsAreReported, Looks
<1>4. CASE stage = "late"
  <2>1. h \notin Looks[delivery] /\ Tail(todo) \in Seq(LateHeadings \ Looks[delivery])
    BY <1>4, HeadAndTail DEF ReadingsIInv
  <2>2. \A l \in Looks[delivery] : l \in DOMAIN heard' /\ heard'[l] = heard[l]
    BY <1>1, <1>4, <2>1 DEF ReadingsIInv
  <2> QED BY <1>1, <1>4, <2>1, <2>2 DEF ReadingsIInv, ReadingsAreReported, Looks
<1> QED BY <1>2, <1>3, <1>4

\* What is looked up for an attribute is a name, in an artifact.
IsLook(l) == l.kind = "attribute" => l.wanted \in Name /\ l.artifact \in Artifact

LEMMA OnceIsFrom ==
    ASSUME NEW s, IsSeq(s)
    PROVE  IsSeq(Once(s)) /\ \A x : Occurs(x, Once(s)) => Occurs(x, s)
<1> DEFINE first == {i \in DOMAIN s : \A j \in DOMAIN s : j < i => s[j] # s[i]}
           at == [i \in DOMAIN s |-> i]
           places == Kept(at, first)
           once == [n \in DOMAIN places |-> s[places[n]]]
<1>1. Once(s) = once
  BY DEF Once
<1>2. IsSeq(at)
  BY AlongSeq
<1>3. first \subseteq DOMAIN s
  OBVIOUS
<1> HIDE DEF at, first
<1>4. IsSeq(places) /\ \A k \in DOMAIN places : places[k] \in first
  BY <1>2, KeptFacts
<1> HIDE DEF places
<1>5. once = [n \in DOMAIN places |-> once[n]] /\ \A n \in DOMAIN places : once[n] = s[places[n]]
  OBVIOUS
<1> HIDE DEF once
<1>6. IsSeq(once) /\ \A x : Occurs(x, once) <=> \E n \in DOMAIN places : x = once[n]
  BY <1>4, <1>5, OccursAlong
<1>7. ASSUME NEW x, Occurs(x, once) PROVE Occurs(x, s)
  <2>1. PICK n \in DOMAIN places : x = s[places[n]]
    BY <1>5, <1>6, <1>7
  <2>2. places[n] \in DOMAIN s
    BY <1>3, <1>4
  <2> QED BY <2>1, <2>2 DEF Occurs
<1> QED BY <1>1, <1>6, <1>7

\* A requirement asks for names, directly or by a code of the catalogue.
LEMMA ChecksAreOfNames ==
    ASSUME NEW d \in Deliveries, NEW r \in Rules(d), NEW c \in Checks(r),
           c.kind # "unknown_product_code"
    PROVE  c.names \subseteq Name
<1>1. r.names \subseteq Name /\ r.type \in {"attributes", "criteria", "other"}
  BY DeliveriesAssumption
<1>2. Expanded(r) \subseteq Name
  BY <1>1, EditorAssumption DEF Expanded
<1>3. CASE r.type = "attributes"
  <2>1. c \in AttributeChecks(r)
    BY <1>3 DEF Checks
  <2>2. \/ c = [kind |-> "fields_present", names |-> Expanded(r)]
        \/ \E k : c = [kind |-> "unknown_product_code", names |-> {k}]
    BY <2>1 DEF AttributeChecks
  <2> QED BY <1>2, <2>2
<1>4. CASE r.type = "criteria"
  BY <1>1, <1>4 DEF Checks
<1>5. CASE r.type = "other"
  BY <1>5 DEF Checks
<1> QED BY <1>1, <1>3, <1>4, <1>5

LEMMA LooksAreOfNames ==
    ASSUME NEW d \in Deliveries, NEW r \in Rules(d)
    PROVE  IsSeq(LooksOf(d, r)) /\ \A x : Occurs(x, LooksOf(d, r)) => IsLook(x)
<1> DEFINE checks == {c \in Checks(r) : c.kind # "unknown_product_code"}
           names == Kept(Order, UNION {c.names : c \in checks})
           both(n) == IF d.layout = <<>> \/ r.type = "criteria"
                      THEN <<Attribute(n, "dirt")>>
                      ELSE <<Attribute(n, "dirt"), Attribute(n, "record_layout")>>
           headings == IF d.dirt = <<>> THEN <<>> ELSE <<Heading("Attribute"), Heading("Min")>>
           looks == [i \in DOMAIN names |-> both(names[i])]
<1>1. LooksOf(d, r) = IF checks = {} THEN <<>> ELSE headings \o FlattenSeq(looks)
  BY DEF LooksOf
<1>2. IsSeq(names) /\ \A x : Occurs(x, names) => x \in Name
  BY OccursInKept, NamesAssumption, OccursInSet DEF Name
<1>3. IsSeq(headings) /\ \A x : Occurs(x, headings) => IsLook(x)
  <2>1. \A h : IsLook(Heading(h))
    BY DEF IsLook, Heading
  <2>2. \A x, y : IsSeq(<<x, y>>) /\ \A z : Occurs(z, <<x, y>>) => z = x \/ z = y
    BY DEF IsSeq, Occurs
  <2> QED BY <2>1, <2>2, OccursInShort, ShortSeqs
<1>4. ASSUME NEW n \in Name PROVE IsSeq(both(n)) /\ \A x : Occurs(x, both(n)) => IsLook(x)
  <2>1. IsLook(Attribute(n, "dirt")) /\ IsLook(Attribute(n, "record_layout"))
    BY DEF IsLook, Attribute, Artifact
  <2>2. \A x, y : /\ IsSeq(<<x>>) /\ \A z : Occurs(z, <<x>>) => z = x
                 /\ IsSeq(<<x, y>>) /\ \A z : Occurs(z, <<x, y>>) => z = x \/ z = y
    BY DEF IsSeq, Occurs
  <2>3. CASE d.layout = <<>> \/ r.type = "criteria"
    <3>1. both(n) = <<Attribute(n, "dirt")>>
      BY <2>3
    <3> HIDE DEF both
    <3>2. IsSeq(both(n)) /\ \A x : Occurs(x, both(n)) => x = Attribute(n, "dirt")
      BY <2>2, <3>1
    <3> QED BY <2>1, <3>2
  <2>4. CASE ~(d.layout = <<>> \/ r.type = "criteria")
    <3>1. both(n) = <<Attribute(n, "dirt"), Attribute(n, "record_layout")>>
      BY <2>4
    <3> HIDE DEF both
    <3>2. IsSeq(both(n)) /\ \A x : Occurs(x, both(n)) => x = Attribute(n, "dirt")
                                                      \/ x = Attribute(n, "record_layout")
      BY <2>2, <3>1
    <3> QED BY <2>1, <3>2
  <2> QED BY <2>3, <2>4
<1>5. looks = [i \in DOMAIN names |-> looks[i]]
      /\ \A i \in DOMAIN names : looks[i] = both(names[i]) /\ names[i] \in Name
  <2> HIDE DEF names, both
  <2> QED BY <1>2 DEF Occurs
<1> HIDE DEF names, both, headings, looks, checks
<1>6. IsSeq(looks) /\ DOMAIN looks = DOMAIN names
  BY <1>2, <1>5, AlongSeq
<1>7. IsSeq(FlattenSeq(looks))
      /\ \A x : Occurs(x, FlattenSeq(looks)) <=> \E i \in DOMAIN looks : Occurs(x, looks[i])
  BY <1>4, <1>5, <1>6, OccursInFlattened
<1>8. \A x : Occurs(x, FlattenSeq(looks)) => IsLook(x)
  BY <1>4, <1>5, <1>6, <1>7
<1>9. IsSeq(headings \o FlattenSeq(looks))
      /\ \A x : Occurs(x, headings \o FlattenSeq(looks))
               <=> Occurs(x, headings) \/ Occurs(x, FlattenSeq(looks))
  BY <1>3, <1>7, OccursInJoined
<1> QED BY <1>1, <1>3, <1>8, <1>9, OccursInShort, ShortSeqs

LEMMA EarlyLooksAreLooks ==
    ASSUME NEW d \in Deliveries
    PROVE  EarlyLooks[d] \in Seq(ToSet(EarlyLooks[d])) /\ \A l \in Looks[d] : IsLook(l)
<1> DEFINE looks == [i \in DOMAIN d.rules |-> LooksOf(d, d.rules[i])]
<1>1. EarlyLooks[d] = Once(FlattenSeq(looks)) /\ Looks[d] = ToSet(EarlyLooks[d])
  BY DEF EarlyLooks, Looks
<1>2. IsSeq(d.rules) /\ looks = [i \in DOMAIN d.rules |-> looks[i]]
      /\ \A i \in DOMAIN d.rules : looks[i] = LooksOf(d, d.rules[i]) /\ d.rules[i] \in Rules(d)
  BY DeliveriesAssumption DEF Rules, ToSet
<1> HIDE DEF looks
<1>3. IsSeq(looks) /\ DOMAIN looks = DOMAIN d.rules
  BY <1>2, AlongSeq
<1>4. \A i \in DOMAIN looks : IsSeq(looks[i]) /\ \A x : Occurs(x, looks[i]) => IsLook(x)
  BY <1>2, <1>3, LooksAreOfNames
<1>5. IsSeq(FlattenSeq(looks)) /\ \A x : Occurs(x, FlattenSeq(looks)) => IsLook(x)
  BY <1>3, <1>4, OccursInFlattened
<1>6. IsSeq(EarlyLooks[d]) /\ \A x : Occurs(x, EarlyLooks[d]) => IsLook(x)
  BY <1>1, <1>5, OnceIsFrom
<1> QED BY <1>1, <1>6, SeqIn, OccursInSet

LEMMA StartStep ==
    ASSUME ReadingsIInv, NEW d \in Deliveries, StartRun(d)
    PROVE  ReadingsIInv'
<1>1. /\ stage = "idle" /\ stage' = "checks" /\ delivery' = d /\ todo' = EarlyLooks[d]
      /\ heard' = heard /\ DOMAIN heard = {}
  BY DEF StartRun, ReadingsIInv
<1>2. Looks[d] = ToSet(EarlyLooks[d])
  BY DEF Looks
<1>3. todo' \in Seq(Looks[delivery']) /\ Looks[delivery'] \subseteq ToSet(todo')
  BY <1>1, <1>2, EarlyLooksAreLooks
<1> QED BY <1>1, <1>3 DEF ReadingsIInv, Listed, ReadingsAreReported, Looks

LEMMA ReportStep ==
    ASSUME ReadingsIInv, Report
    PROVE  ReadingsIInv'
<1>1. /\ stage = "checks" /\ stage' = "late" /\ todo = <<>> /\ todo' = LateLooks
      /\ UNCHANGED <<delivery, heard, reasoned>> /\ Readings \subseteq findings'
  <2> DEFINE raised == UNION {Raised(p[1], p[2]) : p \in AllChecks(delivery)}
  <2>1. findings' = findings \cup Readings \cup raised
    BY Zenon DEF Report
  <2> HIDE DEF raised
  <2> QED BY <2>1 DEF Report
<1>2. ToSet(todo) = {}
  BY <1>1 DEF ToSet
<1>3. Looks[delivery] \subseteq DOMAIN heard /\ Listed(DOMAIN heard) /\ delivery \in Deliveries
  BY <1>1, <1>2 DEF ReadingsIInv
<1>4. todo' \in Seq(LateHeadings \ Looks[delivery])
  <2>1. \A R, S : R \subseteq S => Seq(R) \subseteq Seq(S)
    OBVIOUS
  <2>2. LateHeadings \ DOMAIN heard \subseteq LateHeadings \ Looks[delivery]
    BY <1>3
  <2> QED BY <1>1, <2>1, <2>2, LateLooksAreNew
<1>5. \A l \in Looks[delivery] : heard[l].by = "model" /\ heard[l].found # NoName
         => Finding("layout_reasoned", "", Reading(l, heard[l].found)) \in findings'
  BY <1>1, <1>3 DEF Readings, Listed
<1>6. ReadingsAreReported'
  BY <1>1, <1>5 DEF ReadingsAreReported, Looks, Reading, Finding
<1> QED BY <1>1, <1>3, <1>4, <1>6 DEF ReadingsIInv, Looks

LEMMA ReadingsStep ==
    ASSUME ReadingsIInv, [EvidenceNext]_evidenceVars
    PROVE  ReadingsIInv'
<1>1. ASSUME UNCHANGED runVars
      PROVE  ReadingsIInv'
  BY <1>1 DEF runVars, ReadingsIInv, Listed, ReadingsAreReported, Looks, Reading, Finding
<1>2. CASE \E d \in Deliveries : StartRun(d)
  BY <1>2, StartStep
<1>3. CASE LookUpHeading
  <2> DEFINE h == Head(todo).wanted
  <2>1. todo # <<>>
    BY <1>3 DEF LookUpHeading
  <2>2. CASE Heard(Match(h, <<>>, "code")) /\ UNCHANGED reasoned
    BY <2>1, <2>2, LookUpStep DEF Match
  <2>3. CASE Heard(Match(h, <<>>, "model")) /\ reasoned' = reasoned \cup {Reading(Head(todo), h)}
    BY <2>1, <2>3, LookUpStep DEF Match
  <2>4. CASE Heard(Match(NoName, <<>>, "model")) /\ UNCHANGED reasoned
    BY <2>1, <2>4, LookUpStep DEF Match
  <2> QED BY <1>3, <2>2, <2>3, <2>4 DEF LookUpHeading
<1>4. CASE SkipLookUp
  BY <1>4, LookUpStep DEF SkipLookUp, Unread, Match
<1>5. CASE LookUpAttribute
  <2>1. todo # <<>>
    BY <1>5 DEF LookUpAttribute
  <2>2. ASSUME NEW found, NEW near, Heard(Match(found, near, "code")), UNCHANGED reasoned
        PROVE  ReadingsIInv'
    BY <2>1, <2>2, LookUpStep DEF Match
  <2>3. ASSUME NEW wanted, NEW near, NEW said, Answered(wanted, near, said)
        PROVE  ReadingsIInv'
    <3>1. Heard(Match(said, near, "model")) /\ reasoned \subseteq reasoned'
          /\ (said # NoName => Reading(Head(todo), said) \in reasoned')
      BY <2>3 DEF Answered
    <3> QED BY <2>1, <3>1, LookUpStep DEF Match
  <2> QED BY <1>5, <2>2, <2>3 DEF LookUpAttribute, AskModel
<1>6. CASE Report
  BY <1>6, ReportStep
<1>7. CASE Save
  <2>1. /\ stage = "late" /\ stage' = "done" /\ todo = <<>>
        /\ UNCHANGED <<delivery, todo, heard, findings>>
    BY <1>7 DEF Save
  <2>2. ReadingsAreReported'
    BY <2>1 DEF ReadingsIInv, ReadingsAreReported, Looks, Reading, Finding
  <2> QED BY <2>1, <2>2 DEF ReadingsIInv, Looks
<1>8. CASE NextRun
  <2>1. stage = "done" /\ stage' = "idle" /\ todo' = todo /\ heard' = <<>>
    BY <1>8 DEF NextRun
  <2>2. DOMAIN heard' = {} /\ todo' = <<>>
    BY <2>1 DEF ReadingsIInv
  <2> QED BY <2>1, <2>2 DEF ReadingsIInv, ReadingsAreReported
<1>9. CASE Console
  BY <1>1, <1>9 DEF Console
<1>10. CASE UNCHANGED evidenceVars
  BY <1>1, <1>10 DEF evidenceVars
<1> QED BY <1>2, <1>3, <1>4, <1>5, <1>6, <1>7, <1>8, <1>9, <1>10 DEF EvidenceNext

\* Every name a check read because the model said so is put before a person, whoever edits
\* the tables meanwhile and whatever is looked up afterwards.
THEOREM ReadingsAreTold == EvidenceSpec => []ReadingsAreReported
<1>1. EvidenceInit => ReadingsIInv
  BY DEF EvidenceInit, ReadingsIInv, ReadingsAreReported
<1>2. ReadingsIInv /\ [EvidenceNext]_evidenceVars => ReadingsIInv'
  BY ReadingsStep
<1>3. ReadingsIInv => ReadingsAreReported
  BY DEF ReadingsIInv
<1> QED BY <1>1, <1>2, <1>3, PTL DEF EvidenceSpec

-----------------------------------------------------------------------------
(***************************************************************************)
(* That nothing goes unread.  What a look-up finds is one of the names of  *)
(* the artifact it looked in, whichever rung found it (FoundIsThere); when *)
(* the findings are written, a requirement that raised none has all its    *)
(* names found (ReadOrRaised), and what is looked up afterwards are        *)
(* headings, which take no name away.                                      *)
(***************************************************************************)
FoundIsThere ==
    \A l \in DOMAIN heard :
        l.kind = "attribute" /\ heard[l].found # NoName =>
            Contains(NamesOfArtifact(delivery, legacy, l.artifact), heard[l].found)

UntracedIsTold ==
    stage # "idle" => \A r \in Untraced(delivery) : \E f \in findings : f.rule = r.id

FullyRead(r) ==
    \A c \in Checks(r) :
        /\ c.kind # "unknown_product_code"
        /\ \A n \in c.names : \E a \in Artifact : Present(n, a)

ReadOrRaised ==
    stage \in {"late", "done"} =>
        \A r \in Rules(delivery) : (\E f \in findings : f.rule = r.id) \/ FullyRead(r)

UnreadIInv == ReadingsIInv /\ FoundIsThere /\ UntracedIsTold /\ ReadOrRaised

LEMMA KeptIsFrom ==
    ASSUME NEW s, IsSeq(s), NEW S
    PROVE  IsSeq(Kept(s, S)) /\ \A k \in DOMAIN Kept(s, S) : Contains(s, Kept(s, S)[k])
<1>1. DOMAIN s = 1..Len(s)
  BY SeqIn
<1> QED BY <1>1, KeptFacts DEF Contains

LEMMA FirstIsFrom ==
    ASSUME NEW s, IsSeq(s), NEW S, Kept(s, S) # <<>>
    PROVE  Contains(s, Kept(s, S)[1])
<1>1. IsSeq(Kept(s, S)) /\ \A k \in DOMAIN Kept(s, S) : Contains(s, Kept(s, S)[k])
  BY KeptIsFrom
<1>2. 1 \in DOMAIN Kept(s, S)
  BY <1>1, RestOfSeq
<1> QED BY <1>1, <1>2

\* The least of some places of a sequence is one of them.
LEMMA LeastPlace ==
    ASSUME NEW n, NEW I, I \subseteq 1..n, I # {}
    PROVE  Min(I) \in I
<1>1. I \in SUBSET Nat
  <2>1. ASSUME NEW i, i \in 1..n PROVE i \in Int
    BY <2>1, Z3
  <2>2. ASSUME NEW i \in Int, i \in 1..n PROVE 1 <= i
    BY <2>2, SMT
  <2>3. \A i \in Int : 1 <= i => i \in Nat
    OBVIOUS
  <2> QED BY <2>1, <2>2, <2>3
<1>2. \E m \in I : \A k \in I : m <= k
  BY <1>1, Smallest
<1> QED BY <1>2 DEF Min

LEMMA ClimbFinds ==
    ASSUME NEW wanted, NEW s, IsSeq(s), NEW alternates,
           Climb(wanted, s, alternates) # NoName
    PROVE  Contains(s, Climb(wanted, s, alternates))
<1> DEFINE same == Kept(s, {c \in Name : <<wanted, c>> \in SameWords})
           spelled == SelectInSeq(alternates, LAMBDA a : Contains(s, a))
<1>1. Climb(wanted, s, alternates) =
          IF Contains(s, wanted) THEN wanted
          ELSE IF Only(same) # NoName THEN Only(same)
          ELSE IF spelled # 0 THEN alternates[spelled] ELSE NoName
  BY DEF Climb
<1>2. ASSUME Only(same) # NoName PROVE Contains(s, Only(same))
  <2>1. Cardinality(ToSet(same)) = 1 /\ Only(same) = same[1]
    BY <1>2 DEF Only
  <2>2. same # <<>>
    <3>1. ASSUME same = <<>> PROVE ToSet(same) = {}
      <4> HIDE DEF same
      <4> QED BY <3>1 DEF ToSet
    <3> HIDE DEF same
    <3> QED BY <2>1, <3>1, FS_EmptySet
  <2> QED BY <2>1, <2>2, FirstIsFrom
<1>3. spelled # 0 => Contains(s, alternates[spelled])
  <2> DEFINE I == {i \in 1..Len(alternates) : Contains(s, alternates[i])}
  <2>1. spelled = IF I # {} THEN Min(I) ELSE 0
    BY DEF SelectInSeq
  <2>2. I # {} => Min(I) \in I
    <3>1. I \subseteq 1..Len(alternates)
      OBVIOUS
    <3> HIDE DEF I
    <3> QED BY <3>1, LeastPlace
  <2>3. \A i \in I : Contains(s, alternates[i])
    OBVIOUS
  <2> HIDE DEF spelled, I
  <2> QED BY <2>1, <2>2, <2>3
<1> HIDE DEF same, spelled
<1> QED BY <1>1, <1>2, <1>3, Zenon

LEMMA NearIsFrom ==
    ASSUME NEW wanted, NEW s, IsSeq(s)
    PROVE  IsSeq(Near(wanted, s))
           /\ \A x : Contains(Near(wanted, s), x) => Contains(s, x) /\ x \in Name
<1> DEFINE close == Kept(s, {c \in Name : <<wanted, c>> \in Resembles})
           n == IF Len(close) < MaxNear THEN Len(close) ELSE MaxNear
<1>1. Near(wanted, s) = SubSeq(close, 1, n)
  BY DEF Near
<1>2. IsSeq(close) /\ \A k \in DOMAIN close : Contains(s, close[k]) /\ close[k] \in Name
  <2>1. \A k \in DOMAIN close : close[k] \in {c \in Name : <<wanted, c>> \in Resembles}
    BY KeptFacts
  <2> QED BY <2>1, KeptIsFrom
<1> HIDE DEF close
<1>3. close \in Seq(ToSet(close)) /\ DOMAIN close = 1..Len(close) /\ Len(close) \in Nat
  BY <1>2, SeqIn
<1>4. n \in Nat /\ n <= Len(close)
  BY <1>3, DeliveriesAssumption
<1> HIDE DEF n
<1>5. /\ SubSeq(close, 1, n) = [i \in 1..n |-> close[i]]
      /\ Len(SubSeq(close, 1, n)) = n
  BY <1>3, <1>4
<1>6. IsSeq(SubSeq(close, 1, n))
  BY <1>4, <1>5 DEF IsSeq
<1>7. ASSUME NEW i \in 1..n PROVE Contains(s, SubSeq(close, 1, n)[i])
                                     /\ SubSeq(close, 1, n)[i] \in Name
  <2>1. i \in DOMAIN close /\ SubSeq(close, 1, n)[i] = close[i]
    BY <1>3, <1>4, <1>5
  <2> QED BY <2>1, <1>2
<1> QED BY <1>1, <1>5, <1>6, <1>7 DEF Contains

LEMMA NamesAreInOrder ==
    ASSUME NEW d \in Deliveries, NEW table, NEW a
    PROVE  IsSeq(NamesOfArtifact(d, table, a))
<1>1. IsSeq(d.dirt) /\ IsSeq(d.layout)
  BY DeliveriesAssumption
<1> DEFINE same(i) == {k \in DOMAIN d.dirt : table[d.dirt[k]] = table[d.dirt[i]]}
           row(i) == IF i = Min(same(i)) THEN <<d.dirt[Max(same(i))]>> ELSE <<>>
           rows == [i \in DOMAIN d.dirt |-> row(i)]
<1>2. StatNames(d, table) = FlattenSeq(rows)
  BY DEF StatNames
<1>3. \A i \in DOMAIN d.dirt : rows[i] = row(i) /\ IsSeq(row(i))
  <2> HIDE DEF same
  <2> QED BY ShortSeqs
<1>4. rows = [i \in DOMAIN d.dirt |-> rows[i]]
  <2> HIDE DEF row
  <2> QED OBVIOUS
<1> HIDE DEF row, rows
<1>5. IsSeq(rows) /\ DOMAIN rows = DOMAIN d.dirt
  BY <1>1, <1>4, AlongSeq
<1>6. IsSeq(FlattenSeq(rows))
  BY <1>3, <1>5, Flattened
<1> QED BY <1>1, <1>2, <1>6 DEF NamesOfArtifact

LEMMA CodeFinds ==
    ASSUME NEW wanted, NEW s, IsSeq(s), NEW table, NEW dictionary, NEW a,
           InCode(wanted, s, table, dictionary, a) # NoName
    PROVE  Contains(s, InCode(wanted, s, table, dictionary, a))
<1> DEFINE aliased == Kept(s, {c \in Name : table[c] = table[wanted]})
           climbed == Climb(wanted, s, <<>>)
           last == Climb(wanted, Near(wanted, s), Alternates(dictionary, wanted, a))
<1>1. InCode(wanted, s, table, dictionary, a) =
          IF aliased # <<>> THEN aliased[1] ELSE IF climbed # NoName THEN climbed ELSE last
  BY DEF InCode
<1>2. aliased # <<>> => Contains(s, aliased[1])
  BY FirstIsFrom
<1>3. climbed # NoName => Contains(s, climbed)
  BY ClimbFinds
<1>4. last # NoName => Contains(s, last)
  <2>1. IsSeq(Near(wanted, s)) /\ \A x : Contains(Near(wanted, s), x) => Contains(s, x)
    BY NearIsFrom
  <2>2. last # NoName => Contains(Near(wanted, s), last)
    BY <2>1, ClimbFinds
  <2> QED BY <2>1, <2>2
<1> HIDE DEF aliased, climbed, last
<1> QED BY <1>1, <1>2, <1>3, <1>4

\* What the model may answer with is among what it was shown.
LEMMA ShownIsNear ==
    ASSUME NEW dictionary, NEW wanted, NEW s, IsSeq(s),
           NEW said \in ToSet(Shortlist(dictionary, wanted, s))
    PROVE  Contains(s, said)
<1> DEFINE kept == Kept(s, {c \in Name : OwnerOf(dictionary, c) \in {0, OwnerOf(dictionary, wanted)}})
<1>1. Shortlist(dictionary, wanted, s) = IF kept = <<>> THEN s ELSE kept
  BY DEF Shortlist
<1>2. \A k \in DOMAIN kept : Contains(s, kept[k])
  BY KeptIsFrom
<1>3. \A k \in DOMAIN s : Contains(s, s[k])
  BY SeqIn DEF Contains
<1> HIDE DEF kept
<1> QED BY <1>1, <1>2, <1>3 DEF ToSet

LEMMA LateAreColumns == \A l \in LateHeadings : l.kind = "column"
<1>1. \A name : Heading(name).kind = "column"
  BY DEF Heading
<1> QED BY <1>1, Zenon DEF LateHeadings

\* A look-up at the head of the list, whatever it found, if what it found is there.
LEMMA LookUpKeeps ==
    ASSUME UnreadIInv, todo # <<>>, NEW match, Heard(match),
           Head(todo).kind = "attribute" /\ match.found # NoName =>
               Contains(NamesOfArtifact(delivery, legacy, Head(todo).artifact), match.found)
    PROVE  FoundIsThere' /\ UntracedIsTold' /\ ReadOrRaised'
<1> DEFINE h == Head(todo)
<1>1. /\ heard' = [l \in DOMAIN heard \cup {h} |-> IF l = h THEN match ELSE heard[l]]
      /\ UNCHANGED <<stage, delivery, legacy, findings>>
  BY DEF Heard
<1>2. FoundIsThere'
  <2> SUFFICES ASSUME NEW l \in DOMAIN heard', l.kind = "attribute", heard'[l].found # NoName
               PROVE  Contains(NamesOfArtifact(delivery, legacy, l.artifact), heard'[l].found)
    BY <1>1 DEF FoundIsThere, NamesOfArtifact, StatNames
  <2>1. CASE l = h
    <3>1. heard'[l] = match
      BY <1>1, <2>1
    <3> QED BY <2>1, <3>1
  <2>2. CASE l # h
    <3>1. l \in DOMAIN heard /\ heard'[l] = heard[l]
      BY <1>1, <2>2
    <3> QED BY <3>1 DEF UnreadIInv, FoundIsThere
  <2> QED BY <2>1, <2>2
<1>3. UntracedIsTold'
  BY <1>1 DEF UnreadIInv, UntracedIsTold, Untraced, Rules
<1>4. ReadOrRaised'
  <2> SUFFICES ASSUME stage \in {"late", "done"}, NEW r \in Rules(delivery),
                      ~\E f \in findings : f.rule = r.id
               PROVE  FullyRead(r)'
    BY <1>1 DEF ReadOrRaised, Rules
  <2>1. FullyRead(r)
    BY DEF UnreadIInv, ReadOrRaised
  <2>2. h \in LateHeadings
    <3>1. stage = "late" /\ todo \in Seq(LateHeadings \ Looks[delivery])
      BY DEF UnreadIInv, ReadingsIInv
    <3> QED BY <3>1, HeadAndTail
  <2>3. h.kind = "column"
    BY <2>2, LateAreColumns
  <2>4. \A n, a : Present(n, a) => Present(n, a)'
    <3> SUFFICES ASSUME NEW n, NEW a, Present(n, a) PROVE Present(n, a)'
      OBVIOUS
    <3>1. Attribute(n, a) # h
      BY <2>3 DEF Attribute
    <3>2. Attribute(n, a) \in DOMAIN heard /\ heard[Attribute(n, a)].found # NoName
      BY DEF Present, Found
    <3>3. Attribute(n, a) \in DOMAIN heard'
          /\ heard'[Attribute(n, a)] = heard[Attribute(n, a)]
      BY <1>1, <3>1, <3>2
    <3> QED BY <3>2, <3>3 DEF Present, Found, Attribute
  <2> QED BY <2>1, <2>4 DEF FullyRead
<1> QED BY <1>2, <1>3, <1>4

\* A requirement none of whose checks raised anything has every name found.
LEMMA SilentIsRead ==
    ASSUME NEW d \in Deliveries, NEW r \in Rules(d), \A c \in Checks(r) : Raised(r, c) = {}
    PROVE  FullyRead(r)
<1> SUFFICES ASSUME NEW c \in Checks(r)
             PROVE  /\ c.kind # "unknown_product_code"
                    /\ \A n \in c.names : \E a \in Artifact : Present(n, a)
  BY DEF FullyRead
<1>1. Unresolved(c) = {} /\ Verdict(c) # "unknown" /\ Verdict(c) # "failed"
  <2>1. /\ {Finding("attribute_not_resolved", r.id, [c EXCEPT !.names = Unresolved(c)])
                : n \in Unresolved(c)} \subseteq Raised(r, c)
        /\ Verdict(c) = "unknown" => Finding("could_not_evaluate", r.id, c) \in Raised(r, c)
        /\ Verdict(c) = "failed" => Finding("report_violates_rule", r.id, c) \in Raised(r, c)
    BY DEF Raised
  <2> QED BY <2>1
<1>2. \/ c.kind = "fields_present"
      \/ \E n : c = [kind |-> "bound", names |-> {n}]
      \/ c.kind = "unknown_product_code"
  <2>1. r.type \in {"attributes", "criteria", "other"}
    BY DeliveriesAssumption
  <2>2. CASE r.type = "attributes"
    BY <2>2 DEF Checks, AttributeChecks
  <2>3. CASE r.type = "criteria"
    BY <2>3 DEF Checks
  <2>4. CASE r.type = "other"
    BY <2>4 DEF Checks
  <2> QED BY <2>1, <2>2, <2>3, <2>4
<1>3. CASE c.kind = "unknown_product_code"
  BY <1>1, <1>3 DEF Verdict
<1>4. CASE c.kind = "fields_present"
  <2>1. PresenceVerdict(c) # "unknown" /\ PresenceVerdict(c) # "failed"
    BY <1>1, <1>4 DEF Verdict
  <2>2. \A n \in c.names : Delivered(n) \/ Present(n, "dirt")
    BY <1>1, <2>1 DEF PresenceVerdict
  <2>3. \A n : Delivered(n) => Present(n, "dirt") \/ Present(n, "record_layout")
    BY DEF Delivered
  <2> QED BY <1>4, <2>2, <2>3 DEF Artifact
<1>5. ASSUME NEW n, c = [kind |-> "bound", names |-> {n}]
      PROVE  /\ c.kind # "unknown_product_code"
             /\ \A m \in c.names : \E a \in Artifact : Present(m, a)
  <2>1. c.kind = "bound" /\ c.names = {n}
    BY <1>5
  <2>2. (CHOOSE m \in c.names : TRUE) = n
    BY <2>1
  <2>3. BoundVerdict(n) # "unknown"
    BY <1>1, <2>1, <2>2 DEF Verdict
  <2>4. Present(n, "dirt")
    BY <2>3 DEF BoundVerdict
  <2> QED BY <2>1, <2>4 DEF Artifact
<1> QED BY <1>2, <1>3, <1>4, <1>5

LEMMA ReportReadsAll ==
    ASSUME UnreadIInv, Report
    PROVE  FoundIsThere' /\ UntracedIsTold' /\ ReadOrRaised'
<1> DEFINE raised == UNION {Raised(p[1], p[2]) : p \in AllChecks(delivery)}
<1>1. /\ stage = "checks" /\ UNCHANGED <<delivery, legacy, heard>>
      /\ findings' = (findings \cup Readings) \cup raised
  <2>1. findings' = findings \cup Readings \cup raised
    BY Zenon DEF Report
  <2> HIDE DEF raised
  <2> QED BY <2>1 DEF Report
<1>2. delivery \in Deliveries
  BY <1>1 DEF UnreadIInv, ReadingsIInv
<1>3. ASSUME NEW r \in Rules(delivery), NEW c \in Checks(r), Raised(r, c) # {}
      PROVE  \E f \in findings' : f.rule = r.id
  <2>1. PICK f \in Raised(r, c) : TRUE
    BY <1>3
  <2>2. f.rule = r.id
    BY <2>1 DEF Raised, Finding
  <2>3. <<r, c>> \in AllChecks(delivery) /\ <<r, c>>[1] = r /\ <<r, c>>[2] = c
    BY <1>3 DEF AllChecks
  <2>4. f \in raised
    BY <2>1, <2>3
  <2> HIDE DEF raised
  <2> QED BY <1>1, <2>2, <2>4
<1> HIDE DEF raised
<1>4. FoundIsThere'
  BY <1>1 DEF UnreadIInv, FoundIsThere, NamesOfArtifact, StatNames
<1>5. UntracedIsTold'
  BY <1>1 DEF UnreadIInv, UntracedIsTold, Untraced, Rules
<1>6. \A r \in Rules(delivery) : (\E f \in findings' : f.rule = r.id) \/ FullyRead(r)
  BY <1>2, <1>3, SilentIsRead
<1>7. \A r : FullyRead(r) => FullyRead(r)'
  BY <1>1 DEF FullyRead, Present, Found
<1>8. ReadOrRaised'
  BY <1>1, <1>6, <1>7 DEF ReadOrRaised, Rules
<1> QED BY <1>4, <1>5, <1>8

LEMMA UnreadStep ==
    ASSUME UnreadIInv, [EvidenceNext]_evidenceVars
    PROVE  UnreadIInv'
<1> USE DEF UnreadIInv
<1>1. ReadingsIInv'
  BY ReadingsStep
<1> SUFFICES FoundIsThere' /\ UntracedIsTold' /\ ReadOrRaised'
  BY <1>1
<1>2. ASSUME UNCHANGED <<stage, delivery, legacy, heard, findings>>
      PROVE  FoundIsThere' /\ UntracedIsTold' /\ ReadOrRaised'
  <2>1. FoundIsThere'
    BY <1>2 DEF FoundIsThere, NamesOfArtifact, StatNames
  <2>2. UntracedIsTold'
    BY <1>2 DEF UntracedIsTold, Untraced, Rules
  <2>3. \A r : FullyRead(r) => FullyRead(r)'
    BY <1>2 DEF FullyRead, Present, Found
  <2>4. ReadOrRaised'
    BY <1>2, <2>3 DEF ReadOrRaised, Rules
  <2> QED BY <2>1, <2>2, <2>4
<1>3. ASSUME NEW d \in Deliveries, StartRun(d)
      PROVE  FoundIsThere' /\ UntracedIsTold' /\ ReadOrRaised'
  <2>1. /\ stage = "idle" /\ stage' = "checks" /\ delivery' = d /\ heard' = heard
        /\ findings' = {Finding("rule_missing_in_config", r.id, NoCheck) : r \in Untraced(d)}
    BY <1>3 DEF StartRun
  <2>2. DOMAIN heard = {}
    BY <2>1 DEF ReadingsIInv
  <2>3. UntracedIsTold'
    <3> DEFINE f(r) == Finding("rule_missing_in_config", r.id, NoCheck)
    <3>1. \A r \in Untraced(d) : f(r) \in findings' /\ f(r).rule = r.id
      BY <2>1 DEF Finding
    <3> HIDE DEF f
    <3>2. Untraced(delivery)' = Untraced(d)
      BY <2>1 DEF Untraced, Rules
    <3> QED BY <3>1, <3>2 DEF UntracedIsTold
  <2> QED BY <2>1, <2>2, <2>3 DEF FoundIsThere, ReadOrRaised
<1>4. CASE LookUpHeading
  <2>1. todo # <<>> /\ Head(todo).kind # "attribute"
    BY <1>4 DEF LookUpHeading
  <2>2. \E match : Heard(match)
    BY <1>4 DEF LookUpHeading
  <2> QED BY <2>1, <2>2, LookUpKeeps
<1>5. CASE SkipLookUp
  <2>1. todo # <<>> /\ Heard(Unread) /\ Unread.found = NoName
    BY <1>5 DEF SkipLookUp, Unread, Match
  <2> QED BY <2>1, LookUpKeeps
<1>6. CASE LookUpAttribute
  <2> DEFINE wanted == Head(todo).wanted
             names == NamesOfArtifact(delivery, legacy, Head(todo).artifact)
             near == Near(wanted, names)
             code == InCode(wanted, names, legacy, loaded, Head(todo).artifact)
  <2>1. /\ todo # <<>>
        /\ \/ Heard(Match(code, near, "code"))
           \/ \E said \in Name \cup {NoName} : AskModel(wanted, near, said)
           \/ Heard(Match(NoName, near, "code"))
    BY <1>6 DEF LookUpAttribute
  <2>2. delivery \in Deliveries
    BY <2>1 DEF ReadingsIInv
  <2>3. IsSeq(names)
    BY <2>2, NamesAreInOrder
  <2>4. IsSeq(near) /\ \A x : Contains(near, x) => Contains(names, x)
    BY <2>3, NearIsFrom
  <2>5. code # NoName => Contains(names, code)
    BY <2>3, CodeFinds
  <2>6. ASSUME NEW found, NEW by, found # NoName => Contains(names, found),
               Heard(Match(found, near, by))
        PROVE  FoundIsThere' /\ UntracedIsTold' /\ ReadOrRaised'
    <3>1. Match(found, near, by).found = found
      BY DEF Match
    <3> HIDE DEF near
    <3> QED BY <2>1, <2>6, <3>1, LookUpKeeps
  <2>7. ASSUME NEW said, AskModel(wanted, near, said)
        PROVE  FoundIsThere' /\ UntracedIsTold' /\ ReadOrRaised'
    <3>1. Heard(Match(said, near, "model"))
          /\ said \in ToSet(Shortlist(loaded, wanted, near)) \cup {NoName}
      BY <2>7 DEF AskModel, Answered
    <3>2. said # NoName => Contains(near, said)
      BY <2>4, <3>1, ShownIsNear
    <3> QED BY <2>4, <2>6, <3>1, <3>2
  <2> HIDE DEF wanted, names, near, code
  <2> QED BY <2>1, <2>5, <2>6, <2>7
<1>7. CASE Report
  BY <1>7, ReportReadsAll
<1>8. CASE Save
  <2>1. /\ stage = "late" /\ stage' = "done"
        /\ UNCHANGED <<delivery, legacy, heard, findings>>
    BY <1>8 DEF Save
  <2>2. FoundIsThere'
    BY <2>1 DEF FoundIsThere, NamesOfArtifact, StatNames
  <2>3. UntracedIsTold'
    BY <2>1 DEF UntracedIsTold, Untraced, Rules
  <2>4. \A r : FullyRead(r) => FullyRead(r)'
    BY <2>1 DEF FullyRead, Present, Found
  <2>5. ReadOrRaised'
    BY <2>1, <2>4 DEF ReadOrRaised, Rules
  <2> QED BY <2>2, <2>3, <2>5
<1>9. CASE NextRun
  <2>1. stage' = "idle" /\ heard' = <<>>
    BY <1>9 DEF NextRun
  <2> QED BY <2>1 DEF FoundIsThere, UntracedIsTold, ReadOrRaised
<1>10. CASE Console
  BY <1>2, <1>10 DEF Console, runVars
<1>11. CASE UNCHANGED evidenceVars
  BY <1>2, <1>11 DEF evidenceVars, runVars
<1> QED BY <1>1, <1>3, <1>4, <1>5, <1>6, <1>7, <1>8, <1>9, <1>10, <1>11 DEF EvidenceNext

\* What the gate asks nobody about was found, by a name the artifact carries.
LEMMA ReadIsCompared ==
    ASSUME UnreadIInv
    PROVE  NothingGoesUnread
<1> SUFFICES ASSUME stage = "done", NEW r \in Rules(delivery), ~Asked(r)
             PROVE  /\ r.type # "other" /\ Checks(r) # {}
                    /\ r.codes \subseteq DOMAIN Catalogue
                    /\ \A n \in Expanded(r) : \E a \in Artifact :
                           /\ Present(n, a)
                           /\ Contains(NamesOfArtifact(delivery, legacy, a),
                                       heard[Attribute(n, a)].found)
  BY DEF NothingGoesUnread
<1>1. ~(\E f \in findings : f.rule = r.id) /\ State(r) \notin UNRESOLVED_STATES
  BY DEF Asked, Coverage
<1>2. FullyRead(r)
  BY <1>1 DEF UnreadIInv, ReadOrRaised
<1>3. r.traced
  BY <1>1 DEF UnreadIInv, UntracedIsTold, Untraced
<1>4. CheckedRule(r)
  BY <1>1, <1>3 DEF State, UNRESOLVED_STATES
<1>5. Checks(r) # {}
  BY <1>4 DEF CheckedRule
<1>6. r.type # "other"
  BY <1>5 DEF Checks
<1>7. r.type = "attributes" \/ (r.type = "criteria" /\ r.codes = {})
  BY <1>6, DeliveriesAssumption DEF UnreadIInv, ReadingsIInv
<1>8. /\ r.codes \subseteq DOMAIN Catalogue
      /\ \A n \in Expanded(r) : \E c \in Checks(r) : n \in c.names
  <2>1. CASE r.type = "attributes"
    <3>1. Checks(r) = AttributeChecks(r)
      BY <2>1 DEF Checks
    <3>2. \A k \in r.codes \ DOMAIN Catalogue :
              [kind |-> "unknown_product_code", names |-> {k}] \in Checks(r)
      BY <3>1 DEF AttributeChecks, UnknownCodes
    <3>3. r.codes \subseteq DOMAIN Catalogue
      <4> SUFFICES ASSUME NEW k \in r.codes \ DOMAIN Catalogue PROVE FALSE
        OBVIOUS
      <4> DEFINE c == [kind |-> "unknown_product_code", names |-> {k}]
      <4>1. c \in Checks(r) /\ c.kind = "unknown_product_code"
        BY <3>2
      <4> HIDE DEF c
      <4> QED BY <1>2, <4>1 DEF FullyRead
    <3>4. Expanded(r) # {} => [kind |-> "fields_present", names |-> Expanded(r)] \in Checks(r)
      BY <3>1 DEF AttributeChecks
    <3> QED BY <3>3, <3>4
  <2>2. CASE r.type = "criteria" /\ r.codes = {}
    <3>1. Checks(r) = {[kind |-> "bound", names |-> {n}] : n \in r.names}
      BY <2>2 DEF Checks
    <3>2. Expanded(r) = r.names
      BY <2>2 DEF Expanded
    <3>3. \A n \in r.names : [kind |-> "bound", names |-> {n}] \in Checks(r)
      BY <3>1
    <3> QED BY <2>2, <3>2, <3>3
  <2> QED BY <1>7, <2>1, <2>2
<1>9. \A n \in Expanded(r) : \E a \in Artifact : Present(n, a)
  BY <1>2, <1>8 DEF FullyRead
<1>10. ASSUME NEW n, NEW a, Present(n, a)
       PROVE  Contains(NamesOfArtifact(delivery, legacy, a), heard[Attribute(n, a)].found)
  <2>1. Attribute(n, a).kind = "attribute" /\ Attribute(n, a).artifact = a
    BY DEF Attribute
  <2>2. Attribute(n, a) \in DOMAIN heard /\ heard[Attribute(n, a)].found # NoName
    BY <1>10 DEF Present, Found
  <2>3. FoundIsThere
    BY DEF UnreadIInv
  <2> DEFINE l == Attribute(n, a)
  <2> HIDE DEF l
  <2>4. l.kind = "attribute" /\ l.artifact = a /\ l \in DOMAIN heard /\ heard[l].found # NoName
    BY <2>1, <2>2 DEF l
  <2>5. Contains(NamesOfArtifact(delivery, legacy, l.artifact), heard[l].found)
    BY <2>3, <2>4 DEF FoundIsThere
  <2> QED BY <2>4, <2>5 DEF l
<1> QED BY <1>5, <1>6, <1>8, <1>9, <1>10

\* A requirement the gate asks nobody about was compared under names the delivery carries,
\* for any delivery, tables, spellings that resemble each other and answers of the model.
THEOREM WhatIsNotAskedWasRead == EvidenceSpec => []NothingGoesUnread
<1>1. EvidenceInit => UnreadIInv
  BY DEF EvidenceInit, UnreadIInv, ReadingsIInv, ReadingsAreReported, FoundIsThere,
         UntracedIsTold, ReadOrRaised
<1>2. UnreadIInv /\ [EvidenceNext]_evidenceVars => UnreadIInv'
  BY UnreadStep
<1>3. UnreadIInv => NothingGoesUnread
  BY ReadIsCompared
<1> QED BY <1>1, <1>2, <1>3, PTL DEF EvidenceSpec

-----------------------------------------------------------------------------
(***************************************************************************)
(* That what was accepted is read.  The dictionary a run loads lists the   *)
(* terms in force, narrowest first, and the first to claim a name owns it  *)
(* (FirstOfTheTable); so the term a suggestion was accepted into, with     *)
(* nothing narrower claiming its name, offers the accepted spelling, and   *)
(* code climbs to it wherever the delivery has it near enough.             *)
(***************************************************************************)
\* This entry is the first of the dictionary to claim the name.
FirstToOwn(entries, n, entry) ==
    \E p \in DOMAIN entries :
        /\ entries[p] = entry /\ n \in Called(entry)
        /\ \A i \in DOMAIN entries : i < p => n \notin Called(entries[i])

Unclaimed(entries, n) == \A i \in DOMAIN entries : n \notin Called(entries[i])

LEMMA FirstOwns ==
    ASSUME NEW entries, IsSeq(entries), NEW n, NEW entry, FirstToOwn(entries, n, entry)
    PROVE  OwnerOf(entries, n) # 0 /\ entries[OwnerOf(entries, n)] = entry
<1> DEFINE I == {i \in 1..Len(entries) : n \in Called(entries[i])}
<1>1. OwnerOf(entries, n) = IF I # {} THEN Min(I) ELSE 0
  BY DEF OwnerOf, SelectInSeq
<1>2. DOMAIN entries = 1..Len(entries) /\ Len(entries) \in Nat
  BY SeqIn
<1>3. PICK p \in DOMAIN entries :
          /\ entries[p] = entry /\ n \in Called(entry)
          /\ \A i \in DOMAIN entries : i < p => n \notin Called(entries[i])
  BY DEF FirstToOwn
<1>4. p \in I /\ p \in Nat /\ p # 0 /\ \A i \in I : i \in Nat /\ ~(i < p)
  BY <1>2, <1>3
<1> HIDE DEF I
<1>5. \A i \in I : p <= i
  BY <1>4
<1>6. Min(I) \in I /\ \A i \in I : Min(I) <= i
  BY <1>4, <1>5 DEF Min
<1>7. Min(I) = p
  BY <1>4, <1>5, <1>6
<1> QED BY <1>1, <1>3, <1>4, <1>7

\* What is behind the owner takes nothing from it, nor does what claims nothing.
LEMMA FirstOfBoth ==
    ASSUME NEW s, IsSeq(s), NEW t, IsSeq(t), NEW n
    PROVE  /\ IsSeq(s \o t)
           /\ \A e : FirstToOwn(s, n, e) => FirstToOwn(s \o t, n, e)
           /\ \A e : Unclaimed(s, n) /\ FirstToOwn(t, n, e) => FirstToOwn(s \o t, n, e)
           /\ Unclaimed(s, n) /\ Unclaimed(t, n) => Unclaimed(s \o t, n)
<1>1. /\ IsSeq(s \o t) /\ Len(s) \in Nat /\ Len(t) \in Nat
      /\ DOMAIN s = 1..Len(s) /\ DOMAIN t = 1..Len(t)
      /\ DOMAIN (s \o t) = 1..(Len(s) + Len(t))
      /\ \A i \in 1..(Len(s) + Len(t)) :
             (s \o t)[i] = IF i <= Len(s) THEN s[i] ELSE t[i - Len(s)]
  <2> DEFINE S == ToSet(s) \cup ToSet(t)
  <2>1. s \in Seq(ToSet(s)) /\ t \in Seq(ToSet(t))
    BY SeqIn
  <2>2. s \in Seq(S) /\ t \in Seq(S)
    <3>1. \A R, T : R \subseteq T => Seq(R) \subseteq Seq(T)
      OBVIOUS
    <3> QED BY <2>1, <3>1
  <2> HIDE DEF S
  <2> QED BY <2>2, SeqIs, OccursInJoined
<1> DEFINE u == s \o t
           a == Len(s)
           b == Len(t)
<1>2. /\ a \in Nat /\ b \in Nat /\ DOMAIN s = 1..a /\ DOMAIN t = 1..b /\ DOMAIN u = 1..(a + b)
      /\ \A i \in 1..(a + b) : u[i] = IF i <= a THEN s[i] ELSE t[i - a]
  BY <1>1
<1> HIDE DEF u, a, b
<1>3. ASSUME NEW e, FirstToOwn(s, n, e) PROVE FirstToOwn(u, n, e)
  <2>1. PICK p \in 1..a : /\ s[p] = e /\ n \in Called(e)
                          /\ \A i \in 1..a : i < p => n \notin Called(s[i])
    BY <1>2, <1>3 DEF FirstToOwn
  <2>2. p \in DOMAIN u /\ u[p] = e
    BY <1>2, <2>1
  <2>3. ASSUME NEW i \in DOMAIN u, i < p PROVE n \notin Called(u[i])
    BY <1>2, <2>1, <2>3
  <2> QED BY <2>1, <2>2, <2>3 DEF FirstToOwn
<1>4. ASSUME NEW e, Unclaimed(s, n), FirstToOwn(t, n, e) PROVE FirstToOwn(u, n, e)
  <2>1. PICK p \in 1..b : /\ t[p] = e /\ n \in Called(e)
                          /\ \A i \in 1..b : i < p => n \notin Called(t[i])
    BY <1>2, <1>4 DEF FirstToOwn
  <2>2. a + p \in DOMAIN u /\ u[a + p] = e
    BY <1>2, <2>1
  <2>3. ASSUME NEW i \in DOMAIN u, i < a + p PROVE n \notin Called(u[i])
    <3>1. CASE i <= a
      <4>1. i \in 1..a /\ u[i] = s[i]
        BY <1>2, <3>1
      <4> QED BY <1>2, <1>4, <4>1 DEF Unclaimed
    <3>2. CASE ~(i <= a)
      <4>1. i - a \in 1..b /\ i - a < p /\ u[i] = t[i - a]
        BY <1>2, <2>1, <2>3, <3>2
      <4> QED BY <2>1, <4>1
    <3> QED BY <3>1, <3>2
  <2> QED BY <2>1, <2>2, <2>3 DEF FirstToOwn
<1>5. ASSUME Unclaimed(s, n), Unclaimed(t, n) PROVE Unclaimed(u, n)
  <2> SUFFICES ASSUME NEW i \in DOMAIN u PROVE n \notin Called(u[i])
    BY DEF Unclaimed
  <2>1. CASE i <= a
    <3>1. i \in 1..a /\ u[i] = s[i]
      BY <1>2, <2>1
    <3> QED BY <1>2, <1>5, <3>1 DEF Unclaimed
  <2>2. CASE ~(i <= a)
    <3>1. i - a \in 1..b /\ u[i] = t[i - a]
      BY <1>2, <2>2
    <3> QED BY <1>2, <1>5, <3>1 DEF Unclaimed
  <2> QED BY <2>1, <2>2
<1> QED BY <1>1, <1>3, <1>4, <1>5 DEF u

\* The terms in force at one scope of any table, and what each says.
InForce(T, k) == T[k] # NoTerm /\ T[k].active
EntryOf(T, k) == [canonical |-> k[1], spellings |-> T[k].spellings]
TermsOf(T, scope) ==
    LET active == {n \in Name : T[<<n, scope>>] # NoTerm /\ T[<<n, scope>>].active}
        names == Kept(Order, active)
    IN  [i \in DOMAIN names |->
            [canonical |-> names[i], spellings |-> T[<<names[i], scope>>].spellings]]
Given(T, scope) == IF scope \in Scopes THEN TermsOf(T, scope) ELSE <<>>

LEMMA PlaceIs == \A i \in DOMAIN Order : Position(Order[i]) = i /\ i \in Int
<1>1. \A i \in DOMAIN Order : i \in Int
  BY NamesAssumption, SeqIn
<1> QED BY <1>1, NamesAssumption DEF Position

\* A list has all the terms in force at a scope and no others, sorted.
InOrder(terms, T, scope) ==
    /\ IsSeq(terms)
    /\ \A i \in DOMAIN terms : \E m \in Name :
           InForce(T, <<m, scope>>) /\ terms[i] = EntryOf(T, <<m, scope>>)
    /\ \A n \in Name : InForce(T, <<n, scope>>) =>
           \E p \in DOMAIN terms :
               /\ terms[p] = EntryOf(T, <<n, scope>>)
               /\ \A i \in DOMAIN terms : i < p =>
                      \E m \in Name :
                          /\ InForce(T, <<m, scope>>) /\ Position(m) < Position(n)
                          /\ terms[i] = EntryOf(T, <<m, scope>>)

LEMMA TermsInOrder == \A T, scope : InOrder(TermsOf(T, scope), T, scope)
<1> SUFFICES ASSUME NEW T, NEW scope PROVE InOrder(TermsOf(T, scope), T, scope)
  OBVIOUS
<1> DEFINE active == {n \in Name : T[<<n, scope>>] # NoTerm /\ T[<<n, scope>>].active}
           names == Kept(Order, active)
           entry(n) == [canonical |-> n, spellings |-> T[<<n, scope>>].spellings]
           terms == [i \in DOMAIN names |-> entry(names[i])]
<1>1. TermsOf(T, scope) = terms
  BY DEF TermsOf
<1>2. \A n : n \in active <=> n \in Name /\ InForce(T, <<n, scope>>)
  BY DEF InForce
<1>3. \A n : entry(n) = EntryOf(T, <<n, scope>>)
  BY DEF EntryOf
<1>4. IsSeq(Order) /\ DOMAIN Order = 1..Len(Order) /\ \A n \in Name : \E i \in DOMAIN Order : Order[i] = n
  BY NamesAssumption, SeqIn DEF Name, ToSet
<1> HIDE DEF active, entry
<1>5. PICK h : KeepsBy(h, names, Order, active, Len(Order))
  BY <1>4, KeptInOrder
<1>6. IsSeq(names) /\ DOMAIN names = 1..Len(names)
  BY <1>4, KeptFacts, SeqIn
<1> HIDE DEF names
<1>7. terms = [i \in DOMAIN names |-> terms[i]]
      /\ \A i \in DOMAIN names : terms[i] = entry(names[i])
  OBVIOUS
<1> HIDE DEF terms
<1>8. IsSeq(terms) /\ DOMAIN terms = DOMAIN names
  BY <1>6, <1>7, AlongSeq
<1>9. ASSUME NEW i \in DOMAIN terms
      PROVE  /\ names[i] = Order[h[i]] /\ h[i] \in DOMAIN Order /\ names[i] \in active
             /\ terms[i] = EntryOf(T, <<names[i], scope>>)
             /\ names[i] \in Name /\ InForce(T, <<names[i], scope>>)
             /\ Position(names[i]) = h[i] /\ h[i] \in Int
  <2>1. names[i] = Order[h[i]] /\ h[i] \in DOMAIN Order /\ names[i] \in active
    BY <1>4, <1>5, <1>6, <1>8 DEF KeepsBy
  <2>2. Position(names[i]) = h[i] /\ h[i] \in Int
    BY <2>1, PlaceIs
  <2> QED BY <1>2, <1>3, <1>7, <1>8, <2>1, <2>2
<1>10. ASSUME NEW n \in Name, InForce(T, <<n, scope>>)
       PROVE  \E p \in DOMAIN terms :
                  /\ terms[p] = EntryOf(T, <<n, scope>>)
                  /\ \A i \in DOMAIN terms : i < p =>
                         \E m \in Name :
                             /\ InForce(T, <<m, scope>>) /\ Position(m) < Position(n)
                             /\ terms[i] = EntryOf(T, <<m, scope>>)
  <2>1. n \in active
    BY <1>2, <1>10
  <2>2. PICK p \in DOMAIN names : names[p] = n
    <3>1. PICK i \in DOMAIN Order : Order[i] = n
      BY <1>4
    <3> QED BY <1>4, <1>6, <2>1, <3>1, OccursInKept DEF names, Occurs
  <2>3. ASSUME NEW i \in DOMAIN terms, i < p PROVE Position(names[i]) < Position(n)
    <3>1. h[i] < h[p]
      BY <1>5, <1>6, <1>8, <2>3 DEF KeepsBy, Climbs
    <3> QED BY <1>8, <1>9, <2>2, <3>1
  <2> QED BY <1>8, <1>9, <2>2, <2>3
<1>11. InOrder(terms, T, scope)
  BY <1>8, <1>9, <1>10 DEF InOrder
<1> QED BY <1>1, <1>11

\* A term no narrower one hides is the first of the loaded table to claim its name.
LEMMA FirstOfTheTable ==
    ASSUME NEW T, NEW n \in Name, NEW scope \in Scopes, Covers(scope),
           InForce(T, <<n, scope>>),
           \A m \in Name, other \in Scopes :
               /\ <<m, other>> # <<n, scope>> /\ Covers(other) /\ InForce(T, <<m, other>>)
               /\ n \in Called(EntryOf(T, <<m, other>>))
               => Narrower(<<n, scope>>, <<m, other>>),
           NEW rest, IsSeq(rest)
    PROVE  LET table == Given(T, "configuration") \o Given(T, "customer")
                            \o Given(T, "programme") \o Given(T, "everywhere")
           IN  /\ IsSeq(table \o rest)
               /\ FirstToOwn(table \o rest, n, EntryOf(T, <<n, scope>>))
<1> DEFINE e == EntryOf(T, <<n, scope>>)
           Kinds == {"configuration", "customer", "programme", "everywhere"}
<1>1. /\ DOMAIN Rank = Kinds /\ scope \in Kinds
      /\ Rank["configuration"] = 0 /\ Rank["customer"] = 1
      /\ Rank["programme"] = 2 /\ Rank["everywhere"] = 3
  BY DEF Rank, Covers
<1>2. \A kind \in Kinds : Rank[kind] \in Int
  BY <1>1
<1>3. \A m \in Name : Position(m) \in Int
  <2> SUFFICES ASSUME NEW m \in Name PROVE Position(m) \in Int
    OBVIOUS
  <2>1. PICK i \in DOMAIN Order : Order[i] = m
    BY DEF Name, ToSet
  <2> QED BY <2>1, PlaceIs
<1>4. \A m, kind : Narrower(<<n, scope>>, <<m, kind>>) <=>
          \/ Rank[scope] < Rank[kind]
          \/ Rank[scope] = Rank[kind] /\ Position(n) < Position(m)
  BY DEF Narrower
<1>5. \A kind : IsSeq(Given(T, kind))
  BY TermsInOrder, ShortSeqs DEF Given, InOrder
<1>6. n \in Called(e)
  BY DEF Called, EntryOf
<1>7. ASSUME NEW kind \in Kinds, Rank[kind] < Rank[scope] PROVE Unclaimed(Given(T, kind), n)
  <2>1. CASE kind \in Scopes
    <3> SUFFICES ASSUME NEW i \in DOMAIN TermsOf(T, kind), n \in Called(TermsOf(T, kind)[i])
                 PROVE  FALSE
      BY <2>1 DEF Unclaimed, Given
    <3>1. PICK m \in Name :
              InForce(T, <<m, kind>>) /\ TermsOf(T, kind)[i] = EntryOf(T, <<m, kind>>)
      BY TermsInOrder DEF InOrder
    <3>2. kind # scope /\ Covers(kind)
      BY <1>1, <1>2, <1>7 DEF Covers
    <3>3. Narrower(<<n, scope>>, <<m, kind>>)
      BY <2>1, <3>1, <3>2
    <3> QED BY <1>1, <1>2, <1>4, <1>7, <3>3
  <2>2. CASE kind \notin Scopes
    BY <2>2 DEF Unclaimed, Given
  <2> QED BY <2>1, <2>2
<1>8. FirstToOwn(Given(T, scope), n, e)
  <2>1. PICK p \in DOMAIN TermsOf(T, scope) :
            /\ TermsOf(T, scope)[p] = e
            /\ \A i \in DOMAIN TermsOf(T, scope) : i < p =>
                   \E m \in Name :
                       /\ InForce(T, <<m, scope>>) /\ Position(m) < Position(n)
                       /\ TermsOf(T, scope)[i] = EntryOf(T, <<m, scope>>)
    BY TermsInOrder DEF InOrder
  <2>2. ASSUME NEW i \in DOMAIN TermsOf(T, scope), i < p, n \in Called(TermsOf(T, scope)[i])
        PROVE  FALSE
    <3>1. PICK m \in Name :
              /\ InForce(T, <<m, scope>>) /\ Position(m) < Position(n)
              /\ TermsOf(T, scope)[i] = EntryOf(T, <<m, scope>>)
      BY <2>1, <2>2
    <3>2. m # n
      BY <1>3, <3>1
    <3>3. Narrower(<<n, scope>>, <<m, scope>>)
      BY <2>2, <3>1, <3>2
    <3> QED BY <1>1, <1>2, <1>3, <1>4, <3>1, <3>3
  <2>3. Given(T, scope) = TermsOf(T, scope)
    BY DEF Given
  <2> QED BY <1>6, <2>1, <2>2, <2>3 DEF FirstToOwn
<1> DEFINE c1 == Given(T, "configuration")
           c2 == Given(T, "customer")
           c3 == Given(T, "programme")
           c4 == Given(T, "everywhere")
<1>9. IsSeq(c1) /\ IsSeq(c2) /\ IsSeq(c3) /\ IsSeq(c4)
  BY <1>5
<1>10. /\ scope = "configuration" => FirstToOwn(c1, n, e)
       /\ scope = "customer" => Unclaimed(c1, n) /\ FirstToOwn(c2, n, e)
       /\ scope = "programme" => Unclaimed(c1, n) /\ Unclaimed(c2, n) /\ FirstToOwn(c3, n, e)
       /\ scope = "everywhere" => /\ Unclaimed(c1, n) /\ Unclaimed(c2, n) /\ Unclaimed(c3, n)
                                  /\ FirstToOwn(c4, n, e)
  BY <1>1, <1>7, <1>8
<1> HIDE DEF c1, c2, c3, c4, e
<1>11. IsSeq(c1 \o c2)
       /\ (scope \in {"configuration", "customer"} => FirstToOwn(c1 \o c2, n, e))
       /\ (scope \in {"programme", "everywhere"} => Unclaimed(c1 \o c2, n))
  BY <1>9, <1>10, FirstOfBoth
<1>12. IsSeq(c1 \o c2 \o c3)
       /\ (scope \in {"configuration", "customer", "programme"} => FirstToOwn(c1 \o c2 \o c3, n, e))
       /\ (scope = "everywhere" => Unclaimed(c1 \o c2 \o c3, n))
  BY <1>9, <1>10, <1>11, FirstOfBoth
<1>13. IsSeq(c1 \o c2 \o c3 \o c4) /\ FirstToOwn(c1 \o c2 \o c3 \o c4, n, e)
  BY <1>1, <1>9, <1>10, <1>12, FirstOfBoth
<1>14. IsSeq((c1 \o c2 \o c3 \o c4) \o rest) /\ FirstToOwn((c1 \o c2 \o c3 \o c4) \o rest, n, e)
  BY <1>13, FirstOfBoth
<1> QED BY <1>14 DEF c1, c2, c3, c4, e

\* The ladder climbs to a spelling that is among the names, and stops nowhere empty.
LEMMA ClimbReaches ==
    ASSUME NEW wanted \in Name, NEW s, IsSeq(s), \A x : Contains(s, x) => x \in Name,
           NEW alternates, IsSeq(alternates), NEW x, Occurs(x, alternates), Contains(s, x)
    PROVE  Climb(wanted, s, alternates) # NoName
<1> DEFINE same == Kept(s, {c \in Name : <<wanted, c>> \in SameWords})
           spelled == SelectInSeq(alternates, LAMBDA a : Contains(s, a))
           I == {i \in 1..Len(alternates) : Contains(s, alternates[i])}
<1>1. Climb(wanted, s, alternates) =
          IF Contains(s, wanted) THEN wanted
          ELSE IF Only(same) # NoName THEN Only(same)
          ELSE IF spelled # 0 THEN alternates[spelled] ELSE NoName
  BY DEF Climb
<1>2. spelled = IF I # {} THEN Min(I) ELSE 0
  BY DEF SelectInSeq
<1>3. DOMAIN alternates = 1..Len(alternates) /\ Len(alternates) \in Nat
  BY SeqIn
<1>4. I # {} /\ I \subseteq 1..Len(alternates) /\ \A i \in I : Contains(s, alternates[i])
  BY <1>3 DEF Occurs
<1> HIDE DEF same, spelled, I
<1>5. Min(I) \in I
  BY <1>4, LeastPlace
<1>6. spelled # 0
  BY <1>2, <1>3, <1>4, <1>5
<1>7. alternates[spelled] \in Name
  BY <1>2, <1>4, <1>5
<1>8. NoName \notin Name
  BY EditorAssumption
<1> QED BY <1>1, <1>6, <1>7, <1>8, Zenon

\* Code finds a name wherever its term offers a spelling the delivery has near enough.
LEMMA CodeReads ==
    ASSUME NEW wanted \in Name, NEW found, NEW dictionary, IsSeq(dictionary),
           NEW entry, entry.canonical = wanted, IsSeq(entry.spellings),
           FirstToOwn(dictionary, wanted, entry), NEW a,
           \E sp \in ToSet(entry.spellings) : sp.name = found /\ sp.artifact \in {"", a},
           NEW names, IsSeq(names), NEW table, Contains(Near(wanted, names), found)
    PROVE  InCode(wanted, names, table, dictionary, a) # NoName
<1> DEFINE same == {c \in Name : table[c] = table[wanted]}
           aliased == Kept(names, same)
           climbed == Climb(wanted, names, <<>>)
           near == Near(wanted, names)
           alternates == Alternates(dictionary, wanted, a)
           last == Climb(wanted, near, alternates)
<1>1. InCode(wanted, names, table, dictionary, a) =
          IF aliased # <<>> THEN aliased[1] ELSE IF climbed # NoName THEN climbed ELSE last
  BY DEF InCode
<1>2. NoName \notin Name
  BY EditorAssumption
<1>3. IsSeq(near) /\ \A x : Contains(near, x) => Contains(names, x) /\ x \in Name
  BY NearIsFrom
<1>4. aliased # <<>> => aliased[1] \in Name
  <2>1. IsSeq(aliased) /\ \A i \in DOMAIN aliased : aliased[i] \in same
    BY KeptFacts
  <2> HIDE DEF aliased
  <2> QED BY <2>1, RestOfSeq
<1>5. ASSUME found = wanted PROVE aliased # <<>>
  <2>1. Occurs(wanted, names)
    <3>1. Contains(names, wanted) /\ DOMAIN names = 1..Len(names)
      BY <1>3, <1>5, SeqIn
    <3> QED BY <3>1 DEF Contains, Occurs
  <2>2. wanted \in same
    OBVIOUS
  <2> HIDE DEF same
  <2>3. Occurs(wanted, aliased)
    BY <2>1, <2>2, OccursInKept
  <2> HIDE DEF aliased
  <2> QED BY <2>3, OccursInShort
<1>6. ASSUME found # wanted PROVE last # NoName
  <2> DEFINE owned == dictionary[OwnerOf(dictionary, wanted)]
             offered(s) == IF s.artifact \in {"", a} /\ s.name # wanted THEN <<s.name>> ELSE <<>>
             given == [i \in DOMAIN entry.spellings |-> offered(entry.spellings[i])]
  <2>1. OwnerOf(dictionary, wanted) # 0 /\ owned = entry
    BY FirstOwns
  <2>2. alternates = <<>> \o FlattenSeq(given)
    <3>1. alternates =
              IF OwnerOf(dictionary, wanted) = 0 THEN <<>>
              ELSE (IF owned.canonical = wanted THEN <<>> ELSE <<owned.canonical>>)
                   \o FlattenSeq([i \in DOMAIN owned.spellings |-> offered(owned.spellings[i])])
      BY DEF Alternates
    <3> HIDE DEF owned, offered, alternates
    <3> QED BY <2>1, <3>1
  <2>3. /\ given = [i \in DOMAIN entry.spellings |-> given[i]]
        /\ \A i \in DOMAIN entry.spellings : given[i] = offered(entry.spellings[i])
    OBVIOUS
  <2>4. \A sp : IsSeq(offered(sp))
    BY ShortSeqs
  <2>5. PICK i \in DOMAIN entry.spellings :
            entry.spellings[i].name = found /\ entry.spellings[i].artifact \in {"", a}
    BY DEF ToSet
  <2>6. Occurs(found, offered(entry.spellings[i]))
    BY <1>6, <2>5, OccursInShort
  <2> HIDE DEF owned, offered, given, alternates
  <2>7. IsSeq(given) /\ DOMAIN given = DOMAIN entry.spellings
    BY <2>3, AlongSeq
  <2>8. IsSeq(FlattenSeq(given)) /\ Occurs(found, FlattenSeq(given))
    BY <2>3, <2>4, <2>6, <2>7, OccursInFlattened
  <2>9. IsSeq(alternates) /\ Occurs(found, alternates)
    BY <2>2, <2>8, ShortSeqs, OccursInJoined
  <2> HIDE DEF near
  <2> QED BY <1>3, <2>9, ClimbReaches DEF near
<1> HIDE DEF aliased, climbed, last
<1> QED BY <1>1, <1>2, <1>4, <1>5, <1>6

\* The inductive invariant: the terms are typed, and what is offered, read by the model or
\* reported unresolved is of names.
IsOffer(o) == o.wanted \in Name /\ o.found \in Name /\ o.artifact \in Artifact

OffersIInv ==
    /\ ReadingsIInv
    /\ term \in [Name \X Scopes -> Entry \cup {NoTerm}]
    /\ \A o \in offers : IsOffer(o)
    /\ \A r \in reasoned : IsLook(r.look) /\ (r.look.kind = "attribute" => r.found \in Name)
    /\ \A f \in findings : f.type = "attribute_not_resolved" => f.about.names \subseteq Name

\* A taught term is a term, with the spelling, and in force if it was.
LEMMA TaughtFacts ==
    ASSUME term \in [Name \X Scopes -> Entry \cup {NoTerm}],
           NEW k \in Name \X Scopes, NEW sp \in Spelling
    PROVE  /\ Taught(k, sp) \in Entry /\ Occurs(sp, Taught(k, sp).spellings)
           /\ term[k] = NoTerm \/ term[k].active => Taught(k, sp).active
<1>1. CASE term[k] = NoTerm
  <2>1. Taught(k, sp) = [active |-> TRUE, spellings |-> <<sp>>]
    BY <1>1 DEF Taught
  <2>2. <<sp>> \in Seq(Spelling) /\ Occurs(sp, <<sp>>)
    BY OccursInShort
  <2>3. Taught(k, sp).active /\ Taught(k, sp).spellings = <<sp>>
    BY <2>1
  <2>4. Taught(k, sp) \in Entry
    BY <2>1, <2>2 DEF Entry
  <2> QED BY <2>2, <2>3, <2>4
<1>2. CASE term[k] # NoTerm
  <2>1. /\ term[k] \in Entry /\ term[k].spellings \in Seq(Spelling) /\ term[k].active \in BOOLEAN
        /\ term[k] = [active |-> term[k].active, spellings |-> term[k].spellings]
    BY <1>2 DEF Entry
  <2> DEFINE old == term[k].spellings
  <2>2. CASE Contains(old, sp)
    <3>1. Taught(k, sp) = term[k]
      BY <1>2, <2>2 DEF Taught
    <3>2. Occurs(sp, old)
      BY <2>1, <2>2 DEF Contains, Occurs
    <3>3. Taught(k, sp) \in Entry /\ Occurs(sp, Taught(k, sp).spellings)
      BY <2>1, <3>1, <3>2
    <3> QED BY <1>2, <3>1, <3>3, Zenon
  <2>3. CASE ~Contains(old, sp)
    <3>1. Taught(k, sp) = [term[k] EXCEPT !.spellings = Append(@, sp)]
      BY <1>2, <2>3 DEF Taught
    <3>2. Taught(k, sp) = [active |-> term[k].active, spellings |-> Append(old, sp)]
      BY <2>1, <3>1 DEF Entry
    <3>3. Append(old, sp) \in Seq(Spelling) /\ Len(old) + 1 \in DOMAIN Append(old, sp)
          /\ Append(old, sp)[Len(old) + 1] = sp
      BY <2>1
    <3>4. Occurs(sp, Append(old, sp))
      BY <3>3 DEF Occurs
    <3>5. Taught(k, sp).active = term[k].active /\ Taught(k, sp).spellings = Append(old, sp)
      BY <3>2
    <3>6. Taught(k, sp) \in Entry
      BY <2>1, <3>2, <3>3 DEF Entry
    <3> QED BY <1>2, <3>4, <3>5, <3>6
  <2> QED BY <2>2, <2>3
<1> QED BY <1>1, <1>2

\* What any rows of the alias table say, as terms.
TermsOfAliases(table) ==
    LET rows == OurAliases(table)
        heads == Kept(Order, {rows[i].canonical : i \in DOMAIN rows})
        spelled(c) == Spellings(AliasesOf(rows, c))
    IN  [i \in DOMAIN heads |-> [canonical |-> heads[i], spellings |-> spelled(heads[i])]]

LEMMA AcceptedStep ==
    ASSUME OffersIInv, NEW o \in offers, NEW scope \in Scopes, NEW a \in {"", o.artifact},
           AcceptSuggestion(o.wanted, o.found, a, scope),
           term[<<o.wanted, scope>>] = NoTerm \/ term[<<o.wanted, scope>>].active,
           Covers(scope), FirstToClaim(<<o.wanted, scope>>)
    PROVE  ReadInCode(o.wanted, o.found, a)
<1> DEFINE k == <<o.wanted, scope>>
           sp == [name |-> o.found, artifact |-> a]
           T == term'
           e == EntryOf(T, k)
           rest == AliasTerms
<1>1. /\ o.wanted \in Name /\ o.found \in Name /\ o.artifact \in Artifact
      /\ term \in [Name \X Scopes -> Entry \cup {NoTerm}]
  BY DEF OffersIInv, IsOffer
<1>2. k \in Name \X Scopes /\ sp \in Spelling
  BY <1>1 DEF Spelling
<1>3. T = [term EXCEPT ![k] = Taught(k, sp)] /\ alias' = alias
  BY DEF AcceptSuggestion
<1>4. Taught(k, sp) \in Entry /\ Occurs(sp, Taught(k, sp).spellings) /\ Taught(k, sp).active
  BY <1>1, <1>2, TaughtFacts
<1>5. T[k] = Taught(k, sp) /\ \A l \in Name \X Scopes : l # k => T[l] = term[l]
  BY <1>1, <1>2, <1>3
<1>6. InForce(T, k)
  BY <1>4, <1>5, NamesAssumption DEF InForce
<1>7. ASSUME NEW m \in Name, NEW other \in Scopes, <<m, other>> # k, Covers(other),
             InForce(T, <<m, other>>), o.wanted \in Called(EntryOf(T, <<m, other>>))
      PROVE  Narrower(k, <<m, other>>)
  <2> DEFINE l == <<m, other>>
  <2>1. l \in Name \X Scopes /\ T[l] = term[l] /\ l[1] = m /\ l[2] = other /\ k[1] = o.wanted
    BY <1>5, <1>7
  <2>2. l \in Stored \ {k} /\ term[l].active
    BY <1>1, <1>7, <2>1 DEF Stored, InForce
  <2>3. k[1] \in Claims(l)
    BY <1>7, <2>1 DEF Claims, Called, EntryOf, SpelledNames
  <2> HIDE DEF l, k
  <2> QED BY <1>7, <2>1, <2>2, <2>3 DEF FirstToClaim, k, l
<1>8. IsSeq(rest) /\ rest' = rest
  <2> DEFINE ours == OurAliases(alias)
             heads == Kept(Order, {ours[i].canonical : i \in DOMAIN ours})
             row(c) == [canonical |-> c, spellings |-> Spellings(AliasesOf(ours, c))]
             rows == [i \in DOMAIN heads |-> row(heads[i])]
  <2>1. rest = rows
    BY DEF AliasTerms
  <2>6. AliasTerms = TermsOfAliases(alias) /\ AliasTerms' = TermsOfAliases(alias')
    BY DEF AliasTerms, TermsOfAliases
  <2>2. IsSeq(heads)
    BY KeptFacts, NamesAssumption
  <2>3. rows = [i \in DOMAIN heads |-> rows[i]]
    OBVIOUS
  <2> HIDE DEF heads, rows
  <2>4. IsSeq(rest)
    BY <2>1, <2>2, <2>3, AlongSeq
  <2>5. rest' = rest
    BY <1>3, <2>6
  <2> QED BY <2>4, <2>5
<1> HIDE DEF k, sp, T, e, rest
<1> DEFINE table == Given(T, "configuration") \o Given(T, "customer")
                        \o Given(T, "programme") \o Given(T, "everywhere")
<1>9. IsSeq(table \o rest) /\ FirstToOwn(table \o rest, o.wanted, e)
  BY <1>1, <1>6, <1>7, <1>8, FirstOfTheTable DEF k, e
<1>10. LoadedDictionary' = table \o rest
  <2>1. TermsInForce' = table
    BY DEF TermsInForce, Given, TermsOf, TermsAt, T
  <2> QED BY <1>8, <2>1 DEF LoadedDictionary, rest
<1>11. e.canonical = o.wanted /\ IsSeq(e.spellings) /\ sp \in ToSet(e.spellings)
  <2>1. e.canonical = o.wanted /\ e.spellings = Taught(k, sp).spellings
    BY <1>5 DEF e, EntryOf, k
  <2>2. Taught(k, sp).spellings \in Seq(Spelling)
    BY <1>4 DEF Entry
  <2> QED BY <1>4, <2>1, <2>2, SeqIs, OccursInSet
<1> HIDE DEF table
<1>12. ASSUME NEW d \in Deliveries, NEW b \in IF a = "" THEN Artifact ELSE {a}, NEW aliases,
              Contains(Near(o.wanted, NamesOfArtifact(d, aliases, b)), o.found)
       PROVE  InCode(o.wanted, NamesOfArtifact(d, aliases, b), aliases, table \o rest, b) # NoName
  <2>1. \E s \in ToSet(e.spellings) : s.name = o.found /\ s.artifact \in {"", b}
    BY <1>11 DEF sp
  <2> DEFINE names == NamesOfArtifact(d, aliases, b)
             dictionary == table \o rest
  <2>2. IsSeq(names)
    BY NamesAreInOrder
  <2>3. Contains(Near(o.wanted, names), o.found)
    BY <1>12
  <2>4. IsSeq(dictionary) /\ FirstToOwn(dictionary, o.wanted, e)
    BY <1>9
  <2> HIDE DEF names, dictionary
  <2>5. o.wanted \in Name /\ e.canonical = o.wanted /\ IsSeq(e.spellings)
    BY <1>1, <1>11
  <2>6. InCode(o.wanted, names, aliases, dictionary, b) # NoName
    BY <2>1, <2>2, <2>3, <2>4, <2>5, CodeReads, Zenon
  <2> QED BY <2>6 DEF names, dictionary
<1> QED BY <1>10, <1>12 DEF ReadInCode

LEMMA SpellingsAreSpellings == \A names : Spellings(names) \in Seq(Spelling)
<1> SUFFICES ASSUME NEW names PROVE Spellings(names) \in Seq(Spelling)
  OBVIOUS
<1> DEFINE sorted == Kept(Order, names)
           rows == [i \in DOMAIN sorted |-> [name |-> sorted[i], artifact |-> ""]]
<1>1. Spellings(names) = rows
  BY DEF Spellings
<1>2. IsSeq(sorted) /\ \A i \in DOMAIN sorted : sorted[i] \in Name
  <2>1. IsSeq(sorted) /\ \A x : Occurs(x, sorted) => x \in Name
    BY NamesAssumption, OccursInKept, OccursInSet DEF Name
  <2> HIDE DEF sorted
  <2> QED BY <2>1 DEF Occurs
<1> HIDE DEF sorted
<1>3. rows = [i \in DOMAIN sorted |-> rows[i]] /\ \A i \in DOMAIN sorted : rows[i] \in Spelling
  BY <1>2 DEF Spelling
<1> HIDE DEF rows
<1>4. IsSeq(rows) /\ DOMAIN rows = DOMAIN sorted
  BY <1>2, <1>3, AlongSeq
<1>5. ToSet(rows) \subseteq Spelling
  BY <1>3, <1>4 DEF ToSet
<1>6. \A R, S : R \subseteq S => Seq(R) \subseteq Seq(S)
  OBVIOUS
<1> QED BY <1>1, <1>4, <1>5, <1>6, SeqIn

LEMMA MoreSpellings ==
    ASSUME NEW e \in Entry, NEW more \in Seq(Spelling)
    PROVE  [e EXCEPT !.spellings = @ \o more] \in Entry
<1> DEFINE spelled == e.spellings \o more
<1>1. e.active \in BOOLEAN /\ spelled \in Seq(Spelling)
  BY DEF Entry
<1> HIDE DEF spelled
<1>2. [e EXCEPT !.spellings = spelled] \in Entry
  BY <1>1 DEF Entry
<1> QED BY <1>2 DEF spelled

\* Whatever people do to the tables, they hold terms.
LEMMA TermsStayTerms ==
    ASSUME OffersIInv, Console
    PROVE  term' \in [Name \X Scopes -> Entry \cup {NoTerm}]
<1> DEFINE Table == [Name \X Scopes -> Entry \cup {NoTerm}]
<1>1. term \in Table
  BY DEF OffersIInv
<1>2. ASSUME NEW k \in Name \X Scopes, NEW e \in Entry \cup {NoTerm},
             term' = [term EXCEPT ![k] = e]
      PROVE  term' \in Table
  BY <1>1, <1>2
<1>3. ASSUME NEW form \in Forms, NEW active \in BOOLEAN, NEW scope \in Scopes,
             SaveTerm(form.canonical, scope, form.spellings, active)
      PROVE  term' \in Table
  <2> DEFINE e == [active |-> active, spellings |-> form.spellings]
  <2>1. <<form.canonical, scope>> \in Name \X Scopes /\ e \in Entry
    BY EditorAssumption DEF Entry
  <2>2. term' = [term EXCEPT ![<<form.canonical, scope>>] = e]
    BY <1>3 DEF SaveTerm
  <2> HIDE DEF e, Table
  <2> QED BY <1>2, <2>1, <2>2
<1>4. ASSUME NEW k \in Stored, DeleteTerm(k) PROVE term' \in Table
  <2>1. k \in Name \X Scopes /\ term' = [term EXCEPT ![k] = NoTerm]
    BY <1>1, <1>4 DEF Stored, DeleteTerm
  <2> HIDE DEF Table
  <2> QED BY <1>2, <2>1
<1>5. ASSUME NEW o \in offers, NEW scope \in Scopes, NEW a \in {"", o.artifact},
             AcceptSuggestion(o.wanted, o.found, a, scope)
      PROVE  term' \in Table
  <2> DEFINE k == <<o.wanted, scope>>
             sp == [name |-> o.found, artifact |-> a]
  <2>1. k \in Name \X Scopes /\ sp \in Spelling
    BY DEF OffersIInv, IsOffer, Spelling
  <2>2. term' = [term EXCEPT ![k] = Taught(k, sp)]
    BY <1>5 DEF AcceptSuggestion
  <2> HIDE DEF k, sp
  <2>3. Taught(k, sp) \in Entry
    BY <1>1, <2>1, TaughtFacts
  <2> HIDE DEF Table
  <2> QED BY <1>2, <2>1, <2>2, <2>3
<1>6. ASSUME NEW p \in Proposals, ApproveMapping(p) PROVE term' \in Table
  <2> DEFINE k == <<p.attribute, p.scope>>
             sp == [name |-> p.name, artifact |-> p.artifact]
  <2>1. k \in Name \X Scopes /\ sp \in Spelling
    BY NamesAssumption DEF Proposal, Spelling
  <2>2. term' = [term EXCEPT ![k] = Taught(k, sp)]
    BY <1>6 DEF ApproveMapping
  <2> HIDE DEF k, sp
  <2>3. Taught(k, sp) \in Entry
    BY <1>1, <2>1, TaughtFacts
  <2> HIDE DEF Table
  <2> QED BY <1>2, <2>1, <2>2, <2>3
<1>7. ASSUME CopyAliases PROVE term' \in Table
  <2> DEFINE heads == {alias[i].canonical : i \in DOMAIN alias}
             canonicals == {k[1] : k \in Stored}
  <2>1. PICK last \in [canonicals -> Scopes] :
          LET known == UNION {SpelledNames(term[<<c, last[c]>>]) : c \in canonicals}
              target(c) == <<c, IF c \in canonicals THEN last[c] ELSE "everywhere">>
              new(c) == AliasesOf(alias, c) \ ({c} \cup known)
              extended(k) == IF k \in Stored
                             THEN [term[k] EXCEPT !.spellings = @ \o Spellings(new(k[1]))]
                             ELSE [active |-> TRUE, spellings |-> Spellings(new(k[1]))]
          IN  term' = [k \in DOMAIN term |->
                          IF k[1] \in heads /\ k = target(k[1]) /\ new(k[1]) # {}
                          THEN extended(k) ELSE term[k]]
    BY <1>7, Zenon DEF CopyAliases
  <2> DEFINE known == UNION {SpelledNames(term[<<c, last[c]>>]) : c \in canonicals}
             new(c) == AliasesOf(alias, c) \ ({c} \cup known)
             extended(k) == IF k \in Stored
                            THEN [term[k] EXCEPT !.spellings = @ \o Spellings(new(k[1]))]
                            ELSE [active |-> TRUE, spellings |-> Spellings(new(k[1]))]
  <2>2. DOMAIN term' = DOMAIN term
        /\ \A k \in DOMAIN term : term'[k] = extended(k) \/ term'[k] = term[k]
    BY <2>1
  <2>3. term' = [k \in DOMAIN term |-> term'[k]]
    BY <2>1
  <2>4. ASSUME NEW k \in Name \X Scopes PROVE extended(k) \in Entry
    <3>1. Spellings(new(k[1])) \in Seq(Spelling)
      BY SpellingsAreSpellings
    <3> HIDE DEF new
    <3>2. CASE k \in Stored
      <4>1. term[k] \in Entry
        BY <1>1, <3>2 DEF Stored
      <4>2. extended(k) = [term[k] EXCEPT !.spellings = @ \o Spellings(new(k[1]))]
        BY <3>2
      <4> HIDE DEF extended
      <4> QED BY <3>1, <4>1, <4>2, MoreSpellings
    <3>3. CASE k \notin Stored
      BY <3>1, <3>3 DEF Entry
    <3> QED BY <3>2, <3>3
  <2> HIDE DEF extended
  <2>5. DOMAIN term = Name \X Scopes
    BY <1>1
  <2>6. \A k \in Name \X Scopes : term'[k] \in Entry \cup {NoTerm}
    BY <1>1, <2>2, <2>4, <2>5
  <2> QED BY <2>3, <2>5, <2>6
<1>8. ASSUME UNCHANGED term PROVE term' \in Table
  BY <1>1, <1>8
<1> HIDE DEF Table
<1>9. ASSUME NEW p \in Proposals, Propose(p) \/ RejectMapping(p) \/ WithdrawMapping(p)
      PROVE  UNCHANGED term
  BY <1>9 DEF Propose, RejectMapping, WithdrawMapping
<1>10. ASSUME NEW row \in NewAliases, CreateAlias(row) PROVE UNCHANGED term
  BY <1>10 DEF CreateAlias
<1>11. ASSUME NEW i \in DOMAIN alias, DeleteAlias(i) PROVE UNCHANGED term
  BY <1>11 DEF DeleteAlias
<1>12. term' \in Table
  BY <1>3, <1>4, <1>5, <1>6, <1>7, <1>8, <1>9, <1>10, <1>11 DEF Console
<1> QED BY <1>12 DEF Table

LEMMA HeadIsLook ==
    ASSUME ReadingsIInv, todo # <<>>
    PROVE  IsLook(Head(todo))
<1>1. stage \in {"checks", "late"}
  BY DEF ReadingsIInv
<1>2. CASE stage = "checks"
  <2>1. Head(todo) \in Looks[delivery] /\ delivery \in Deliveries
    BY <1>2, HeadAndTail DEF ReadingsIInv
  <2> QED BY <2>1, EarlyLooksAreLooks
<1>3. CASE stage = "late"
  <2>1. Head(todo) \in LateHeadings
    BY <1>3, HeadAndTail DEF ReadingsIInv
  <2> QED BY <2>1, LateAreColumns DEF IsLook
<1> QED BY <1>1, <1>2, <1>3

\* An unresolved attribute that a check raises is a name the check was for.
LEMMA RaisedAreNames ==
    ASSUME NEW d \in Deliveries, NEW r \in Rules(d), NEW c \in Checks(r),
           NEW f \in Raised(r, c), f.type = "attribute_not_resolved"
    PROVE  f.about.names \subseteq Name
<1>1. f = Finding("attribute_not_resolved", r.id, [c EXCEPT !.names = Unresolved(c)])
      /\ Unresolved(c) # {}
  <2> DEFINE missing(n) == Finding("attribute_not_resolved", r.id, [c EXCEPT !.names = Unresolved(c)])
  <2>1. \/ \E n \in Unresolved(c) : f = missing(n)
        \/ f = Finding("could_not_evaluate", r.id, c)
        \/ f = Finding("report_violates_rule", r.id, c)
    BY DEF Raised
  <2>2. /\ Finding("could_not_evaluate", r.id, c).type = "could_not_evaluate"
        /\ Finding("report_violates_rule", r.id, c).type = "report_violates_rule"
    BY DEF Finding
  <2> QED BY <2>1, <2>2
<1>2. Unresolved(c) \subseteq Name
  <2>1. c.kind # "unknown_product_code"
    BY <1>1 DEF Unresolved
  <2>2. Unresolved(c) \subseteq c.names
    BY DEF Unresolved
  <2> QED BY <2>1, <2>2, ChecksAreOfNames
<1>3. \E kind, names : c = [kind |-> kind, names |-> names]
  <2>1. r.type \in {"attributes", "criteria", "other"}
    BY DeliveriesAssumption
  <2>2. CASE r.type = "attributes"
    BY <2>2 DEF Checks, AttributeChecks
  <2>3. CASE r.type = "criteria"
    BY <2>3 DEF Checks
  <2>4. CASE r.type = "other"
    BY <2>4 DEF Checks
  <2> QED BY <2>1, <2>2, <2>3, <2>4
<1> DEFINE names == Unresolved(c)
<1>4. f.about = [c EXCEPT !.names = names]
  BY <1>1 DEF Finding
<1> HIDE DEF names
<1>5. [c EXCEPT !.names = names].names = names
  BY <1>3
<1> QED BY <1>2, <1>4, <1>5 DEF names

LEMMA ProposedAreOffers ==
    ASSUME OffersIInv, stage # "idle"
    PROVE  \A o \in Proposed : IsOffer(o)
<1>1. \A n \in UnresolvedNames : n \in Name
  BY DEF OffersIInv, UnresolvedNames
<1>2. delivery \in Deliveries /\ IsSeq(delivery.layout)
  BY DeliveriesAssumption DEF OffersIInv, ReadingsIInv
<1>3. ASSUME NEW n \in UnresolvedNames, Len(Near(n, delivery.layout)) = 1
      PROVE  IsOffer([wanted |-> n, found |-> Near(n, delivery.layout)[1], artifact |-> "dirt"])
  <2>1. Contains(Near(n, delivery.layout), Near(n, delivery.layout)[1])
    BY <1>3 DEF Contains
  <2>2. Near(n, delivery.layout)[1] \in Name
    BY <1>2, <2>1, NearIsFrom
  <2> QED BY <1>1, <2>2 DEF IsOffer, Artifact
<1>4. ASSUME NEW r \in reasoned, r.look.kind = "attribute"
      PROVE  IsOffer([wanted |-> r.look.wanted, found |-> r.found, artifact |-> r.look.artifact])
  BY <1>4 DEF OffersIInv, IsLook, IsOffer
<1>5. \A o \in FromRecordLayout(UnresolvedNames) : IsOffer(o)
  BY <1>3 DEF FromRecordLayout
<1> QED BY <1>4, <1>5 DEF Proposed

\* What the run remembers of names is typed whatever a look-up comes to.
LEMMA ReadingsStayTyped ==
    ASSUME OffersIInv, LookUpHeading \/ SkipLookUp \/ LookUpAttribute
    PROVE  /\ \A r \in reasoned' : IsLook(r.look) /\ (r.look.kind = "attribute" => r.found \in Name)
           /\ UNCHANGED <<term, offers, findings>>
<1> DEFINE Fits(r) == IsLook(r.look) /\ (r.look.kind = "attribute" => r.found \in Name)
<1>1. \A r \in reasoned : Fits(r)
  BY DEF OffersIInv
<1>2. todo # <<>> /\ IsLook(Head(todo))
  BY HeadIsLook DEF OffersIInv, LookUpHeading, SkipLookUp, LookUpAttribute
<1>3. \A match : Heard(match) => UNCHANGED <<term, offers, findings>>
  BY DEF Heard, dictionaryVars
<1>4. \A name : Reading(Head(todo), name).look = Head(todo) /\ Reading(Head(todo), name).found = name
  BY DEF Reading
<1>5. CASE LookUpHeading
  <2>1. Head(todo).kind = "column"
    BY <1>5 DEF LookUpHeading
  <2>2. reasoned' = reasoned \/ \E h : reasoned' = reasoned \cup {Reading(Head(todo), h)}
    BY <1>5 DEF LookUpHeading
  <2>3. \E match : Heard(match)
    BY <1>5 DEF LookUpHeading
  <2>4. \A h : Fits(Reading(Head(todo), h))
    BY <1>2, <1>4, <2>1
  <2> HIDE DEF Fits
  <2>5. \A r \in reasoned' : Fits(r)
    BY <1>1, <2>2, <2>4
  <2> QED BY <1>3, <2>3, <2>5 DEF Fits
<1>6. CASE SkipLookUp
  BY <1>1, <1>3, <1>6 DEF SkipLookUp
<1>7. CASE LookUpAttribute
  <2>1. \/ reasoned' = reasoned /\ \E match : Heard(match)
        \/ \E said \in Name \cup {NoName} : \E wanted, near : Answered(wanted, near, said)
    BY <1>7 DEF LookUpAttribute, AskModel
  <2>2. ASSUME NEW said \in Name \cup {NoName}, NEW wanted, NEW near, Answered(wanted, near, said)
        PROVE  (\A r \in reasoned' : Fits(r)) /\ \E match : Heard(match)
    <3>1. \/ reasoned' = reasoned
          \/ said # NoName /\ reasoned' = reasoned \cup {Reading(Head(todo), said)}
      BY <2>2 DEF Answered
    <3>2. \E match : Heard(match)
      BY <2>2 DEF Answered
    <3>3. said # NoName => Fits(Reading(Head(todo), said))
      BY <1>2, <1>4
    <3> HIDE DEF Fits
    <3> QED BY <1>1, <3>1, <3>2, <3>3
  <2> HIDE DEF Fits
  <2>3. (\A r \in reasoned' : Fits(r)) /\ \E match : Heard(match)
    BY <1>1, <2>1, <2>2
  <2> QED BY <1>3, <2>3 DEF Fits
<1> QED BY <1>5, <1>6, <1>7

LEMMA OffersStep ==
    ASSUME OffersIInv, [EvidenceNext]_evidenceVars
    PROVE  OffersIInv'
<1> DEFINE Terms == term \in [Name \X Scopes -> Entry \cup {NoTerm}]
           Offered == \A o \in offers : IsOffer(o)
           Reasoned == \A r \in reasoned :
                           IsLook(r.look) /\ (r.look.kind = "attribute" => r.found \in Name)
           Told == \A f \in findings :
                          f.type = "attribute_not_resolved" => f.about.names \subseteq Name
<1>1. ReadingsIInv'
  BY ReadingsStep DEF OffersIInv
<1>2. Terms /\ Offered /\ Reasoned /\ Told /\ ReadingsIInv
  BY DEF OffersIInv
<1> SUFFICES Terms' /\ Offered' /\ Reasoned' /\ Told'
  BY <1>1 DEF OffersIInv
<1>3. UNCHANGED term => Terms'
  BY <1>2
<1>4. UNCHANGED offers => Offered'
  BY <1>2 DEF IsOffer
<1>5. UNCHANGED reasoned => Reasoned'
  BY <1>2 DEF IsLook
<1>6. UNCHANGED findings => Told'
  BY <1>2
<1>7. \A d \in Deliveries : StartRun(d) => Terms' /\ Offered' /\ Reasoned' /\ Told'
  <2> SUFFICES ASSUME NEW d \in Deliveries, StartRun(d)
               PROVE  Terms' /\ Offered' /\ Reasoned' /\ Told'
    OBVIOUS
  <2>1. /\ UNCHANGED <<term, offers, reasoned>>
        /\ findings' = {Finding("rule_missing_in_config", r.id, NoCheck) : r \in Untraced(d)}
    BY DEF StartRun, dictionaryVars
  <2>2. \A f \in findings' : f.type = "rule_missing_in_config"
    BY <2>1 DEF Finding
  <2>3. Told'
    BY <2>2
  <2> QED BY <1>3, <1>4, <1>5, <2>1, <2>3
<1>8. ASSUME LookUpHeading \/ SkipLookUp \/ LookUpAttribute
      PROVE  Terms' /\ Offered' /\ Reasoned' /\ Told'
  <2>1. /\ \A r \in reasoned' : IsLook(r.look) /\ (r.look.kind = "attribute" => r.found \in Name)
        /\ UNCHANGED <<term, offers, findings>>
    BY <1>8, ReadingsStayTyped
  <2>2. Reasoned'
    BY <2>1 DEF IsLook
  <2> QED BY <1>3, <1>4, <1>6, <2>1, <2>2
<1>9. ASSUME Report
      PROVE  Terms' /\ Offered' /\ Reasoned' /\ Told'
  <2> DEFINE raised == UNION {Raised(p[1], p[2]) : p \in AllChecks(delivery)}
  <2>1. findings' = findings \cup Readings \cup raised
    BY <1>9, Zenon DEF Report
  <2>2. UNCHANGED <<term, offers, reasoned>> /\ stage = "checks"
    BY <1>9, Zenon DEF Report, dictionaryVars
  <2>3. delivery \in Deliveries
    BY <1>2, <2>2 DEF ReadingsIInv
  <2>4. \A f \in Readings : f.type = "layout_reasoned"
    <3>1. \A f \in Readings : \E r \in reasoned : f = Finding("layout_reasoned", "", r)
      BY DEF Readings
    <3>2. \A r : Finding("layout_reasoned", "", r).type = "layout_reasoned"
      BY DEF Finding
    <3> QED BY <3>1, <3>2
  <2>5. ASSUME NEW f \in raised, f.type = "attribute_not_resolved"
        PROVE  f.about.names \subseteq Name
    <3>1. PICK r \in Rules(delivery) : \E c \in Checks(r) : f \in Raised(r, c)
      BY DEF AllChecks
    <3>2. PICK c \in Checks(r) : f \in Raised(r, c)
      BY <3>1
    <3> HIDE DEF raised
    <3> QED BY <2>3, <2>5, <3>1, <3>2, RaisedAreNames
  <2> HIDE DEF raised
  <2>6. Told'
    BY <1>2, <2>1, <2>4, <2>5
  <2> QED BY <1>3, <1>4, <1>5, <2>2, <2>6
<1>10. ASSUME Save
       PROVE  Terms' /\ Offered' /\ Reasoned' /\ Told'
  <2>1. /\ stage = "late" /\ offers' = offers \cup {o \in Proposed : ~Recorded(o)}
        /\ UNCHANGED <<term, reasoned, findings>>
    BY <1>10 DEF Save, dictionaryVars
  <2>2. \A o \in Proposed : IsOffer(o)
    BY <2>1, ProposedAreOffers
  <2>3. \A o \in offers' : IsOffer(o)
    BY <1>2, <2>1, <2>2
  <2>4. Offered'
    BY <2>3 DEF IsOffer
  <2> QED BY <1>3, <1>5, <1>6, <2>1, <2>4
<1>11. ASSUME NextRun
       PROVE  Terms' /\ Offered' /\ Reasoned' /\ Told'
  <2>1. UNCHANGED <<term, offers>> /\ reasoned' = {} /\ findings' = {}
    BY <1>11 DEF NextRun, dictionaryVars
  <2> QED BY <1>3, <1>4, <2>1
<1>12. ASSUME Console
       PROVE  Terms' /\ Offered' /\ Reasoned' /\ Told'
  <2>1. UNCHANGED <<offers, reasoned, findings>>
    BY <1>12 DEF Console, runVars
  <2>2. Terms'
    BY <1>12, TermsStayTerms DEF Entry, Spelling
  <2> QED BY <1>4, <1>5, <1>6, <2>1, <2>2
<1>13. ASSUME UNCHANGED evidenceVars
       PROVE  Terms' /\ Offered' /\ Reasoned' /\ Told'
  BY <1>3, <1>4, <1>5, <1>6, <1>13 DEF evidenceVars, dictionaryVars, runVars
<1> HIDE DEF Terms, Offered, Reasoned, Told
<1> QED BY <1>7, <1>8, <1>9, <1>10, <1>11, <1>12, <1>13 DEF EvidenceNext

\* Accepting a suggestion into a term that is in force and that no narrower one hides makes
\* every later run read the name in code, for any tables, deliveries and resemblances.
THEOREM AcceptedIsReadByCode == EvidenceSpec => AcceptedIsRead
<1>1. EvidenceInit => OffersIInv
  BY DEF EvidenceInit, DictionaryInit, OffersIInv, ReadingsIInv, ReadingsAreReported
<1>2. OffersIInv /\ [EvidenceNext]_evidenceVars => OffersIInv'
  BY OffersStep
<1>3. OffersIInv /\ [EvidenceNext]_evidenceVars =>
          [\A o \in offers, scope \in Scopes : \A a \in {"", o.artifact} :
               LET k == <<o.wanted, scope>>
               IN  /\ AcceptSuggestion(o.wanted, o.found, a, scope)
                   /\ term[k] = NoTerm \/ term[k].active
                   /\ Covers(scope) /\ FirstToClaim(k)
                   => ReadInCode(o.wanted, o.found, a)]_evidenceVars
  BY AcceptedStep
<1> QED BY <1>1, <1>2, <1>3, PTL DEF EvidenceSpec, AcceptedIsRead

=============================================================================
