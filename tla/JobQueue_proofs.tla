--------------------------- MODULE JobQueue_proofs ---------------------------
(***************************************************************************)
(* Proofs about JobQueue, for any number of jobs and workers.              *)
(*                                                                         *)
(* The inductive invariant IInv says that the row of a job being executed  *)
(* names its worker and is fresh, so that neither the read of abandoned    *)
(* jobs nor the update of stale ones can touch it, that what a claim       *)
(* transaction has read as abandoned stays so until it commits, and that   *)
(* what `fail` has loaded is still what the row says when it writes.       *)
(***************************************************************************)
EXTENDS JobQueue, TLAPS

\* The row of a job that is being executed is not stale, and the heartbeat
\* thread of a worker whose handler runs, or raised, is alive and at most one
\* period behind.
Fresh ==
    \A w \in Workers : Executing(w) =>
        /\ worker[w].job \in Jobs
        /\ job[worker[w].job].age <= StaleAfter
        /\ worker[w].pc \in {"working", "failing"} =>
             worker[w].beating /\ job[worker[w].job].age <= 1

\* What `fail` loaded is still so when it writes: nobody took the job over.
ReadIsCurrent ==
    \A w \in Workers : worker[w].pc = "failing" =>
        /\ worker[w].read.status = "running"
        /\ worker[w].read.attempts = job[worker[w].job].attempts

\* What a claim transaction read as abandoned has no live worker, and was at
\* most given up on by another transaction since.
DoomedAreDead ==
    \A w \in Workers : \A j \in worker[w].doomed :
        /\ \/ job[j].status = "failed"
           \/ job[j].status = "running" /\ job[j].age > StaleAfter
        /\ LastAttempt(j)
        /\ \A v \in Workers : Executing(v) => worker[v].job # j

\* A job that may be tried again has an attempt left.
AttemptsLeft ==
    \A j \in Jobs :
        /\ job[j].attempts <= MaxAttempts
        /\ job[j].status = "failed" => job[j].attempts = MaxAttempts
        /\ job[j].status \in {"absent", "queued"} => job[j].attempts < MaxAttempts
        /\ job[j].status = "running" => job[j].attempts > 0

IInv ==
    TypeOK /\ ClaimRecorded /\ Fresh /\ ReadIsCurrent /\ DoomedAreDead /\ AttemptsLeft

-----------------------------------------------------------------------------
(* Lemmas about the operators. *)

\* The delay before a retry is a number of ticks, whatever the attempt.
LEMMA RetryDelayType ==
    ASSUME NEW n \in Nat, n > 0
    PROVE  RetryDelay(n) \in Nat
BY BackoffAssumption DEF RetryDelay

\* Giving a claim up and taking a job leave a row, and what they change of it.
LEMMA ReleasedType ==
    ASSUME NEW row \in JobRow, NEW s \in Statuses
    PROVE  /\ Released(row, s) \in JobRow
           /\ Released(row, s).status = s
           /\ Released(row, s).locked_by = NoWorker
           /\ Released(row, s).attempts = row.attempts
<1>1. 0 \in 0 .. StaleAfter + 1
  BY StaleAssumption
<1> QED BY <1>1 DEF JobRow, Released

LEMMA TakenType ==
    ASSUME NEW row \in JobRow, NEW w \in Workers
    PROVE  /\ Taken(row, w) \in JobRow
           /\ Taken(row, w).status = "running"
           /\ Taken(row, w).locked_by = w
           /\ Taken(row, w).age = 0
           /\ Taken(row, w).attempts = row.attempts + 1
<1>1. 0 \in 0 .. StaleAfter + 1 /\ row.attempts + 1 \in Nat /\ "running" \in Statuses
  BY StaleAssumption DEF JobRow, Statuses
<1>2. \A n : Taken(row, w).attempts = n <=> row.attempts + 1 = n
  BY DEF JobRow, Taken
<1> QED BY <1>1, <1>2 DEF JobRow, Taken

\* `reclaim_stale` leaves a table of job rows.
LEMMA ReclaimedType ==
    ASSUME TypeOK, NEW doomed \in SUBSET Jobs
    PROVE  Reclaimed(doomed) \in [Jobs -> JobRow]
<1>1. ASSUME NEW j \in Jobs PROVE Reclaimed(doomed)[j] \in JobRow
  BY ReleasedType DEF TypeOK, Reclaimed, Statuses
<1> QED BY <1>1 DEF Reclaimed

\* Time passing leaves a row a row, and changes its two clocks only.
LEMMA AgedType ==
    ASSUME NEW row \in JobRow
    PROVE  /\ Aged(row) \in JobRow
           /\ Aged(row).status = row.status
           /\ Aged(row).locked_by = row.locked_by
           /\ Aged(row).attempts = row.attempts
           /\ Aged(row).age <= row.age + 1
           /\ row.age <= Aged(row).age
<1> DEFINE a == IF row.status = "running" /\ row.age <= StaleAfter
                THEN row.age + 1 ELSE row.age
           t == IF row.status \in {"queued", "running"} /\ row.wait > -Past
                THEN row.wait - 1 ELSE row.wait
<1>1. a \in 0 .. StaleAfter + 1 /\ row.age <= a /\ a <= row.age + 1
  BY StaleAssumption DEF JobRow
<1>2. t \in Int
  BY DelayAssumption DEF JobRow
<1>3. Aged(row) = [row EXCEPT !.age = a, !.wait = t]
  BY DEF Aged, JobRow
<1> HIDE DEF a, t
<1> QED BY <1>1, <1>2, <1>3 DEF JobRow

\* A failed attempt leaves a row, ended or with an attempt left, when what
\* was loaded is what the row still says.
LEMMA FailedType ==
    ASSUME NEW row \in JobRow, row.status = "running", row.attempts > 0,
           NEW read, read.status = "running", read.attempts = row.attempts
    PROVE  /\ Failed(read, row) \in JobRow
           /\ Failed(read, row).attempts = row.attempts
           /\ \/ Failed(read, row).status = "failed" /\ row.attempts >= MaxAttempts
              \/ Failed(read, row).status = "queued" /\ ~(row.attempts >= MaxAttempts)
<1>1. CASE row.attempts >= MaxAttempts
  <2>1. Failed(read, row) = [row EXCEPT !.status = "failed"]
    BY <1>1 DEF Failed
  <2> QED BY <2>1, <1>1 DEF JobRow, Statuses
<1>2. CASE ~(row.attempts >= MaxAttempts)
  <2> DEFINE free == Released(row, "queued")
             delay == RetryDelay(row.attempts)
             gone == free.late \/ row.attempts < row.attempts
  <2>1. free \in JobRow /\ free.status = "queued" /\ free.attempts = row.attempts
    BY ReleasedType DEF Statuses
  <2>2. delay \in Int /\ gone \in BOOLEAN
    BY RetryDelayType DEF JobRow
  <2>3. Failed(read, row) = [free EXCEPT !.wait = delay, !.late = gone]
    BY <1>2 DEF Failed, Retried
  <2> HIDE DEF free, delay, gone
  <2>4. /\ [free EXCEPT !.wait = delay, !.late = gone] \in JobRow
        /\ [free EXCEPT !.wait = delay, !.late = gone].status = free.status
        /\ [free EXCEPT !.wait = delay, !.late = gone].attempts = free.attempts
    BY <2>1, <2>2 DEF JobRow
  <2> QED BY <2>1, <2>3, <2>4, <1>2
<1> QED BY <1>1, <1>2

-----------------------------------------------------------------------------
\* A worker that holds nothing, and one that has just taken a job.
LEMMA IdleType ==
    /\ Idle \in WorkerState
    /\ \A j \in Jobs :
         LET taken == [Idle EXCEPT !.pc = "working", !.job = j, !.beating = TRUE] IN
         /\ taken \in WorkerState
         /\ taken.pc = "working" /\ taken.job = j /\ taken.beating /\ taken.doomed = {}
BY DEF Idle, WorkerState, NoRead, Statuses, NoJob

LEMMA InitIInv == Init => IInv
<1> SUFFICES ASSUME Init PROVE IInv
  OBVIOUS
<1>1. NoRow \in JobRow
  <2>1. 0 \in 0 .. StaleAfter + 1
    BY StaleAssumption
  <2> QED BY <2>1 DEF NoRow, JobRow, Statuses
<1>2. TypeOK
  BY <1>1, IdleType DEF Init, TypeOK
<1>3. ClaimRecorded /\ Fresh /\ ReadIsCurrent /\ DoomedAreDead
  BY DEF Init, Idle, ClaimRecorded, Fresh, ReadIsCurrent, DoomedAreDead, Executing
<1>4. AttemptsLeft
  BY AttemptsAssumption DEF Init, NoRow, AttemptsLeft
<1> QED BY <1>2, <1>3, <1>4 DEF IInv

\* What a failing worker writes: it gives up on the last attempt, and puts the
\* job back before it.
LEMMA FailedIs ==
    ASSUME IInv, NEW w \in Workers, worker[w].pc = "failing"
    PROVE  /\ Failed(worker[w].read, job[worker[w].job]) \in JobRow
           /\ Failed(worker[w].read, job[worker[w].job]).attempts
                = job[worker[w].job].attempts
           /\ \/ /\ Failed(worker[w].read, job[worker[w].job]).status = "failed"
                 /\ LastAttempt(worker[w].job)
              \/ /\ Failed(worker[w].read, job[worker[w].job]).status = "queued"
                 /\ ~LastAttempt(worker[w].job)
<1>1. worker[w].job \in Jobs /\ job[worker[w].job] \in JobRow
  BY DEF IInv, TypeOK, Fresh, Executing
<1>2. /\ job[worker[w].job].status = "running" /\ job[worker[w].job].attempts > 0
      /\ worker[w].read.status = "running"
      /\ worker[w].read.attempts = job[worker[w].job].attempts
  BY <1>1 DEF IInv, ClaimRecorded, ReadIsCurrent, AttemptsLeft, Executing
<1> QED BY <1>1, <1>2, FailedType DEF LastAttempt

\* Every step of the specification preserves the type invariant.
LEMMA NextTypeOK ==
    ASSUME IInv, Next
    PROVE  TypeOK'
<1>0. TypeOK  BY DEF IInv
<1> USE <1>0 DEF TypeOK
<1>1. ASSUME NEW j \in Jobs, Submit(j) PROVE TypeOK'
  <2>1. PICK wait \in {0, Grace} : Enqueue(j, wait) /\ UNCHANGED <<worker, held>>
    BY <1>1 DEF Submit
  <2>2. [NoRow EXCEPT !.status = "queued", !.wait = wait] \in JobRow
    <3>1. wait \in Int /\ 0 \in 0 .. StaleAfter + 1
      BY DelayAssumption, StaleAssumption
    <3> QED BY <3>1 DEF NoRow, JobRow, Statuses
  <2> QED BY <2>1, <2>2 DEF Enqueue
<1>2. ASSUME NEW j \in Jobs, Drop(j) PROVE TypeOK'
  <2>1. [job[j] EXCEPT !.status = "deleted"] \in JobRow
    BY DEF JobRow, Statuses
  <2> QED BY <1>2, <2>1 DEF Drop
<1>3. ASSUME NEW w \in Workers, Poll(w) PROVE TypeOK'
  <2>1. worker' = [worker EXCEPT ![w] = [@ EXCEPT !.pc = "polling", !.doomed = Abandoned]]
        /\ UNCHANGED <<job, held>>
    BY <1>3 DEF Poll
  <2>2. Abandoned \in SUBSET Jobs
    BY DEF Abandoned
  <2>3. [worker[w] EXCEPT !.pc = "polling", !.doomed = Abandoned] \in WorkerState
    BY <2>2 DEF WorkerState
  <2> QED BY <2>1, <2>3
<1>4. ASSUME NEW w \in Workers, Claim(w) PROVE TypeOK'
  <2> DEFINE table == Reclaimed(worker[w].doomed)
  <2>1. table \in [Jobs -> JobRow]
    BY ReclaimedType DEF WorkerState
  <2>2. PICK j \in Jobs :
          /\ job' = [table EXCEPT ![j] = Taken(@, w)]
          /\ worker' = [worker EXCEPT ![w] =
               [Idle EXCEPT !.pc = "working", !.job = j, !.beating = TRUE]]
    BY <1>4 DEF Claim
  <2>3. job' \in [Jobs -> JobRow]
    BY <2>1, <2>2, TakenType
  <2>4. worker' \in [Workers -> WorkerState]
    BY <2>2, IdleType
  <2> QED BY <2>3, <2>4, <1>4 DEF Claim
<1>5. ASSUME NEW w \in Workers, ClaimNothing(w) PROVE TypeOK'
  BY <1>5, ReclaimedType, IdleType DEF ClaimNothing, WorkerState
<1>6. ASSUME NEW w \in Workers, Return(w) PROVE TypeOK'
  <2>1. [worker[w] EXCEPT !.pc = "finishing", !.beating = FALSE] \in WorkerState
    BY DEF WorkerState
  <2> QED BY <1>6, <2>1 DEF Return
<1>7. ASSUME NEW w \in Workers, Finish(w) PROVE TypeOK'
  <2> DEFINE j == worker[w].job
  <2>1. job' \in [Jobs -> JobRow]
    <3>1. CASE job[j].status = "deleted"
      BY <1>7, <3>1 DEF Finish
    <3>2. CASE job[j].status # "deleted"
      <4>1. \A i \in Jobs : [job[i] EXCEPT !.status = "done"] \in JobRow
        BY DEF JobRow, Statuses
      <4> QED BY <1>7, <3>2, <4>1 DEF Finish
    <3> QED BY <3>1, <3>2
  <2>2. worker' \in [Workers -> WorkerState]
    BY <1>7, IdleType DEF Finish
  <2> QED BY <2>1, <2>2, <1>7 DEF Finish
<1>8. ASSUME NEW w \in Workers, FailRead(w) PROVE TypeOK'
  <2> DEFINE row == job[worker[w].job]
             loaded == [status |-> row.status, attempts |-> row.attempts]
  <2>1. Executing(w)
    BY <1>8 DEF FailRead, Executing
  <2>2. worker[w].job \in Jobs
    BY <2>1 DEF IInv, Fresh
  <2>3. loaded \in [status : Statuses, attempts : Nat]
    BY <2>2 DEF JobRow
  <2>4. worker' = [worker EXCEPT ![w] = [@ EXCEPT !.pc = "failing", !.read = loaded]]
        /\ UNCHANGED <<job, held>>
    BY <1>8 DEF FailRead
  <2> HIDE DEF loaded
  <2>5. [worker[w] EXCEPT !.pc = "failing", !.read = loaded] \in WorkerState
    BY <2>3 DEF WorkerState
  <2> QED BY <2>4, <2>5
<1>13. ASSUME NEW w \in Workers, FailWrite(w) PROVE TypeOK'
  <2>1. Failed(worker[w].read, job[worker[w].job]) \in JobRow
    BY <1>13, FailedIs DEF FailWrite
  <2>2. job' \in [Jobs -> JobRow]
    BY <1>13, <2>1 DEF FailWrite
  <2> QED BY <1>13, <2>2, IdleType DEF FailWrite
<1>9. ASSUME NEW w \in Workers, Heartbeat(w) PROVE TypeOK'
  <2> DEFINE j == worker[w].job
  <2>1. CASE job[j].status = "running"
    <3>1. job' = [job EXCEPT ![j].age = 0] /\ UNCHANGED <<worker, held>>
      BY <1>9, <2>1 DEF Heartbeat
    <3>2. j \in Jobs => [job[j] EXCEPT !.age = 0] \in JobRow
      BY StaleAssumption DEF JobRow
    <3> HIDE DEF j
    <3> QED BY <3>1, <3>2
  <2>2. CASE job[j].status # "running"
    <3>1. worker' = [worker EXCEPT ![w].beating = FALSE] /\ UNCHANGED <<job, held>>
      BY <1>9, <2>2 DEF Heartbeat
    <3>2. [worker[w] EXCEPT !.beating = FALSE] \in WorkerState
      BY DEF WorkerState
    <3> QED BY <3>1, <3>2
  <2> QED BY <2>1, <2>2
<1>10. ASSUME NEW w \in Workers, Crash(w) PROVE TypeOK'
  BY <1>10, IdleType DEF Crash
<1>11. CASE SetHold
  BY <1>11 DEF SetHold
<1>12. CASE Tick
  BY <1>12, AgedType DEF Tick
<1> QED
  BY <1>1, <1>2, <1>3, <1>4, <1>5, <1>6, <1>7, <1>8, <1>9, <1>10, <1>11, <1>12, <1>13
  DEF Next, Step

-----------------------------------------------------------------------------
(* The claim transaction, the step that can break everything.             *)

\* Neither half of `reclaim_stale` touches the row of a job that a live
\* worker executes.
LEMMA ReclaimSparesTheLiving ==
    ASSUME IInv, Timely, NEW w \in Workers, NEW v \in Workers, Executing(v)
    PROVE  Reclaimed(worker[w].doomed)[worker[v].job] = job[worker[v].job]
<1>1. worker[v].job \in Jobs
  BY DEF IInv, Fresh
<1>2. worker[v].job \notin worker[w].doomed
  BY DEF IInv, DoomedAreDead
<1>3. ~Stale(worker[v].job)
  BY <1>1, StaleAssumption DEF IInv, Fresh, Stale, TypeOK, JobRow
<1> QED BY <1>1, <1>2, <1>3 DEF Reclaimed

\* A claim takes a job that nobody is executing and that has an attempt left.
LEMMA ClaimIsSafe ==
    ASSUME IInv, Timely, NEW w \in Workers, NEW j \in Jobs,
           Reclaimed(worker[w].doomed)[j].status = "queued"
    PROVE  /\ \A v \in Workers : Executing(v) => worker[v].job # j
           /\ job[j].attempts < MaxAttempts
           /\ Reclaimed(worker[w].doomed)[j].attempts = job[j].attempts
           /\ j \notin worker[w].doomed
<1>1. \A v \in Workers : Executing(v) => worker[v].job # j
  BY ReclaimSparesTheLiving DEF IInv, ClaimRecorded
<1>2. j \notin worker[w].doomed
  BY ReleasedType DEF Reclaimed, IInv, TypeOK, Statuses, DoomedAreDead
<1>3. (Stale(j) /\ ~LastAttempt(j)) \/ job[j].status = "queued"
  <2>1. CASE Stale(j) /\ ~LastAttempt(j)
    BY <2>1
  <2>2. CASE ~(Stale(j) /\ ~LastAttempt(j))
    <3>1. Reclaimed(worker[w].doomed)[j] = job[j]
      BY <1>2, <2>2 DEF Reclaimed
    <3> QED BY <3>1
  <2> QED BY <2>1, <2>2
<1>4. job[j].attempts < MaxAttempts
  BY <1>3, AttemptsAssumption DEF IInv, AttemptsLeft, LastAttempt, TypeOK, JobRow
<1>5. Reclaimed(worker[w].doomed)[j].attempts = job[j].attempts
  BY <1>2, ReleasedType DEF Reclaimed, IInv, TypeOK, Statuses
<1> QED BY <1>1, <1>2, <1>4, <1>5

-----------------------------------------------------------------------------
(* Preservation of the rest of the invariant, one lemma per kind of step.  *)

\* A new or withdrawn job is nobody's: no worker executes or dooms it.
LEMMA UnclaimedRowChange ==
    ASSUME IInv, TypeOK', NEW j \in Jobs, NEW row, worker' = worker,
           job[j].status \in {"absent", "queued"},
           job' = [job EXCEPT ![j] = row],
           row.status \in {"queued", "deleted"},
           row.attempts < MaxAttempts
    PROVE  IInv'
<1> USE DEF IInv, TypeOK
<1>1. \A w \in Workers : Executing(w) => worker[w].job \in Jobs \ {j}
  BY DEF Fresh, ClaimRecorded
<1>2. \A w \in Workers : j \notin worker[w].doomed
  BY DEF DoomedAreDead
<1>3. ClaimRecorded' /\ Fresh' /\ ReadIsCurrent'
  BY <1>1 DEF ClaimRecorded, Fresh, ReadIsCurrent, Executing
<1>4. DoomedAreDead'
  BY <1>2 DEF DoomedAreDead, Executing, LastAttempt, WorkerState
<1>5. AttemptsLeft'
  BY AttemptsAssumption DEF AttemptsLeft, JobRow
<1> QED BY <1>3, <1>4, <1>5

\* Several withdrawn at once are nobody's either.
LEMMA WithdrawnTogether ==
    ASSUME IInv, NEW S \in SUBSET Jobs, worker' = worker, held' = held,
           \A j \in S : job[j].status = "queued",
           job' = [j \in Jobs |-> IF j \in S THEN [job[j] EXCEPT !.status = "deleted"]
                                 ELSE job[j]]
    PROVE  IInv'
<1> USE DEF IInv, TypeOK
<1>1. /\ \A w \in Workers : Executing(w) => worker[w].job \in Jobs \ S
      /\ \A w \in Workers : \A j \in worker[w].doomed : j \in Jobs \ S
  BY DEF Fresh, ClaimRecorded, DoomedAreDead, WorkerState
<1>2. \A j \in Jobs : job'[j] \in JobRow
  BY DEF JobRow, Statuses
<1>3. TypeOK'  BY <1>2
<1>4. ClaimRecorded' /\ Fresh' /\ ReadIsCurrent'
  BY <1>1 DEF ClaimRecorded, Fresh, ReadIsCurrent, Executing
<1>5. DoomedAreDead'
  BY <1>1 DEF DoomedAreDead, Executing, LastAttempt
<1>6. AttemptsLeft'
  <2>1. \A j \in Jobs : /\ job'[j].attempts = job[j].attempts
                        /\ job'[j].status # job[j].status => job'[j].status = "deleted"
    BY DEF JobRow
  <2> QED BY <2>1 DEF AttemptsLeft
<1> QED BY <1>3, <1>4, <1>5, <1>6

\* A worker lets go of its job - it finished, failed or died - and the row,
\* if it changes, ends or is put back with an attempt left.
LEMMA LettingGo ==
    ASSUME IInv, TypeOK', NEW w \in Workers, Executing(w),
           worker' = [worker EXCEPT ![w] = Idle],
           NEW row, job' = [job EXCEPT ![worker[w].job] = row],
           row.attempts = job[worker[w].job].attempts,
           \/ row = job[worker[w].job]
           \/ row.status = "done"
           \/ row.status = "failed" /\ LastAttempt(worker[w].job)
           \/ row.status = "queued" /\ ~LastAttempt(worker[w].job)
    PROVE  IInv'
<1> USE DEF IInv, TypeOK
<1> DEFINE j == worker[w].job
<1>1. j \in Jobs /\ job[j].status = "running" /\ job[j].locked_by = w
  BY DEF Fresh, ClaimRecorded
<1>2. \A v \in Workers : (Executing(v))' => v # w /\ Executing(v) /\ worker'[v] = worker[v]
  BY DEF Executing, Idle
<1>3. \A v \in Workers : (Executing(v))' => worker[v].job \in Jobs \ {j}
  BY <1>1, <1>2 DEF ClaimRecorded, Fresh
<1>4. ClaimRecorded' /\ Fresh' /\ ReadIsCurrent'
  BY <1>2, <1>3 DEF ClaimRecorded, Fresh, ReadIsCurrent, Executing
<1>5. DoomedAreDead'
  <2>1. \A v \in Workers : j \notin worker[v].doomed
    BY DEF DoomedAreDead
  <2>2. \A v \in Workers : worker'[v].doomed \subseteq worker[v].doomed
    BY DEF Idle
  <2>3. \A v \in Workers : \A k \in worker'[v].doomed : k \in Jobs /\ job'[k] = job[k]
    BY <2>1, <2>2 DEF WorkerState
  <2> QED BY <1>2, <2>2, <2>3 DEF DoomedAreDead, LastAttempt
<1>6. AttemptsLeft'
  <2>1. job'[j] = row /\ \A k \in Jobs \ {j} : job'[k] = job[k]
    BY <1>1
  <2>2. /\ row.attempts <= MaxAttempts
        /\ row.status = "failed" => row.attempts = MaxAttempts
        /\ row.status \in {"absent", "queued"} => row.attempts < MaxAttempts
        /\ row.status = "running" => row.attempts > 0
    BY <1>1, AttemptsAssumption DEF AttemptsLeft, LastAttempt, JobRow
  <2> QED BY <2>1, <2>2 DEF AttemptsLeft
<1> QED BY <1>4, <1>5, <1>6

\* Between the two statements of `reclaim_stale` and its commit, nothing that
\* is alive is touched: the table it leaves satisfies the invariant.
LEMMA ReclaimKeeps ==
    ASSUME IInv, Timely, NEW w \in Workers, NEW k \in Jobs
    PROVE  LET row == Reclaimed(worker[w].doomed)[k] IN
           /\ row.attempts = job[k].attempts
           /\ row.status = "failed" => row.attempts = MaxAttempts
           /\ row.status \in {"absent", "queued"} => row.attempts < MaxAttempts
           /\ row.status = "running" => row = job[k]
           /\ LastAttempt(k) /\ job[k].status \in {"running", "failed"} =>
                row = job[k] \/ row.status = "failed"
<1> USE DEF IInv, TypeOK
<1>1. CASE k \in worker[w].doomed
  <2>1. Reclaimed(worker[w].doomed)[k] = Released(job[k], "failed")
    BY <1>1 DEF Reclaimed, DoomedAreDead
  <2>2. job[k].attempts = MaxAttempts
    <3>1. job[k].attempts >= MaxAttempts
      BY <1>1 DEF DoomedAreDead, LastAttempt
    <3>2. job[k].attempts <= MaxAttempts /\ job[k].attempts \in Nat
      BY DEF AttemptsLeft, JobRow
    <3> QED BY <3>1, <3>2, AttemptsAssumption
  <2>3. /\ Released(job[k], "failed").status = "failed"
        /\ Released(job[k], "failed").attempts = job[k].attempts
    BY ReleasedType DEF Statuses
  <2> QED BY <2>1, <2>2, <2>3
<1>2. CASE k \notin worker[w].doomed /\ Stale(k) /\ ~LastAttempt(k)
  <2>1. Reclaimed(worker[w].doomed)[k] = Released(job[k], "queued")
    BY <1>2 DEF Reclaimed
  <2>2. job[k].attempts < MaxAttempts
    BY <1>2, AttemptsAssumption DEF LastAttempt, JobRow
  <2> QED BY <2>1, <2>2, <1>2, ReleasedType DEF Statuses
<1>3. CASE k \notin worker[w].doomed /\ ~(Stale(k) /\ ~LastAttempt(k))
  <2>1. Reclaimed(worker[w].doomed)[k] = job[k]
    BY <1>3 DEF Reclaimed
  <2> QED BY <2>1 DEF AttemptsLeft
<1> QED BY <1>1, <1>2, <1>3

\* The claim transaction, whether it takes a job or finds none due.
LEMMA ClaimIInv ==
    ASSUME IInv, Timely, TypeOK', NEW w \in Workers, Claim(w)
    PROVE  IInv'
<1> USE DEF IInv, TypeOK
<1> DEFINE table == Reclaimed(worker[w].doomed)
<1>1. PICK j \in Jobs :
        /\ IsNext(table, j)
        /\ job' = [table EXCEPT ![j] = Taken(@, w)]
        /\ worker' = [worker EXCEPT ![w] =
             [Idle EXCEPT !.pc = "working", !.job = j, !.beating = TRUE]]
  BY DEF Claim
<1>2. /\ \A v \in Workers : Executing(v) => worker[v].job # j
      /\ job[j].attempts < MaxAttempts
      /\ table[j].attempts = job[j].attempts
  BY <1>1, ClaimIsSafe DEF IsNext, Due
<1>3. table \in [Jobs -> JobRow]
  BY ReclaimedType DEF WorkerState
<1>4. /\ job'[j] = Taken(table[j], w)
      /\ job'[j].status = "running" /\ job'[j].locked_by = w /\ job'[j].age = 0
      /\ job'[j].attempts = job[j].attempts + 1
      /\ \A k \in Jobs \ {j} : job'[k] = table[k]
  BY <1>1, <1>2, <1>3, TakenType
<1>5. \A v \in Workers \ {w} :
        /\ worker'[v] = worker[v]
        /\ (Executing(v))' = Executing(v)
        /\ Executing(v) => job'[worker[v].job] = job[worker[v].job]
  <2> SUFFICES ASSUME NEW v \in Workers \ {w}
               PROVE  /\ worker'[v] = worker[v]
                      /\ (Executing(v))' = Executing(v)
                      /\ Executing(v) => job'[worker[v].job] = job[worker[v].job]
    OBVIOUS
  <2>1. worker'[v] = worker[v] /\ (Executing(v))' = Executing(v)
    BY <1>1 DEF Executing
  <2>2. ASSUME Executing(v) PROVE job'[worker[v].job] = job[worker[v].job]
    <3>1. worker[v].job \in Jobs \ {j}
      BY <1>2, <2>2 DEF Fresh
    <3>2. table[worker[v].job] = job[worker[v].job]
      BY <2>2, ReclaimSparesTheLiving
    <3> QED BY <3>1, <3>2, <1>4
  <2> QED BY <2>1, <2>2
<1>6. worker'[w].pc = "working" /\ worker'[w].job = j /\ worker'[w].beating
      /\ worker'[w].doomed = {}
  BY <1>1, IdleType
<1> HIDE DEF table
<1>7. ClaimRecorded'
  BY <1>4, <1>5, <1>6 DEF ClaimRecorded
<1>8. Fresh' /\ ReadIsCurrent'
  BY <1>4, <1>5, <1>6, StaleAssumption DEF Fresh, ReadIsCurrent, Executing
<1>9. DoomedAreDead'
  <2> SUFFICES ASSUME NEW v \in Workers, NEW k \in worker'[v].doomed
               PROVE  /\ \/ job'[k].status = "failed"
                         \/ job'[k].status = "running" /\ job'[k].age > StaleAfter
                      /\ job'[k].attempts >= MaxAttempts
                      /\ \A u \in Workers : (Executing(u))' => worker'[u].job # k
    BY DEF DoomedAreDead, LastAttempt
  <2>1. v # w /\ k \in worker[v].doomed
    BY <1>5, <1>6
  <2>2. k \in Jobs /\ LastAttempt(k) /\ job[k].status \in {"running", "failed"}
    BY <2>1 DEF DoomedAreDead, WorkerState
  <2>3. k # j
    BY <1>2, <2>2, AttemptsAssumption DEF LastAttempt, JobRow
  <2>4. job'[k] = table[k]
    BY <1>4, <2>2, <2>3
  <2>5. job'[k].attempts = job[k].attempts /\ (job'[k] = job[k] \/ job'[k].status = "failed")
    BY <2>2, <2>4, ReclaimKeeps DEF table
  <2>6. \A u \in Workers : (Executing(u))' => worker'[u].job # k
    BY <1>5, <1>6, <2>1, <2>3 DEF DoomedAreDead
  <2> QED BY <2>1, <2>2, <2>5, <2>6 DEF DoomedAreDead, LastAttempt
<1>10. AttemptsLeft'
  <2> SUFFICES ASSUME NEW k \in Jobs
               PROVE  /\ job'[k].attempts <= MaxAttempts
                      /\ job'[k].status = "failed" => job'[k].attempts = MaxAttempts
                      /\ job'[k].status \in {"absent", "queued"} => job'[k].attempts < MaxAttempts
                      /\ job'[k].status = "running" => job'[k].attempts > 0
    BY DEF AttemptsLeft
  <2>1. CASE k = j
    BY <2>1, <1>2, <1>4, AttemptsAssumption DEF JobRow
  <2>2. CASE k # j
    BY <2>2, <1>4, ReclaimKeeps DEF table, AttemptsLeft
  <2> QED BY <2>1, <2>2
<1> QED BY <1>7, <1>8, <1>9, <1>10

\* A claim transaction that takes nothing still gives up and puts back.
LEMMA ClaimNothingIInv ==
    ASSUME IInv, Timely, TypeOK', NEW w \in Workers, ClaimNothing(w)
    PROVE  IInv'
<1> USE DEF IInv, TypeOK
<1>1. job' = Reclaimed(worker[w].doomed) /\ worker' = [worker EXCEPT ![w] = Idle]
  BY DEF ClaimNothing
<1>2. \A v \in Workers :
        /\ (Executing(v))' => Executing(v)
        /\ (Executing(v))' => worker'[v] = worker[v]
        /\ worker'[v].doomed \subseteq worker[v].doomed
  BY <1>1 DEF Executing, Idle
<1>3. \A v \in Workers : Executing(v) => job'[worker[v].job] = job[worker[v].job]
  BY <1>1, ReclaimSparesTheLiving
<1>4. ClaimRecorded'
  BY <1>2, <1>3 DEF ClaimRecorded
<1>5. Fresh' /\ ReadIsCurrent'
  BY <1>2, <1>3 DEF Fresh, ReadIsCurrent, Executing
<1>6. DoomedAreDead'
  <2> SUFFICES ASSUME NEW v \in Workers, NEW k \in worker'[v].doomed
               PROVE  /\ \/ job'[k].status = "failed"
                         \/ job'[k].status = "running" /\ job'[k].age > StaleAfter
                      /\ job'[k].attempts >= MaxAttempts
                      /\ \A u \in Workers : (Executing(u))' => worker'[u].job # k
    BY DEF DoomedAreDead, LastAttempt
  <2>1. k \in Jobs /\ k \in worker[v].doomed
    BY <1>2 DEF WorkerState
  <2>2. LastAttempt(k) /\ job[k].status \in {"running", "failed"}
    BY <2>1 DEF DoomedAreDead
  <2>3. job'[k].attempts = job[k].attempts /\ (job'[k] = job[k] \/ job'[k].status = "failed")
    BY <1>1, <2>1, <2>2, ReclaimKeeps
  <2> QED BY <1>2, <2>1, <2>2, <2>3 DEF DoomedAreDead, LastAttempt
<1>7. AttemptsLeft'
  BY <1>1, ReclaimKeeps DEF AttemptsLeft
<1> QED BY <1>4, <1>5, <1>6, <1>7

\* The read half of a claim transaction: the abandoned jobs are dead now.
LEMMA PollIInv ==
    ASSUME IInv, TypeOK', NEW w \in Workers, Poll(w)
    PROVE  IInv'
<1> USE DEF IInv, TypeOK
<1>1. /\ job' = job
      /\ worker'[w].doomed = Abandoned
      /\ \A v \in Workers : (Executing(v))' = Executing(v) /\ worker'[v].job = worker[v].job
      /\ \A v \in Workers : Executing(v) => worker'[v] = worker[v]
      /\ \A v \in Workers \ {w} : worker'[v] = worker[v]
  BY DEF Poll, Executing, WorkerState
<1>2. ClaimRecorded' /\ Fresh' /\ ReadIsCurrent' /\ AttemptsLeft'
  <2>1. \A v \in Workers : worker'[v].pc = "failing" => Executing(v)
    BY DEF Poll, Executing
  <2> QED BY <1>1, <2>1 DEF ClaimRecorded, Fresh, ReadIsCurrent, AttemptsLeft, Executing
<1>3. \A v \in Workers : Executing(v) => worker[v].job \notin Abandoned
  BY StaleAssumption DEF Fresh, Abandoned, Stale, JobRow
<1>4. DoomedAreDead'
  <2> SUFFICES ASSUME NEW v \in Workers, NEW k \in worker'[v].doomed
               PROVE  /\ \/ job[k].status = "failed"
                         \/ job[k].status = "running" /\ job[k].age > StaleAfter
                      /\ LastAttempt(k)
                      /\ \A u \in Workers : Executing(u) => worker[u].job # k
    BY <1>1 DEF DoomedAreDead, LastAttempt
  <2>1. CASE v = w
    BY <2>1, <1>1, <1>3 DEF Abandoned, Stale
  <2>2. CASE v # w
    BY <2>2, <1>1 DEF DoomedAreDead
  <2> QED BY <2>1, <2>2
<1> QED BY <1>2, <1>4

\* The handler returns, and its worker keeps the job until `finish` commits.
LEMMA ReturnIInv ==
    ASSUME IInv, TypeOK', NEW w \in Workers, Return(w)
    PROVE  IInv'
<1> USE DEF IInv, TypeOK
<1>1. /\ job' = job
      /\ \A v \in Workers :
           /\ (Executing(v))' = Executing(v)
           /\ worker'[v].job = worker[v].job
           /\ worker'[v].doomed = worker[v].doomed
           /\ worker'[v].pc \in {"working", "failing"} => worker'[v] = worker[v]
  BY DEF Return, Executing, WorkerState
<1>2. ClaimRecorded' /\ Fresh' /\ ReadIsCurrent' /\ AttemptsLeft'
  BY <1>1 DEF ClaimRecorded, Fresh, ReadIsCurrent, AttemptsLeft
<1>3. DoomedAreDead'
  BY <1>1 DEF DoomedAreDead, LastAttempt
<1> QED BY <1>2, <1>3

\* `fail` loads the row of its own job, which is running.
LEMMA FailReadIInv ==
    ASSUME IInv, TypeOK', NEW w \in Workers, FailRead(w)
    PROVE  IInv'
<1> USE DEF IInv, TypeOK
<1> DEFINE row == job[worker[w].job]
           loaded == [status |-> row.status, attempts |-> row.attempts]
<1>1. /\ job' = job /\ Executing(w)
      /\ worker' = [worker EXCEPT ![w] = [@ EXCEPT !.pc = "failing", !.read = loaded]]
  BY DEF FailRead, Executing
<1>2. loaded.status = "running" /\ loaded.attempts = row.attempts
  BY <1>1 DEF ClaimRecorded
<1> HIDE DEF loaded
<1>3. /\ \A v \in Workers :
           /\ (Executing(v))' = Executing(v)
           /\ worker'[v].job = worker[v].job
           /\ worker'[v].doomed = worker[v].doomed
           /\ worker'[v].beating = worker[v].beating
      /\ \A v \in Workers \ {w} : worker'[v] = worker[v]
      /\ worker[w].pc = "working" /\ worker'[w].pc = "failing" /\ worker'[w].read = loaded
  <2>1. worker[w] \in WorkerState /\ worker[w].pc = "working"
    BY DEF FailRead
  <2>2. /\ [worker[w] EXCEPT !.pc = "failing", !.read = loaded].pc = "failing"
        /\ [worker[w] EXCEPT !.pc = "failing", !.read = loaded].read = loaded
        /\ [worker[w] EXCEPT !.pc = "failing", !.read = loaded].job = worker[w].job
        /\ [worker[w] EXCEPT !.pc = "failing", !.read = loaded].doomed = worker[w].doomed
        /\ [worker[w] EXCEPT !.pc = "failing", !.read = loaded].beating = worker[w].beating
    BY <2>1 DEF WorkerState
  <2> QED BY <1>1, <2>1, <2>2 DEF Executing
<1>4. ClaimRecorded' /\ Fresh' /\ AttemptsLeft'
  BY <1>1, <1>3 DEF ClaimRecorded, Fresh, AttemptsLeft
<1>5. ReadIsCurrent'
  BY <1>1, <1>2, <1>3 DEF ReadIsCurrent
<1>6. DoomedAreDead'
  BY <1>1, <1>3 DEF DoomedAreDead, LastAttempt
<1> QED BY <1>4, <1>5, <1>6

\* A heartbeat refreshes the row of the worker's own job.
LEMMA HeartbeatIInv ==
    ASSUME IInv, TypeOK', NEW w \in Workers, Heartbeat(w)
    PROVE  IInv' /\ job[worker[w].job].locked_by = w
<1> USE DEF IInv, TypeOK
<1> DEFINE j == worker[w].job
<1>1. Executing(w) /\ j \in Jobs /\ job[j].status = "running" /\ job[j].locked_by = w
  BY DEF Heartbeat, Alive, Executing, ClaimRecorded, Fresh
<1>2. job' = [job EXCEPT ![j].age = 0] /\ worker' = worker
  BY <1>1 DEF Heartbeat
<1>3. /\ job'[j].age = 0
      /\ job'[j].status = job[j].status /\ job'[j].locked_by = job[j].locked_by
      /\ job'[j].attempts = job[j].attempts
      /\ \A k \in Jobs \ {j} : job'[k] = job[k]
  BY <1>1, <1>2 DEF JobRow
<1>4. \A v \in Workers : (Executing(v))' = Executing(v)
  BY <1>2 DEF Executing
<1>5. ClaimRecorded'
  BY <1>2, <1>3, <1>4 DEF ClaimRecorded, Fresh
<1>6. Fresh' /\ ReadIsCurrent'
  BY <1>2, <1>3, <1>4, StaleAssumption DEF Fresh, ReadIsCurrent, Executing
<1>7. DoomedAreDead'
  <2>1. \A v \in Workers : j \notin worker[v].doomed
    BY <1>1 DEF DoomedAreDead
  <2> SUFFICES ASSUME NEW v \in Workers, NEW k \in worker[v].doomed
               PROVE  /\ \/ job'[k].status = "failed"
                         \/ job'[k].status = "running" /\ job'[k].age > StaleAfter
                      /\ job'[k].attempts >= MaxAttempts
                      /\ \A u \in Workers : Executing(u) => worker[u].job # k
    BY <1>2, <1>4 DEF DoomedAreDead, LastAttempt
  <2>2. job'[k] = job[k]
    BY <2>1, <1>3 DEF WorkerState
  <2> QED BY <2>2 DEF DoomedAreDead, LastAttempt
<1>8. AttemptsLeft'
  BY <1>3 DEF AttemptsLeft
<1> QED BY <1>1, <1>5, <1>6, <1>7, <1>8

\* Time cannot pass a live worker's heartbeat, so it makes stale only rows
\* whose worker is gone.
LEMMA TickIInv ==
    ASSUME IInv, Timely, TypeOK', Tick
    PROVE  IInv'
<1> USE DEF IInv, TypeOK
<1>1. worker' = worker /\ \A k \in Jobs : job'[k] = Aged(job[k])
  BY DEF Tick
<1>2. \A k \in Jobs :
        /\ job'[k].status = job[k].status /\ job'[k].locked_by = job[k].locked_by
        /\ job'[k].attempts = job[k].attempts
        /\ job'[k].age <= job[k].age + 1 /\ job[k].age <= job'[k].age
  BY <1>1, AgedType
<1>3. \A v \in Workers : (Executing(v))' = Executing(v)
  BY <1>1 DEF Executing
<1>4. \A v \in Workers : ~Overdue(v)
  BY DEF Tick
<1>5. ClaimRecorded'
  BY <1>1, <1>2, <1>3 DEF ClaimRecorded, Fresh
<1>6. Fresh'
  <2> SUFFICES ASSUME NEW v \in Workers, Executing(v)
               PROVE  /\ worker[v].job \in Jobs
                      /\ job'[worker[v].job].age <= StaleAfter
                      /\ worker[v].pc \in {"working", "failing"} =>
                           worker[v].beating /\ job'[worker[v].job].age <= 1
    BY <1>1, <1>3 DEF Fresh
  <2>1. worker[v].job \in Jobs /\ job[worker[v].job].age \in Nat
        /\ job'[worker[v].job].age \in Nat
    BY StaleAssumption DEF Fresh, JobRow
  <2>2. CASE worker[v].pc \in {"working", "failing"}
    <3>1. worker[v].beating /\ job[worker[v].job].age < 1
      BY <1>4, <2>1, <2>2 DEF Overdue, Alive, Fresh
    <3> QED BY <3>1, <2>1, <1>2, StaleAssumption
  <2>3. CASE worker[v].pc \notin {"working", "failing"}
    <3>1. job[worker[v].job].age < StaleAfter
      BY <1>4, <2>1, <2>3, StaleAssumption DEF Overdue, Executing
    <3> QED BY <3>1, <2>1, <2>3, <1>2, StaleAssumption
  <2> QED BY <2>2, <2>3
<1>7. DoomedAreDead'
  <2> SUFFICES ASSUME NEW v \in Workers, NEW k \in worker[v].doomed
               PROVE  /\ \/ job'[k].status = "failed"
                         \/ job'[k].status = "running" /\ job'[k].age > StaleAfter
                      /\ job'[k].attempts >= MaxAttempts
                      /\ \A u \in Workers : Executing(u) => worker[u].job # k
    BY <1>1, <1>3 DEF DoomedAreDead, LastAttempt
  <2>1. k \in Jobs /\ job[k].age \in Nat /\ job'[k].age \in Nat
    BY StaleAssumption DEF WorkerState, JobRow
  <2> QED BY <2>1, <1>2, StaleAssumption DEF DoomedAreDead, LastAttempt
<1>8. AttemptsLeft'
  BY <1>2 DEF AttemptsLeft
<1>9. ReadIsCurrent'
  BY <1>1, <1>2 DEF ReadIsCurrent, Fresh, Executing
<1> QED BY <1>5, <1>6, <1>7, <1>8, <1>9

-----------------------------------------------------------------------------
(* The invariant, and what follows from it. *)

LEMMA NextIInv ==
    ASSUME IInv, Timely, [Next]_vars
    PROVE  IInv'
<1>0. CASE UNCHANGED vars
  BY <1>0 DEF vars, IInv, TypeOK, ClaimRecorded, Fresh, ReadIsCurrent, DoomedAreDead,
              AttemptsLeft, Executing, LastAttempt
<1> SUFFICES ASSUME Next PROVE IInv'
  BY <1>0
<1>t. TypeOK'
  BY NextTypeOK
<1>1. ASSUME NEW j \in Jobs, Submit(j) PROVE IInv'
  <2>1. PICK wait \in {0, Grace} : Enqueue(j, wait) /\ UNCHANGED <<worker, held>>
    BY <1>1 DEF Submit
  <2> DEFINE row == [NoRow EXCEPT !.status = "queued", !.wait = wait]
  <2>2. row.status = "queued" /\ row.attempts < MaxAttempts
    BY AttemptsAssumption DEF NoRow
  <2> HIDE DEF row
  <2>3. job' = [job EXCEPT ![j] = row] /\ worker' = worker /\ job[j].status = "absent"
    BY <2>1 DEF Enqueue, row
  <2> QED BY <2>2, <2>3, <1>t, UnclaimedRowChange
<1>2. ASSUME NEW j \in Jobs, Drop(j) PROVE IInv'
  <2> DEFINE row == [job[j] EXCEPT !.status = "deleted"]
  <2>1. job' = [job EXCEPT ![j] = row] /\ worker' = worker /\ job[j].status = "queued"
    BY <1>2 DEF Drop
  <2>2. row.status = "deleted" /\ row.attempts < MaxAttempts
    BY <2>1 DEF IInv, TypeOK, JobRow, AttemptsLeft
  <2> HIDE DEF row
  <2> QED BY <2>1, <2>2, <1>t, UnclaimedRowChange
<1>3. ASSUME NEW w \in Workers, Finish(w) PROVE IInv'
  <2>1. Executing(w) /\ worker' = [worker EXCEPT ![w] = Idle]
    BY <1>3 DEF Finish, Executing
  <2> DEFINE row == [job[worker[w].job] EXCEPT !.status = "done"]
  <2>2. job[worker[w].job].status = "running" /\ worker[w].job \in Jobs
    BY <2>1 DEF IInv, ClaimRecorded, Fresh
  <2>3. job' = [job EXCEPT ![worker[w].job] = row]
    BY <1>3, <2>2 DEF Finish
  <2>4. row.status = "done" /\ row.attempts = job[worker[w].job].attempts
    BY <2>2 DEF IInv, TypeOK, JobRow
  <2> HIDE DEF row
  <2> QED BY <2>1, <2>3, <2>4, <1>t, LettingGo
<1>4. ASSUME NEW w \in Workers, FailWrite(w) PROVE IInv'
  <2>1. Executing(w) /\ worker' = [worker EXCEPT ![w] = Idle]
    BY <1>4 DEF FailWrite, Executing
  <2> DEFINE row == Failed(worker[w].read, job[worker[w].job])
  <2>2. job' = [job EXCEPT ![worker[w].job] = row]
    BY <1>4 DEF FailWrite
  <2>3. /\ row.attempts = job[worker[w].job].attempts
        /\ \/ row.status = "failed" /\ LastAttempt(worker[w].job)
           \/ row.status = "queued" /\ ~LastAttempt(worker[w].job)
    BY <1>4, FailedIs DEF FailWrite
  <2> HIDE DEF row
  <2> QED BY <2>1, <2>2, <2>3, <1>t, LettingGo
<1>5. ASSUME NEW w \in Workers, Crash(w) PROVE IInv'
  <2>1. Executing(w) /\ worker' = [worker EXCEPT ![w] = Idle]
    BY <1>5 DEF Crash
  <2>2. job' = [job EXCEPT ![worker[w].job] = job[worker[w].job]]
    BY <1>5 DEF Crash, IInv, TypeOK
  <2> QED BY <2>1, <2>2, <1>t, LettingGo
<1>6. ASSUME NEW w \in Workers, Step(w) PROVE IInv'
  BY <1>6, <1>3, <1>4, <1>t, PollIInv, ClaimIInv, ClaimNothingIInv, ReturnIInv,
     FailReadIInv DEF Step
<1>7. ASSUME NEW w \in Workers, Heartbeat(w) PROVE IInv'
  BY <1>7, <1>t, HeartbeatIInv
<1>8. CASE SetHold
  BY <1>8, <1>t DEF SetHold, IInv, TypeOK, ClaimRecorded, Fresh, ReadIsCurrent, DoomedAreDead,
                    AttemptsLeft, Executing, LastAttempt
<1>9. CASE Tick
  BY <1>9, <1>t, TickIInv
<1> QED BY <1>1, <1>2, <1>5, <1>6, <1>7, <1>8, <1>9 DEF Next

\* When heartbeats are timely, every reachable state satisfies the invariant.
THEOREM Invariance == ASSUME Timely PROVE Spec => []IInv
<1>1. Init => IInv
  BY InitIInv
<1>2. IInv /\ [Next]_vars => IInv'
  BY NextIInv
<1> QED BY <1>1, <1>2, PTL DEF Spec

\* The tables keep their types: the row of a job and the memory of a worker.
THEOREM TypeCorrect == ASSUME Timely PROVE Spec => []TypeOK
BY Invariance, PTL DEF IInv

\* The row of a job that is being executed is running and names its worker,
\* for any number of workers, jobs and crashes.
THEOREM ClaimsAreRecorded == ASSUME Timely PROVE Spec => []ClaimRecorded
BY Invariance, PTL DEF IInv

\* No job is ever executed by two workers at once.
THEOREM NoTwoOwners == ASSUME Timely PROVE Spec => []OneOwner
<1>1. ClaimRecorded => OneOwner
  BY DEF ClaimRecorded, OneOwner
<1> QED BY <1>1, ClaimsAreRecorded, PTL

\* With heartbeats in time no failure is written late: max_attempts bounds the
\* tries of a job, crashes included, and a job is given up on only when all of
\* them were used.
THEOREM AttemptsAreBounded ==
    ASSUME Timely
    PROVE  Spec => [](GivenUpFairly /\ \A j \in Jobs : job[j].attempts <= MaxAttempts)
<1>1. IInv => GivenUpFairly /\ \A j \in Jobs : job[j].attempts <= MaxAttempts
  <2> SUFFICES ASSUME IInv, NEW j \in Jobs
               PROVE  /\ job[j].attempts <= MaxAttempts
                      /\ job[j].attempts > MaxAttempts => job[j].late
                      /\ job[j].status = "failed" => job[j].attempts >= MaxAttempts
    BY DEF GivenUpFairly
  <2> QED BY AttemptsAssumption DEF IInv, TypeOK, JobRow, AttemptsLeft
<1> QED BY <1>1, Invariance, PTL

\* A heartbeat only ever refreshes a claim of its own worker.
THEOREM HeartbeatsAreOwn == ASSUME Timely PROVE Spec => HeartbeatIsOwn
<1>1. IInv /\ TypeOK' /\ [Next]_vars =>
        [\A w \in Workers :
           Heartbeat(w) /\ job[worker[w].job].status = "running"
              => job[worker[w].job].locked_by = w]_vars
  BY HeartbeatIInv
<1>2. IInv => TypeOK
  BY DEF IInv
<1> QED BY <1>1, <1>2, Invariance, PTL DEF Spec, HeartbeatIsOwn

-----------------------------------------------------------------------------
(* The queue implements the service. *)

\* The live worker the service sees is the one that executes the job.
LEMMA HolderIs ==
    ASSUME IInv, NEW j \in Jobs
    PROVE  /\ \A w \in Workers : Executing(w) /\ worker[w].job = j => Holder(j) = w
           /\ (\A w \in Workers : Executing(w) => worker[w].job # j) => Holder(j) = NoWorker
BY DEF IInv, ClaimRecorded, Holder

\* A step that leaves a job's row and its worker alone is not seen.
LEMMA UnseenJob ==
    ASSUME IInv, IInv', NEW j \in Jobs,
           job'[j].status = job[j].status, job'[j].attempts = job[j].attempts,
           \A w \in Workers :
             (Executing(w) /\ worker[w].job = j) <=> (Executing(w) /\ worker[w].job = j)'
    PROVE  Service!Same(j)
<1>1. Holder(j)' = Holder(j)
  <2>1. CASE \E w \in Workers : Executing(w) /\ worker[w].job = j
    <3>1. PICK w \in Workers : Executing(w) /\ worker[w].job = j
      BY <2>1
    <3>2. (Executing(w) /\ worker[w].job = j)'
      BY <3>1
    <3> QED BY <3>1, <3>2 DEF Holder, IInv, ClaimRecorded
  <2>2. CASE ~\E w \in Workers : Executing(w) /\ worker[w].job = j
    BY <2>2 DEF Holder
  <2> QED BY <2>1, <2>2
<1> QED BY <1>1 DEF Service!Same

\* What `reclaim_stale` did to the row of a job that is not taken then.
LEMMA ReclaimIsSeen ==
    ASSUME IInv, IInv', Timely, NEW w \in Workers, NEW j \in Jobs,
           job'[j] = Reclaimed(worker[w].doomed)[j],
           \A v \in Workers :
             (Executing(v) /\ worker[v].job = j) <=> (Executing(v) /\ worker[v].job = j)'
    PROVE  Service!Step(j) \/ Service!Same(j)
<1> USE DEF IInv, TypeOK
<1>1. CASE j \in worker[w].doomed
  <2>1. job'[j].status = "failed" /\ job'[j].attempts = job[j].attempts
    <3>1. job[j].status # "deleted"
      BY <1>1 DEF DoomedAreDead
    <3> QED BY <1>1, <3>1, ReleasedType DEF Reclaimed, Statuses
  <2>2. \A v \in Workers : ~(Executing(v) /\ worker[v].job = j)
    BY <1>1 DEF DoomedAreDead
  <2>3. CASE job[j].status = "failed"
    BY <2>1, <2>3, UnseenJob
  <2>4. CASE job[j].status = "running"
    <3>1. (Holder(j))' = NoWorker
      BY <2>2 DEF Holder
    <3>2. job[j].attempts = MaxAttempts
      BY <2>1 DEF AttemptsLeft
    <3>3. Service!GiveUp(j)
      BY <2>1, <2>4, <3>1, <3>2 DEF Service!GiveUp, Service!Moves
    <3> QED BY <3>3 DEF Service!Step
  <2> QED BY <1>1, <2>3, <2>4 DEF DoomedAreDead
<1>2. CASE j \notin worker[w].doomed /\ Stale(j) /\ ~LastAttempt(j)
  <2>1. job'[j].status = "queued" /\ job'[j].attempts = job[j].attempts
    BY <1>2, ReleasedType DEF Reclaimed, Statuses
  <2>2. job[j].status = "running"
    BY <1>2 DEF Stale
  <2>3. \A v \in Workers : ~(Executing(v) /\ worker[v].job = j)'
    BY <2>1 DEF ClaimRecorded
  <2>4. (Holder(j))' = NoWorker
    BY <2>3 DEF Holder
  <2>5. job[j].attempts < MaxAttempts
    BY <1>2, AttemptsAssumption DEF LastAttempt, JobRow
  <2>6. Service!PutBack(j)
    BY <2>1, <2>2, <2>4, <2>5 DEF Service!PutBack, Service!Moves
  <2> QED BY <2>6 DEF Service!Step
<1>3. CASE j \notin worker[w].doomed /\ ~(Stale(j) /\ ~LastAttempt(j))
  <2>1. job'[j] = job[j]
    BY <1>3 DEF Reclaimed
  <2> QED BY <2>1, UnseenJob
<1> QED BY <1>1, <1>2, <1>3

\* Every step of the queue is a step of the service, for every job.
LEMMA NextIsServiceNext ==
    ASSUME IInv, IInv', Timely, Next, NEW j \in Jobs
    PROVE  Service!Step(j) \/ Service!Same(j)
<1> USE DEF IInv, TypeOK
<1> DEFINE Runs(v) == Executing(v) /\ worker[v].job = j
<1>1. ASSUME NEW k \in Jobs, Submit(k) PROVE Service!Step(j) \/ Service!Same(j)
  <2>1. /\ job[k].status = "absent" /\ worker' = worker
        /\ \E wait : job' = [job EXCEPT ![k] =
                              [NoRow EXCEPT !.status = "queued", !.wait = wait]]
    BY <1>1 DEF Submit, Enqueue
  <2>2. \A v \in Workers : Runs(v) <=> (Runs(v))'
    BY <2>1 DEF Executing
  <2>3. CASE k # j
    BY <2>1, <2>2, <2>3, UnseenJob
  <2>4. CASE k = j
    <3>1. job'[j].status = "queued" /\ job'[j].attempts = 0
      BY <2>1, <2>4 DEF NoRow
    <3>2. \A v \in Workers : ~Runs(v) /\ ~(Runs(v))'
      BY <2>1, <2>2, <2>4 DEF ClaimRecorded
    <3>3. Holder(j) = NoWorker /\ (Holder(j))' = NoWorker
      BY <3>2 DEF Holder
    <3>4. Service!Put(j)
      BY <2>1, <2>4, <3>1, <3>3 DEF Service!Put, Service!Moves
    <3> QED BY <3>4 DEF Service!Step
  <2> QED BY <2>3, <2>4
<1>2. ASSUME NEW k \in Jobs, Drop(k) PROVE Service!Step(j) \/ Service!Same(j)
  <2>1. /\ job[k].status = "queued" /\ worker' = worker
        /\ job' = [job EXCEPT ![k].status = "deleted"]
    BY <1>2 DEF Drop
  <2>2. \A v \in Workers : Runs(v) <=> (Runs(v))'
    BY <2>1 DEF Executing
  <2>3. CASE k # j
    BY <2>1, <2>2, <2>3, UnseenJob
  <2>4. CASE k = j
    <3>1. job'[j].status = "deleted" /\ job'[j].attempts = job[j].attempts
      BY <2>1, <2>4 DEF JobRow
    <3>2. \A v \in Workers : ~Runs(v) /\ ~(Runs(v))'
      BY <2>1, <2>2, <2>4 DEF ClaimRecorded
    <3>3. Holder(j) = NoWorker /\ (Holder(j))' = NoWorker
      BY <3>2 DEF Holder
    <3>4. Service!Withdraw(j)
      BY <2>1, <2>4, <3>1, <3>3 DEF Service!Withdraw, Service!Moves
    <3> QED BY <3>4 DEF Service!Step
  <2> QED BY <2>3, <2>4
<1>3. ASSUME NEW w \in Workers, Poll(w) \/ Return(w) \/ FailRead(w)
      PROVE  Service!Step(j) \/ Service!Same(j)
  <2>1. job' = job
    BY <1>3 DEF Poll, Return, FailRead
  <2>2. \A v \in Workers : worker'[v].job = worker[v].job /\ ((Executing(v))' <=> Executing(v))
    <3>1. CASE Poll(w)
      BY <3>1 DEF Poll, Executing, WorkerState
    <3>2. CASE Return(w)
      BY <3>2 DEF Return, Executing, WorkerState
    <3>3. CASE FailRead(w)
      <4>1. \A e \in WorkerState : \A loaded :
              /\ [e EXCEPT !.pc = "failing", !.read = loaded].pc = "failing"
              /\ [e EXCEPT !.pc = "failing", !.read = loaded].job = e.job
        BY DEF WorkerState
      <4> QED BY <3>3, <4>1 DEF FailRead, Executing
    <3> QED BY <1>3, <3>1, <3>2, <3>3
  <2> QED BY <2>1, <2>2, UnseenJob
<1>8. ASSUME NEW w \in Workers, Heartbeat(w)
      PROVE  Service!Step(j) \/ Service!Same(j)
  <2>1. Executing(w) /\ job[worker[w].job].status = "running"
    BY <1>8 DEF Heartbeat, Alive, Executing, ClaimRecorded
  <2>2. job' = [job EXCEPT ![worker[w].job].age = 0] /\ worker' = worker
    BY <1>8, <2>1 DEF Heartbeat
  <2>3. job'[j].status = job[j].status /\ job'[j].attempts = job[j].attempts
    BY <2>2 DEF JobRow
  <2>4. \A v \in Workers : Runs(v) <=> (Runs(v))'
    BY <2>2 DEF Executing
  <2> QED BY <2>3, <2>4, UnseenJob
<1>4. ASSUME NEW w \in Workers, ClaimNothing(w)
      PROVE  Service!Step(j) \/ Service!Same(j)
  <2>1. job' = Reclaimed(worker[w].doomed) /\ worker[w].pc = "polling"
        /\ worker' = [worker EXCEPT ![w] = Idle]
    BY <1>4 DEF ClaimNothing
  <2>2. \A v \in Workers : Runs(v) <=> (Runs(v))'
    BY <2>1 DEF Executing, Idle
  <2> QED BY <2>1, <2>2, ReclaimIsSeen
<1>5. ASSUME NEW w \in Workers, Claim(w)
      PROVE  Service!Step(j) \/ Service!Same(j)
  <2> DEFINE table == Reclaimed(worker[w].doomed)
  <2>1. PICK k \in Jobs :
          /\ IsNext(table, k)
          /\ job' = [table EXCEPT ![k] = Taken(@, w)]
          /\ worker' = [worker EXCEPT ![w] =
               [Idle EXCEPT !.pc = "working", !.job = k, !.beating = TRUE]]
    BY <1>5 DEF Claim
  <2>2. table[k].status = "queued" /\ worker[w].pc = "polling"
    BY <2>1, <1>5 DEF IsNext, Due, Claim
  <2>3. table \in [Jobs -> JobRow]
    BY ReclaimedType DEF WorkerState
  <2>4. \A v \in Workers : (Executing(v))' <=> Executing(v) \/ v = w
    BY <2>1, <2>2, IdleType DEF Executing
  <2>5. \A v \in Workers \ {w} : worker'[v] = worker[v]
    BY <2>1
  <2>6. worker'[w].job = k /\ ~Executing(w)
    BY <2>1, <2>2, IdleType DEF Executing
  <2>7. CASE k # j
    <3>1. job'[j] = table[j]
      BY <2>1, <2>3, <2>7
    <3>2. \A v \in Workers : Runs(v) <=> (Runs(v))'
      BY <2>4, <2>5, <2>6, <2>7
    <3> QED BY <3>1, <3>2, ReclaimIsSeen
  <2>8. CASE k = j
    <3>1. /\ \A v \in Workers : ~Runs(v)
          /\ job[j].attempts < MaxAttempts
          /\ table[j].attempts = job[j].attempts
          /\ j \notin worker[w].doomed
      BY <2>2, <2>8, ClaimIsSafe
    <3>2. job'[j].status = "running" /\ job'[j].attempts = job[j].attempts + 1
      BY <2>1, <2>3, <2>8, <3>1, TakenType
    <3>3. Holder(j) = NoWorker
      BY <3>1 DEF Holder
    <3>4. (Holder(j))' = w
      <4>1. (Runs(w))'
        BY <2>4, <2>6, <2>8
      <4>2. job'[j].locked_by = w
        BY <2>1, <2>3, <2>8, TakenType
      <4> QED BY <4>1, <4>2 DEF Holder
    <3>5. job[j].status \in {"queued", "running"}
      <4>1. Stale(j) \/ table[j] = job[j]
        BY <3>1 DEF Reclaimed
      <4> QED BY <4>1, <2>2, <2>8 DEF Stale
    <3>6. Service!Take(j)
      BY <3>1, <3>2, <3>3, <3>4, <3>5 DEF Service!Take
    <3> QED BY <3>6 DEF Service!Step
  <2> QED BY <2>7, <2>8
<1>6. ASSUME NEW w \in Workers, Finish(w) \/ FailWrite(w) \/ Crash(w)
      PROVE  Service!Step(j) \/ Service!Same(j)
  <2> DEFINE k == worker[w].job
  <2>1. /\ Executing(w) /\ worker' = [worker EXCEPT ![w] = Idle]
        /\ k \in Jobs /\ job[k].status = "running"
    BY <1>6 DEF Finish, FailWrite, Crash, Executing, Fresh, ClaimRecorded
  <2>2. \A v \in Workers : (Executing(v))' <=> Executing(v) /\ v # w
    BY <2>1 DEF Executing, Idle
  <2>3. \A v \in Workers \ {w} : worker'[v] = worker[v]
    BY <2>1
  <2>4. \A i \in Jobs \ {k} : job'[i] = job[i]
    BY <1>6, <2>1 DEF Finish, FailWrite, Crash
  <2>5. CASE k # j
    <3>1. \A v \in Workers : Runs(v) <=> (Runs(v))'
      BY <2>2, <2>3, <2>5
    <3> QED BY <3>1, <2>4, <2>5, UnseenJob
  <2>6. CASE k = j
    <3>1. Holder(j) = w
      BY <2>1, <2>6, HolderIs
    <3>2. (Holder(j))' = NoWorker
      <4>1. \A v \in Workers : Runs(v) => v = w
        BY <2>1, <2>6 DEF ClaimRecorded
      <4>2. \A v \in Workers : ~(Runs(v))'
        BY <4>1, <2>2, <2>3
      <4> QED BY <4>2 DEF Holder
    <3>3. ASSUME Finish(w) PROVE Service!Complete(j)
      <4>1. job'[j].status = "done" /\ job'[j].attempts = job[j].attempts
        BY <2>1, <2>6, <3>3 DEF Finish, JobRow
      <4> QED BY <4>1, <2>1, <2>6, <3>1, <3>2 DEF Service!Complete, Service!Moves
    <3>4. ASSUME FailWrite(w) PROVE Service!PutBack(j) \/ Service!GiveUp(j)
      <4>1. /\ job'[j].attempts = job[j].attempts
            /\ \/ job'[j].status = "failed" /\ job[j].attempts >= MaxAttempts
               \/ job'[j].status = "queued" /\ ~(job[j].attempts >= MaxAttempts)
        BY <2>1, <2>6, <3>4, FailedIs DEF FailWrite, LastAttempt
      <4>2. job[j].attempts <= MaxAttempts /\ job[j].attempts \in Nat
        BY DEF AttemptsLeft, JobRow
      <4>3. CASE job'[j].status = "failed"
        <5>1. job[j].attempts = MaxAttempts
          BY <4>1, <4>2, <4>3, AttemptsAssumption
        <5> QED BY <5>1, <4>1, <4>3, <2>1, <2>6, <3>2 DEF Service!GiveUp, Service!Moves
      <4>4. CASE job'[j].status = "queued"
        <5>1. job[j].attempts < MaxAttempts
          BY <4>1, <4>2, <4>4, AttemptsAssumption
        <5> QED BY <5>1, <4>1, <4>4, <2>1, <2>6, <3>2 DEF Service!PutBack, Service!Moves
      <4> QED BY <4>1, <4>3, <4>4
    <3>5. ASSUME Crash(w) PROVE Service!Lose(j)
      BY <2>1, <2>6, <3>1, <3>2, <3>5, WorkersAssumption
      DEF Crash, Service!Lose, Service!Moves
    <3> QED BY <3>3, <3>4, <3>5, <1>6 DEF Service!Step
  <2> QED BY <2>5, <2>6
<1>7. CASE SetHold \/ Tick
  <2>1. \A v \in Workers : Runs(v) <=> (Runs(v))'
    BY <1>7 DEF SetHold, Tick, Executing
  <2>2. job'[j].status = job[j].status /\ job'[j].attempts = job[j].attempts
    BY <1>7, AgedType DEF SetHold, Tick
  <2> QED BY <2>1, <2>2, UnseenJob
<1> QED BY <1>1, <1>2, <1>3, <1>4, <1>5, <1>6, <1>7, <1>8 DEF Next, Step

\* The queue, its workers, their heartbeats and crashes implement the service
\* the rest of the system relies on.
THEOREM QueueImplementsService == ASSUME Timely PROVE Spec => ImplementsService
<1>1. Init => Service!Init
  BY DEF Init, NoRow, Idle, Service!Init, Holder, Executing
<1>2. IInv /\ IInv' /\ [Next]_vars => [Service!Next]_(Service!vars)
  <2> SUFFICES ASSUME IInv, IInv', [Next]_vars
               PROVE  [Service!Next]_(Service!vars)
    OBVIOUS
  <2>1. CASE Next
    <3>1. \A j \in Jobs : Service!Step(j) \/ Service!Same(j)
      BY <2>1, NextIsServiceNext
    <3> QED BY <3>1 DEF Service!Next
  <2>2. CASE UNCHANGED vars
    BY <2>2 DEF vars, Service!vars, Holder, Executing
  <2> QED BY <2>1, <2>2
<1> QED BY <1>1, <1>2, Invariance, PTL DEF Spec, Service!Spec, ImplementsService

\* A job that was done, given up on or withdrawn is never touched again.
THEOREM EndedJobsStayEnded == ASSUME Timely PROVE Spec => EndedForGood
<1>1. IInv /\ IInv' /\ [Next]_vars =>
        [\A j \in Jobs : Ended(j) => job'[j].status = job[j].status]_vars
  <2> SUFFICES ASSUME IInv, IInv', Next, NEW j \in Jobs, Ended(j)
               PROVE  job'[j].status = job[j].status
    OBVIOUS
  <2>1. Service!Step(j) \/ Service!Same(j)
    BY NextIsServiceNext
  <2> QED BY <2>1 DEF Ended, Service!Step, Service!Same, Service!Put, Service!Withdraw,
             Service!Take, Service!Complete, Service!PutBack, Service!GiveUp,
             Service!Lose, Service!Moves
<1> QED BY <1>1, Invariance, PTL DEF Spec, EndedForGood
=============================================================================
