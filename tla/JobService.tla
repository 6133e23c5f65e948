----------------------------- MODULE JobService -----------------------------
(***************************************************************************)
(* What the job queue promises the rest of the system, without saying how: *)
(* a job that was put in is executed by one worker at a time, at most      *)
(* MaxAttempts times, and once it is done, given up on or withdrawn it     *)
(* stays so.  There is no time, no heartbeat and no claim transaction      *)
(* here.  Each job lives on its own, so a step of the service is a step of *)
(* any of the jobs, several together included.                             *)
(***************************************************************************)
EXTENDS Naturals

CONSTANTS Jobs, Workers, NoWorker, MaxAttempts

VARIABLES
    state,  \* where each job is in its life
    tries,  \* how often it was taken
    holder  \* the live worker that executes it

vars == <<state, tries, holder>>

Same(j) == state'[j] = state[j] /\ tries'[j] = tries[j] /\ holder'[j] = holder[j]

Moves(j, from, to) == state[j] = from /\ state'[j] = to

Put(j) ==
    /\ Moves(j, "absent", "queued")
    /\ tries'[j] = 0 /\ holder'[j] = holder[j]

Withdraw(j) ==
    /\ Moves(j, "queued", "deleted")
    /\ tries'[j] = tries[j] /\ holder'[j] = holder[j]

\* A waiting job, or one whose holder is gone, is taken.
Take(j) ==
    /\ state[j] \in {"queued", "running"} /\ state'[j] = "running"
    /\ holder[j] = NoWorker /\ holder'[j] \in Workers
    /\ tries[j] < MaxAttempts /\ tries'[j] = tries[j] + 1

Complete(j) ==
    /\ Moves(j, "running", "done")
    /\ holder[j] \in Workers /\ holder'[j] = NoWorker
    /\ tries'[j] = tries[j]

\* The holder fails or is lost, and an attempt is left.
PutBack(j) ==
    /\ Moves(j, "running", "queued")
    /\ tries[j] < MaxAttempts
    /\ holder'[j] = NoWorker /\ tries'[j] = tries[j]

\* The holder fails or is lost, and no attempt is left.
GiveUp(j) ==
    /\ Moves(j, "running", "failed")
    /\ tries[j] = MaxAttempts
    /\ holder'[j] = NoWorker /\ tries'[j] = tries[j]

Lose(j) ==
    /\ Moves(j, "running", "running")
    /\ holder[j] \in Workers /\ holder'[j] = NoWorker
    /\ tries'[j] = tries[j]

Init ==
    /\ state = [j \in Jobs |-> "absent"]
    /\ tries = [j \in Jobs |-> 0]
    /\ holder = [j \in Jobs |-> NoWorker]

Step(j) ==
    \/ Put(j) \/ Withdraw(j) \/ Take(j) \/ Complete(j)
    \/ PutBack(j) \/ GiveUp(j) \/ Lose(j)

Next == \A j \in Jobs : Step(j) \/ Same(j)

Spec == Init /\ [][Next]_vars
=============================================================================
