----------------------------- MODULE Submission -----------------------------
(***************************************************************************)
(* How a delivery becomes a run, and how long it stays: new runs, clones,  *)
(* drafts, their files on the shared volume, the duplicate check and the   *)
(* cap per order (api/routers/runs.py), the window a run is kept for and   *)
(* the retention sweep (db/repository.py).                                 *)
(*                                                                         *)
(* A request reads, decides and commits.  One slot stands for the          *)
(* artifacts of a delivery, one order and one user for all of them; the    *)
(* active checks, which are part of a fingerprint, do not change.  What    *)
(* the worker makes of a run is RunLifecycle's business: here a run is     *)
(* queued, active (whatever follows, including cancelled), failed or       *)
(* finalized.  The database refuses to delete a run that a clone or the    *)
(* configuration's record layout refers to (db/models.py).                 *)
(***************************************************************************)
EXTENDS Naturals, FiniteSets

CONSTANTS
    Runs,       \* the run ids
    NoRun,      \* the empty cloned_from_id
    Contents,   \* what an artifact may contain
    NoFile,     \* no artifact
    Requests,   \* the API's request handlers
    DraftDays,  \* retention.draft_days
    RunDays,    \* retention.days
    OrderLimit  \* queue.per_order_limit

ASSUME NamesAssumption == NoRun \notin Runs /\ NoFile \notin Contents
ASSUME DaysAssumption == DraftDays \in Nat /\ RunDays \in Nat /\ OrderLimit \in Nat

VARIABLES
    run,     \* the runs table with its run_files
    layout,  \* record_layouts.source_run_id
    bytes,   \* the files of each run on the shared volume
    request, \* what an open request has read
    owed     \* history: days a submitted run was promised to stay

vars == <<run, layout, bytes, request, owed>>

Files == Contents \cup {NoFile}
Statuses == {"absent", "draft", "held", "queued", "active", "failed", "finalized",
             "gone"}

\* files: the hash in run_files.  expires: days until expires_at.
\* hasFailed: history, the run was failed at some time.
RunRow == [status : Statuses, files : Files, print : Files, source : Runs \cup {NoRun},
           explained : BOOLEAN, expires : Nat, hasFailed : BOOLEAN]
NewRow == [status |-> "absent", files |-> NoFile, print |-> NoFile, source |-> NoRun,
           explained |-> FALSE, expires |-> 0, hasFailed |-> FALSE]

Idle == [op |-> "none"]
RequestState ==
    {Idle} \cup [op : {"attach", "discard"}, run : Runs]
           \cup [op : {"create", "submit"}, run : Runs, files : Contents, explained : BOOLEAN,
                 outcome : {"duplicate", "held", "queued"}]

TypeOK ==
    /\ run \in [Runs -> RunRow]
    /\ layout \in Runs \cup {NoRun}
    /\ bytes \in [Runs -> Files]
    /\ request \in [Requests -> RequestState]
    /\ owed \in [Runs -> 0 .. RunDays]

Init ==
    /\ run = [r \in Runs |-> NewRow]
    /\ layout = NoRun
    /\ bytes = [r \in Runs |-> NoFile]
    /\ request = [q \in Requests |-> Idle]
    /\ owed = [r \in Runs |-> 0]

-----------------------------------------------------------------------------
Status(r) == run[r].status
Exists(r) == Status(r) \notin {"absent", "gone"}

\* An id no row has and no open request has inserted.
Unused(r) == /\ Status(r) = "absent"
             /\ \A q \in Requests : request[q] # Idle => request[q].run # r

\* The foreign keys that keep a run in the table.
Cited(r) == layout = r \/ \E s \in Runs : Exists(s) /\ run[s].source = r

Deleted(r) == [run EXCEPT ![r] = [NewRow EXCEPT !.status = "gone"]]

\* `_admit`.  The rate limit and an administrator who closes the door refuse
\* some more; a submission that is refused is one that is not made.
Admitted == Cardinality({r \in Runs : Status(r) = "queued"}) < OrderLimit

\* Faulty variant: a run that is held does not count.
DuplicateUnlessHeld(r, files) ==
    \E s \in Runs \ {r} : Status(s) \in {"queued", "active"} /\ run[s].print = files

\* A run with the same fingerprint that is neither failed nor a draft.
Duplicate(r, files) ==
    \E s \in Runs \ {r} :
        Exists(s) /\ Status(s) \notin {"failed", "draft"} /\ run[s].print = files

\* The duplicate answer unless a reason was given; otherwise the artifacts agree
\* with the form or they do not.
Outcomes(r, files, explained) ==
    IF Duplicate(r, files) /\ ~explained THEN {"duplicate"} ELSE {"held", "queued"}

Window(status) == IF status = "draft" THEN DraftDays ELSE RunDays

-----------------------------------------------------------------------------
(* POST /runs. *)

\* The row and the files are there before the duplicate check.
CreateRead(q, r, files, explained) ==
    /\ request[q] = Idle /\ Unused(r)
    /\ Admitted
    /\ bytes' = [bytes EXCEPT ![r] = files]
    /\ \E outcome \in Outcomes(r, files, explained) :
          request' = [request EXCEPT ![q] = [op |-> "create", run |-> r, files |-> files,
                                             explained |-> explained, outcome |-> outcome]]
    /\ UNCHANGED <<run, layout, owed>>

\* The row of request r when it is no duplicate.
Submitted(row, r, window) ==
    [row EXCEPT !.status = r.outcome, !.print = r.files, !.explained = r.explained,
                !.expires = window]

\* The run stays, or was built for nothing and goes with its files.
CreateCommit(q) ==
    /\ request[q].op = "create"
    /\ LET r == request[q].run IN
       IF request[q].outcome = "duplicate"
       THEN /\ run' = Deleted(r)
            /\ bytes' = [bytes EXCEPT ![r] = NoFile]
            /\ UNCHANGED owed
       ELSE /\ run' = [run EXCEPT ![r] = [Submitted(@, request[q], Window("queued"))
                                             EXCEPT !.files = request[q].files]]
            /\ owed' = [owed EXCEPT ![r] = RunDays]
            /\ UNCHANGED bytes
    /\ request' = [request EXCEPT ![q] = Idle]
    /\ UNCHANGED layout

\* An artifact is refused: the row is rolled back, and artifacts that were
\* stored before it stay on the volume.
CreateRefused(r, files) ==
    /\ Unused(r) /\ Admitted
    /\ run' = Deleted(r)
    /\ bytes' = [bytes EXCEPT ![r] = files]
    /\ UNCHANGED <<layout, request, owed>>

-----------------------------------------------------------------------------
(* Drafts. *)

\* A draft is made from a run, unless there is one already.
Clone(r, source) ==
    /\ Unused(r) /\ Exists(source)
    /\ \A s \in Runs : ~(Status(s) = "draft" /\ run[s].source = source)
    /\ run' = [run EXCEPT ![r] = [@ EXCEPT !.status = "draft", !.source = source,
                                           !.expires = Window("draft")]]
    /\ UNCHANGED <<layout, bytes, request, owed>>

\* The status is checked before the upload has arrived.
AttachRead(q, r) ==
    /\ request[q] = Idle
    /\ Status(r) = "draft"
    /\ request' = [request EXCEPT ![q] = [op |-> "attach", run |-> r]]
    /\ UNCHANGED <<run, layout, bytes, owed>>

\* The old bytes are unlinked, the new ones stored, and the rows follow, unless
\* the run they refer to is gone.
AttachCommit(q, files) ==
    /\ request[q].op = "attach"
    /\ LET r == request[q].run IN
       /\ bytes' = [bytes EXCEPT ![r] = files]
       /\ run' = IF Exists(r) THEN [run EXCEPT ![r].files = files] ELSE run
    /\ request' = [request EXCEPT ![q] = Idle]
    /\ UNCHANGED <<layout, owed>>

\* An artifact is refused after the old bytes were unlinked: the rows are rolled
\* back and the bytes are not.
AttachRefused(q, files) ==
    /\ request[q].op = "attach"
    /\ bytes' = [bytes EXCEPT ![request[q].run] = files]
    /\ request' = [request EXCEPT ![q] = Idle]
    /\ UNCHANGED <<run, layout, owed>>

SubmitRead(q, r, explained) ==
    /\ request[q] = Idle
    /\ Status(r) = "draft" /\ run[r].files # NoFile
    /\ Admitted
    /\ \E outcome \in Outcomes(r, run[r].files, explained) :
          request' = [request EXCEPT ![q] = [op |-> "submit", run |-> r, files |-> run[r].files,
                                             explained |-> explained, outcome |-> outcome]]
    /\ UNCHANGED <<run, layout, bytes, owed>>

\* Faulty variant: a draft that is a duplicate is discarded like a new run.
SubmitCommitDiscards(q) ==
    /\ request[q].op = "submit" /\ request[q].outcome = "duplicate"
    /\ run' = Deleted(request[q].run)
    /\ bytes' = [bytes EXCEPT ![request[q].run] = NoFile]
    /\ request' = [request EXCEPT ![q] = Idle]
    /\ UNCHANGED <<layout, owed>>

\* The draft is queued or held, and its window is chosen while its status is
\* still draft.  A duplicate keeps the draft.  The update of a row that is gone
\* fails.
SubmitCommit(q) ==
    /\ request[q].op = "submit"
    /\ LET r == request[q].run IN
       IF request[q].outcome = "duplicate" \/ ~Exists(r)
       THEN UNCHANGED <<run, layout, owed>>
       ELSE /\ run' = [run EXCEPT ![r] = Submitted(@, request[q], Window("draft"))]
            /\ owed' = [owed EXCEPT ![r] = RunDays]
    /\ request' = [request EXCEPT ![q] = Idle]
    /\ UNCHANGED <<layout, bytes>>

DiscardRead(q, r) ==
    /\ request[q] = Idle
    /\ Status(r) = "draft"
    /\ request' = [request EXCEPT ![q] = [op |-> "discard", run |-> r]]
    /\ UNCHANGED <<run, layout, bytes, owed>>

\* The files go first; the deletion of a run that is referred to fails.
DiscardCommit(q) ==
    /\ request[q].op = "discard"
    /\ LET r == request[q].run IN
       /\ bytes' = [bytes EXCEPT ![r] = NoFile]
       /\ run' = IF Exists(r) /\ ~Cited(r) THEN Deleted(r) ELSE run
    /\ request' = [request EXCEPT ![q] = Idle]
    /\ UNCHANGED <<layout, owed>>

-----------------------------------------------------------------------------
(* What happens to a run, and its end. *)

Moves == {<<"held", "queued">>, <<"held", "active">>, <<"queued", "active">>,
          <<"queued", "failed">>, <<"active", "queued">>, <<"active", "failed">>,
          <<"failed", "queued">>}

\* A held run is accepted or cancelled; a worker takes a run, ends it, fails it or
\* gives it back.
Move(r, status) ==
    /\ <<Status(r), status>> \in Moves
    /\ run' = [run EXCEPT ![r] = [run[r] EXCEPT
                  !.status = status,
                  !.hasFailed = run[r].hasFailed \/ status = "failed"]]
    /\ UNCHANGED <<layout, bytes, request, owed>>

\* A run is finalized, and the record layout that came with it, if one did, becomes
\* the one of the configuration.
Finalize(r) ==
    /\ Status(r) = "active"
    /\ run' = [run EXCEPT ![r].status = "finalized"]
    /\ layout' \in {layout, r}
    /\ UNCHANGED <<bytes, request, owed>>

Expired(r) == Exists(r) /\ run[r].expires = 0

\* The expired runs are deleted one by one, in the order the table returned them.
\* Some order goes through: nothing that outlives the sweep refers to what it deletes.
Sweepable ==
    \A r \in Runs : Expired(r) =>
        layout # r /\ \A s \in Runs : Exists(s) /\ run[s].source = r => Expired(s)

\* Faulty variant: a run that waits for a person is not swept.
PurgeUnlessHeld ==
    /\ Sweepable
    /\ \E r \in Runs : Expired(r)
    /\ run' = [r \in Runs |-> IF Expired(r) /\ Status(r) # "held"
                              THEN [NewRow EXCEPT !.status = "gone"] ELSE run[r]]
    /\ bytes' = [r \in Runs |-> IF Expired(r) /\ Status(r) # "held" THEN NoFile ELSE bytes[r]]
    /\ UNCHANGED <<layout, request, owed>>

\* Every expired run goes with its files, whatever its status, or none does.
Purge ==
    /\ Sweepable
    /\ \E r \in Runs : Expired(r)
    /\ run' = [r \in Runs |-> IF Expired(r) THEN [NewRow EXCEPT !.status = "gone"] ELSE run[r]]
    /\ bytes' = [r \in Runs |-> IF Expired(r) THEN NoFile ELSE bytes[r]]
    /\ UNCHANGED <<layout, request, owed>>

\* No order is refused: no expired run is the source of another, expired or not.
SweepInAnyOrder == Purge /\ \A r \in Runs : Expired(r) => ~Cited(r)

\* The sweep does not commit: a run is refused, as the source of an expired clone is
\* that comes before it, or the worker dies.  Files it came to are gone and rows are
\* not.
PurgeFails(r) ==
    /\ Expired(r)
    /\ bytes' = [bytes EXCEPT ![r] = NoFile]
    /\ UNCHANGED <<run, layout, request, owed>>

Less(n) == IF n = 0 THEN 0 ELSE n - 1

Tick ==
    /\ run' = [r \in Runs |-> [run[r] EXCEPT !.expires = Less(@)]]
    /\ owed' = [r \in Runs |-> Less(owed[r])]
    /\ UNCHANGED <<layout, bytes, request>>

-----------------------------------------------------------------------------
Commit(q) ==
    \/ CreateCommit(q) \/ SubmitCommit(q) \/ DiscardCommit(q)
    \/ \E files \in Contents : AttachCommit(q, files)

Read(q) ==
    \E r \in Runs :
        \/ \E explained \in BOOLEAN :
              \/ SubmitRead(q, r, explained)
              \/ \E files \in Contents : CreateRead(q, r, files, explained)
        \/ AttachRead(q, r)
        \/ DiscardRead(q, r)

Next ==
    \/ \E q \in Requests :
          \/ Read(q) \/ Commit(q)
          \/ \E files \in Files : AttachRefused(q, files)
    \/ \E r \in Runs :
          \/ \E files \in Files : CreateRefused(r, files)
          \/ \E source \in Runs : Clone(r, source)
          \/ \E status \in Statuses : Move(r, status)
          \/ Finalize(r)
          \/ PurgeFails(r)
    \/ Purge
    \/ Tick

Spec == Init /\ [][Next]_vars

\* Action constraint: nobody commits between a request's reads and its commit.
Serial == \A q \in Requests : request[q] # Idle => request'[q] = Idle

\* Time passes, a worker sweeps every day, and a request that was received ends.  A
\* sweep whose order matters may meet the wrong one every day.
FairSpec ==
    /\ Spec
    /\ WF_vars(Tick) /\ WF_vars(SweepInAnyOrder)
    /\ \A q \in Requests : WF_vars(Commit(q))

-----------------------------------------------------------------------------
(* Correctness properties. *)

\* Two runs of the same inputs stand side by side only if one of them was given a
\* reason or had failed when the other came: "identical inputs return the
\* existing run rather than spending tokens again".
Counted(r) == Exists(r) /\ Status(r) \notin {"failed", "draft"}
TwinsAreExplained ==
    \A r, s \in Runs :
        r # s /\ Counted(r) /\ Counted(s) /\ run[r].print = run[s].print =>
            run[r].explained \/ run[s].explained \/ run[r].hasFailed \/ run[s].hasFailed

\* The fingerprint of a run that was submitted is that of the files it has: they
\* cannot be changed after they were compared with those of other runs.
PrintIsOfTheFiles ==
    \A r \in Runs : Exists(r) /\ Status(r) # "draft" => run[r].print = run[r].files

\* A submission that is answered with a question costs nothing: a draft that
\* matches an earlier run keeps its row and its files.
DraftSurvivesQuestion ==
    [][\A q \in Requests :
         request[q] # Idle /\ request[q].op = "submit" /\ request'[q] = Idle =>
            LET r == request[q].run IN
            Exists(r) => run'[r].status # "gone" /\ bytes'[r] = bytes[r]]_vars

\* A run that was submitted is kept for the whole retention window...
SubmittedIsKept ==
    [][\A r \in Runs : owed[r] > 0 /\ Exists(r) => run'[r].status # "gone"]_vars

\* ... which holds for one that never was a draft.
NewRunIsKept ==
    [][\A r \in Runs :
         owed[r] > 0 /\ Exists(r) /\ run[r].source = NoRun => run'[r].status # "gone"]_vars

\* "A nightly job deletes runs past expires_at": nothing is kept for ever, whatever
\* becomes of it and whoever works on it ...
NothingIsKeptForEver == \A r \in Runs : Exists(r) ~> Status(r) = "gone"

\* ... which holds as long as no expired run is referred to, by a clone that may come
\* after it in a sweep or by the record layout of the configuration.
SweptUnlessReferredTo ==
    \A r \in Runs : Exists(r) ~> (Status(r) = "gone" \/ \E s \in Runs : Expired(s) /\ Cited(s))

\* The rows of a draft name files that are there as they say, whatever was refused.
RowsHaveTheirBytes ==
    \A r \in Runs : Exists(r) /\ ~Expired(r) => bytes[r] = run[r].files

\* Only a run has files on the volume.
NoOrphanedBytes == \A r \in Runs : Status(r) = "gone" => bytes[r] = NoFile
=============================================================================
