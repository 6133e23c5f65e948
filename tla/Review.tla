------------------------------- MODULE Review -------------------------------
(***************************************************************************)
(* One run awaiting review: its findings and their decisions, the gate     *)
(* that says when it may be frozen (api/gate.py), the acknowledgements and *)
(* the second approval the gate asks for (api/routers/coverage.py), the    *)
(* edits and the re-check that rebuild the findings (api/routers/runs.py,  *)
(* worker/runner.py, db/repository.py), and the frozen report              *)
(* (api/routers/reports.py).                                               *)
(*                                                                         *)
(* A request reads, decides and commits.  The database is read committed:  *)
(* each SELECT sees what was committed when it ran, so the SELECTs of the  *)
(* gate and of the finalizer are steps of their own; the one that asks     *)
(* whether there is a report belongs to the step it leads.  The worker's   *)
(* re-check loads in one transaction and saves in another, and the decisions *)
(* it carries are read before the rows that hold them are deleted.  Login  *)
(* is on and the programme asks for a second approver.  What the rules and *)
(* traces make the stages 5 to 7 report is reduced to the set of issues    *)
(* they raise.                                                             *)
(***************************************************************************)
EXTENDS Naturals, Sequences, FiniteSets

CONSTANTS
    Kinds,       \* issues are 1..Len(Kinds), in the order the stages raise them
    People,      \* the reviewers
    Nobody,      \* an empty reviewed_by_user_id
    Requests,    \* the API's request handlers
    Workers,     \* the workers that may re-check
    MaxRechecks  \* bound: re-checks asked for

ASSUME KindsAssumption == Kinds \in Seq({"serious", "unevaluated", "low"})
ASSUME NobodyAssumption == Nobody \notin People
ASSUME MaxRechecksAssumption == MaxRechecks \in Nat

VARIABLES
    findings,     \* the findings table, in the order of its primary key
    generation,   \* how often those rows were replaced
    raised,       \* the issues the stored rules and traces give rise to
    acknowledged, \* targets of the coverage acknowledgements: finding ids
    approval,     \* the second approval
    report,       \* the row in final_reports
    file,         \* the html file of the run on the shared volume
    rechecks,     \* re-check jobs: asked for so far, and still queued
    worker,       \* the context a re-checking worker holds
    request,      \* what an open request has read
    seen,         \* history: issues somebody acknowledged
    author        \* history: who made the decision an issue carries, if one
                  \* person did

vars == <<findings, generation, raised, acknowledged, approval, report, file,
          rechecks, worker, request, seen, author>>
historyVars == <<seen, author>>

Issues == 1 .. Len(Kinds)
Kind(i) == Kinds[i]

\* "waved": false_positive or accepted_risk.
Decisions == {"undecided", "confirmed", "waved"}
Finding == [id : Nat, issue : Issues, status : Decisions, by : People \cup {Nobody}]

NoApproval == [by |-> Nobody, covered |-> {}]
Approvals == {NoApproval} \cup [by : People, covered : SUBSET Nat]

\* A rendered report: whose it is and what it says of the findings and of the
\* second approval.  History: the waved findings and the signature that its gate
\* saw, and who had made the decisions when the findings were read.
NoHtml == [by |-> Nobody]
Html == [by : People, rows : SUBSET Finding, approval : Approvals,
         vetted : SUBSET Finding, signed : Approvals,
         makers : [Issues -> People \cup {Nobody}]]
Blank(p) == [by |-> p, rows |-> {}, approval |-> NoApproval, vetted |-> {},
             signed |-> NoApproval, makers |-> [i \in Issues |-> Nobody]]

Idle == [op |-> "none"]
WorkerState ==
    {Idle} \cup [op : {"recheck"}, raised : SUBSET Issues, kept : Seq(Finding)]
           \cup [op : {"save"}, raised : SUBSET Issues, kept : Seq(Finding),
                 previous : Seq(Finding)]

\* What a finalizer does next: the gate's SELECTs, those of the page, the file
\* and the row.
FinalizeSteps == {"acknowledged", "waved", "signature", "unevaluated", "attest", "select",
                  "write", "insert"}
RequestState ==
    {Idle} \cup [op : {"review"}, by : People, row : Nat, generation : Nat,
                 loaded : Finding, status : Decisions]
           \cup [op : {"approval", "reviewers", "sign"}, by : People, waved : SUBSET Finding]
           \cup [op : FinalizeSteps, targets : SUBSET Nat, html : Html]

TypeOK ==
    /\ findings \in Seq(Finding)
    /\ generation \in Nat
    /\ raised \in SUBSET Issues
    /\ acknowledged \in SUBSET Nat
    /\ approval \in Approvals
    /\ report \in {NoHtml} \cup Html
    /\ file \in {NoHtml} \cup Html
    /\ rechecks \in [asked : 0 .. MaxRechecks, queued : Nat]
    /\ worker \in [Workers -> WorkerState]
    /\ request \in [Requests -> RequestState]
    /\ seen \in SUBSET Issues
    /\ author \in [Issues -> People \cup {Nobody}]

-----------------------------------------------------------------------------
(* Building findings. *)

\* Some numbers in their order, and the rows of a table at some places.
InOrder(numbers) ==
    [n \in 1 .. Cardinality(numbers) |->
        CHOOSE i \in numbers : Cardinality({k \in numbers : k <= i}) = n]
RowsAt(rows, places) == [n \in DOMAIN InOrder(places) |-> rows[InOrder(places)[n]]]

\* `next_finding_id` numbers by the findings already present.
Raise(rows, issues) ==
    LET new == InOrder(issues) IN
    rows \o [n \in 1 .. Len(new) |->
               [id |-> Len(rows) + n, issue |-> new[n], status |-> "undecided", by |-> Nobody]]

\* `_replace_findings` carries the decision of the last row with the same type
\* and title, and no reviewer.
Carried(rows, row) ==
    LET same == {n \in DOMAIN rows : rows[n].issue = row.issue}
    IN [row EXCEPT !.by = Nobody,
                   !.status = IF same = {} THEN @
                              ELSE rows[CHOOSE n \in same : \A m \in same : m <= n].status]

Init ==
    /\ raised \in SUBSET Issues
    /\ findings = Raise(<<>>, raised)
    /\ generation = 0
    /\ acknowledged = {}
    /\ approval = NoApproval
    /\ report = NoHtml /\ file = NoHtml
    /\ rechecks = [asked |-> 0, queued |-> 0]
    /\ worker = [w \in Workers |-> Idle]
    /\ request = [q \in Requests |-> Idle]
    /\ seen = {}
    /\ author = [i \in Issues |-> Nobody]

-----------------------------------------------------------------------------
(* The gate. *)

Rows == {findings[n] : n \in DOMAIN findings}
Frozen == report # NoHtml

Undecided == {f \in Rows : Kind(f.issue) # "low" /\ f.status = "undecided"}
Unevaluated == {f \in Rows : Kind(f.issue) = "unevaluated"}
Waved == {f \in Rows : Kind(f.issue) = "serious" /\ f.status = "waved"}
Reviewers(rows) == {f.by : f \in rows} \ {Nobody}

\* Faulty variant: any signature counts.
ApprovalCountsAnyone(waved) == approval # NoApproval
ApprovalCounts(waved) == approval # NoApproval /\ approval.by \notin Reviewers(waved)

\* Faulty variant: gaps need no acknowledgement.
GapsUnasked(targets) == TRUE
GapsAcknowledged(targets) == \A f \in Unevaluated : f.id \in targets

-----------------------------------------------------------------------------
(* Reviewing. *)

\* A decision on one finding is refused once the report exists.
ReviewRead(q, p, n, decision) ==
    /\ request[q] = Idle
    /\ n \in DOMAIN findings
    /\ ~Frozen
    /\ request' = [request EXCEPT ![q] =
         [op |-> "review", by |-> p, row |-> n, generation |-> generation,
          loaded |-> findings[n], status |-> decision]]
    /\ UNCHANGED <<findings, generation, raised, acknowledged, approval, report, file,
                   rechecks, worker, historyVars>>

\* The columns that differ from what was loaded.
Updated(row, r) ==
    [row EXCEPT !.status = IF r.status # r.loaded.status THEN r.status ELSE @,
                !.by = IF r.by # r.loaded.by THEN r.by ELSE @]

\* The row is updated by its primary key; a row a re-check has replaced is not
\* there any more, and the request fails.
ReviewCommit(q) ==
    /\ request[q].op = "review"
    /\ LET r == request[q] IN
       IF r.generation = generation
       THEN /\ findings' = [findings EXCEPT ![r.row] = Updated(@, r)]
            /\ author' = [author EXCEPT ![findings[r.row].issue] =
                            IF findings[r.row] = r.loaded THEN r.by ELSE Nobody]
       ELSE UNCHANGED <<findings, author>>
    /\ request' = [request EXCEPT ![q] = Idle]
    /\ UNCHANGED <<generation, raised, acknowledged, approval, report, file,
                   rechecks, worker, seen>>

\* One update waves every undecided low finding through, whatever the report.
BulkOk(p) ==
    LET hit == {n \in DOMAIN findings :
                  Kind(findings[n].issue) = "low" /\ findings[n].status = "undecided"}
    IN /\ hit # {}
       /\ findings' = [n \in DOMAIN findings |->
            IF n \in hit THEN [findings[n] EXCEPT !.status = "waved", !.by = p] ELSE findings[n]]
       /\ author' = [i \in Issues |-> IF \E n \in hit : findings[n].issue = i THEN p ELSE author[i]]
       /\ UNCHANGED <<generation, raised, acknowledged, approval, report, file,
                      rechecks, worker, request, seen>>

\* A gap is acknowledged by the id of its finding, once.
Acknowledge(id) ==
    /\ ~Frozen
    /\ id \in {f.id : f \in Unevaluated} \ acknowledged
    /\ acknowledged' = acknowledged \cup {id}
    /\ seen' = seen \cup {f.issue : f \in {g \in Unevaluated : g.id = id}}
    /\ UNCHANGED <<findings, generation, raised, approval, report, file,
                   rechecks, worker, request, author>>

\* A second person offers to sign for what was waved through ...
ApproveRead(q, p) ==
    /\ request[q] = Idle
    /\ ~Frozen
    /\ Waved # {}
    /\ request' = [request EXCEPT ![q] = [op |-> "approval", by |-> p, waved |-> Waved]]
    /\ UNCHANGED <<findings, generation, raised, acknowledged, approval, report, file,
                   rechecks, worker, historyVars>>

\* ... which no signature that counts covers yet ...
ApproveNeeded(q) ==
    /\ request[q].op = "approval"
    /\ request' = [request EXCEPT ![q] =
         IF ApprovalCounts(@.waved) THEN Idle ELSE [@ EXCEPT !.op = "reviewers"]]
    /\ UNCHANGED <<findings, generation, raised, acknowledged, approval, report, file,
                   rechecks, worker, historyVars>>

\* ... and which, as the rows say now, somebody else decided.
Outstanding(q) == {f.id : f \in request[q].waved}
ApproveCheck(q) ==
    /\ request[q].op = "reviewers"
    /\ LET own == request[q].by \in Reviewers({f \in Rows : f.id \in Outstanding(q)})
       IN request' = [request EXCEPT ![q] = IF own THEN Idle ELSE [@ EXCEPT !.op = "sign"]]
    /\ UNCHANGED <<findings, generation, raised, acknowledged, approval, report, file,
                   rechecks, worker, historyVars>>

\* The signature replaces the one that is there.  `second_approvals.run_id` is
\* unique: of two that replace at once one is refused.
ApproveCommit(q) ==
    /\ request[q].op = "sign"
    /\ approval' \in {approval, [by |-> request[q].by, covered |-> Outstanding(q)]}
    /\ request' = [request EXCEPT ![q] = Idle]
    /\ UNCHANGED <<findings, generation, raised, acknowledged, report, file,
                   rechecks, worker, historyVars>>

-----------------------------------------------------------------------------
(* Editing and re-checking. *)

AskRecheck ==
    /\ ~Frozen
    /\ rechecks.asked < MaxRechecks
    /\ rechecks' = [asked |-> rechecks.asked + 1, queued |-> rechecks.queued + 1]

\* A requirement or a link is corrected, which changes what will be raised and
\* queues a re-check; a re-check may also be asked for without an edit.
Edit(i) ==
    /\ AskRecheck
    /\ raised' = IF i \in raised THEN raised \ {i} ELSE raised \cup {i}
    /\ UNCHANGED <<findings, generation, acknowledged, approval, report, file,
                   worker, request, historyVars>>

Recheck ==
    /\ AskRecheck
    /\ UNCHANGED <<findings, generation, raised, acknowledged, approval, report, file,
                   worker, request, historyVars>>

\* The first transaction loads the rules, the traces and the decided findings.
RecheckLoad(w) ==
    /\ rechecks.queued > 0
    /\ worker[w] = Idle
    /\ rechecks' = [rechecks EXCEPT !.queued = @ - 1]
    /\ worker' = [worker EXCEPT ![w] =
         [op |-> "recheck", raised |-> raised,
          kept |-> RowsAt(findings, {n \in DOMAIN findings : findings[n].status # "undecided"})]]
    /\ UNCHANGED <<findings, generation, raised, acknowledged, approval, report, file,
                   request, historyVars>>

\* The second transaction.  Its first statements lock the run's rows: no other
\* re-check of the run comes between.  The decisions are read ...
RecheckCarry(w) ==
    /\ worker[w].op = "recheck"
    /\ \A v \in Workers : worker[v].op # "save"
    /\ worker' = [worker EXCEPT ![w] =
         [op |-> "save", raised |-> @.raised, kept |-> @.kept, previous |-> findings]]
    /\ UNCHANGED <<findings, generation, raised, acknowledged, approval, report, file,
                   rechecks, request, historyVars>>

\* Faulty variant: a rebuilt finding starts undecided.
RebuiltAnew(w) == Raise(<<>>, worker[w].raised)
Rebuilt(w) == LET rows == Raise(worker[w].kept, worker[w].raised)
              IN [n \in DOMAIN rows |-> Carried(worker[w].previous, rows[n])]

\* ... and the rows that are there are deleted: rules, traces and findings become
\* what the context holds, whatever became of them and of the run since.
RecheckSave(w) ==
    /\ worker[w].op = "save"
    /\ raised' = worker[w].raised
    /\ findings' = Rebuilt(w)
    /\ generation' = generation + 1
    /\ worker' = [worker EXCEPT ![w] = Idle]
    /\ UNCHANGED <<acknowledged, approval, report, file, rechecks, request, historyVars>>

\* The re-check raises or its worker dies: nothing is saved, and the job is
\* retried or given up on.
RecheckFails(w) ==
    /\ worker[w] # Idle
    /\ worker' = [worker EXCEPT ![w] = Idle]
    /\ rechecks' \in {rechecks, [rechecks EXCEPT !.queued = @ + 1]}
    /\ UNCHANGED <<findings, generation, raised, acknowledged, approval, report, file,
                   request, historyVars>>

-----------------------------------------------------------------------------
(* Freezing. *)

\* Each SELECT lets the finalizer go on, with what it read, or refuses it.
Proceed(q, open, step, targets, html) ==
    /\ request' = [request EXCEPT ![q] =
         IF open THEN [op |-> step, targets |-> targets, html |-> html] ELSE Idle]
    /\ UNCHANGED <<findings, generation, raised, acknowledged, approval, report, file,
                   rechecks, worker, historyVars>>

\* There is no report, and every finding that needs a decision has one.
FinalizeRead(q, p) ==
    /\ request[q] = Idle
    /\ ~Frozen /\ Undecided = {}
    /\ Proceed(q, TRUE, "acknowledged", {}, Blank(p))

GateAcknowledged(q) ==
    /\ request[q].op = "acknowledged"
    /\ Proceed(q, TRUE, "waved", acknowledged, request[q].html)

GateWaved(q) ==
    /\ request[q].op = "waved"
    /\ Proceed(q, TRUE, "signature", request[q].targets,
               [request[q].html EXCEPT !.vetted = Waved])

\* What was waved through has a signature that counts.
GateSigned(q) ==
    /\ request[q].op = "signature"
    /\ LET waved == request[q].html.vetted IN
       Proceed(q, waved = {} \/ ApprovalCounts(waved), "unevaluated", request[q].targets,
               [request[q].html EXCEPT !.signed = approval])

GateUnevaluated(q) ==
    /\ request[q].op = "unevaluated"
    /\ Proceed(q, GapsAcknowledged(request[q].targets), "attest", {}, request[q].html)

\* The gate is open: what is attested, and then what is shown, is read.
Attest(q) ==
    /\ request[q].op = "attest"
    /\ Proceed(q, TRUE, "select", {}, [request[q].html EXCEPT !.approval = approval])

FinalizeSelect(q) ==
    /\ request[q].op = "select"
    /\ Proceed(q, TRUE, "write", {},
               [request[q].html EXCEPT !.rows = Rows, !.makers = author])

\* `write_report` overwrites the file of the run.
FinalizeWrite(q) ==
    /\ request[q].op = "write"
    /\ file' = request[q].html
    /\ request' = [request EXCEPT ![q] = [@ EXCEPT !.op = "insert"]]
    /\ UNCHANGED <<findings, generation, raised, acknowledged, approval, report,
                   rechecks, worker, historyVars>>

\* Faulty variant: the second finalizer's row replaces the first one's.
FinalizeReplace(q) ==
    /\ request[q].op = "insert"
    /\ report' = request[q].html
    /\ request' = [request EXCEPT ![q] = Idle]
    /\ UNCHANGED <<findings, generation, raised, acknowledged, approval, file,
                   rechecks, worker, historyVars>>

\* `final_reports.run_id` is unique: the second insert is refused.
FinalizeInsert(q) ==
    /\ request[q].op = "insert"
    /\ report' = IF Frozen THEN report ELSE request[q].html
    /\ request' = [request EXCEPT ![q] = Idle]
    /\ UNCHANGED <<findings, generation, raised, acknowledged, approval, file,
                   rechecks, worker, historyVars>>

-----------------------------------------------------------------------------
Finalizing(q) ==
    \/ GateAcknowledged(q) \/ GateWaved(q) \/ GateSigned(q) \/ GateUnevaluated(q)
    \/ Attest(q) \/ FinalizeSelect(q) \/ FinalizeWrite(q) \/ FinalizeInsert(q)

Next ==
    \/ \E q \in Requests, p \in People :
          \/ FinalizeRead(q, p) \/ ApproveRead(q, p)
          \/ \E n \in DOMAIN findings, d \in Decisions : ReviewRead(q, p, n, d)
    \/ \E q \in Requests :
          \/ ReviewCommit(q) \/ Finalizing(q)
          \/ ApproveNeeded(q) \/ ApproveCheck(q) \/ ApproveCommit(q)
    \/ \E p \in People : BulkOk(p)
    \/ \E id \in {f.id : f \in Unevaluated} : Acknowledge(id)
    \/ \E i \in Issues : Edit(i)
    \/ Recheck
    \/ \E w \in Workers : RecheckLoad(w) \/ RecheckCarry(w) \/ RecheckSave(w) \/ RecheckFails(w)

Spec == Init /\ [][Next]_vars

\* Action constraint: requests and re-checks run one at a time.
Serial ==
    /\ \A q \in Requests : request[q] # Idle => request'[q] # request[q]
    /\ \A w \in Workers : worker[w] # Idle => worker'[w] # worker[w]

-----------------------------------------------------------------------------
(* Correctness properties. *)

FrozenRows(kind) == {f \in report.rows : Kind(f.issue) = kind}

\* "A second finalize is a 409": a report, once stored, is never replaced, even
\* by a finalizer that passed the check before it was stored.
OneReport == [][Frozen => report' = report]_vars

\* Every gap in a frozen report was in front of somebody before it was frozen.
NoGapFrozenUnseen == Frozen => \A f \in FrozenRows("unevaluated") : f.issue \in seen

\* The findings that were decided, or decided again, after the gate had looked, and
\* a signature that was given after it had.
DecidedMeanwhile == report.rows \ report.vetted
SignedMeanwhile == report.approval # report.signed

\* A serious finding that was waved through was signed for by somebody other than
\* the person who had made the decision it carries, unless it was decided or the
\* signature given while the finalizer was reading.
ApproverIsSomebodyElse ==
    Frozen /\ ~SignedMeanwhile => \A f \in FrozenRows("serious") \ DecidedMeanwhile :
        f.status = "waved" => report.approval.by \notin {Nobody, report.makers[f.issue]}

\* It does not hold without the exception.
NobodySignsForThemselves ==
    Frozen => \A f \in FrozenRows("serious") :
        f.status = "waved" => report.approval.by \notin {Nobody, report.makers[f.issue]}

\* The signature covers every serious finding that was waved through.
ApprovalCoversWaved ==
    Frozen => \A f \in FrozenRows("serious") : f.status = "waved" => f.id \in report.approval.covered

\* A finding id names one finding of the run.
FindingIdsAreUnique ==
    \A m, n \in DOMAIN findings : findings[m].id = findings[n].id => m = n

\* The issues somebody decided between the worker's SELECT and its DELETE.
RowsOf(rows, i) == {rows[n] : n \in {m \in DOMAIN rows : rows[m].issue = i}}
DecidedSince(w) == {i \in Issues : RowsOf(findings, i) # RowsOf(worker[w].previous, i)}

\* When the rows of an issue agree on a decision, a re-check that raises the
\* issue again keeps it, unless it was made between the worker's SELECT and its
\* DELETE: "a re-check must not silently discard a reviewer's work".
AgreedDecisionsSurvive ==
    [][\A w \in Workers : RecheckSave(w) =>
         \A i \in Issues \ DecidedSince(w), d \in Decisions :
            (\A n \in DOMAIN findings : findings[n].issue = i => findings[n].status = d)
            /\ (\E n \in DOMAIN findings : findings[n].issue = i)
            => \A n \in DOMAIN findings' : findings'[n].issue = i => findings'[n].status = d]_vars

\* No decision is changed by a re-check: every row that was decided has its
\* decision on every row of the same issue afterwards.
DecisionsSurvive ==
    [][\A w \in Workers : RecheckSave(w) =>
         \A n \in DOMAIN findings : findings[n].status # "undecided" =>
            \A m \in DOMAIN findings' :
                findings'[m].issue = findings[n].issue => findings'[m].status # "undecided"]_vars

\* A re-check does not undo a correction.
CorrectionsSurvive ==
    [][\A w \in Workers : RecheckSave(w) => raised' = raised]_vars

\* The findings under a frozen report are not replaced.
FrozenFindingsStay == [][Frozen => generation' = generation]_vars

\* The decisions under a frozen report are not changed.
FrozenDecisionsStay ==
    [][Frozen /\ generation' = generation =>
         \A n \in DOMAIN findings : findings'[n].status = findings[n].status]_vars

\* The stored file is the one the report's hash was taken of.
Shown(html) == <<html.by, html.rows, html.approval>>
FileMatchesReport == Frozen => Shown(file) = Shown(report)
=============================================================================
