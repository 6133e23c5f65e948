------------------------------ MODULE Pipeline ------------------------------
(***************************************************************************)
(* One run through the nine stages: the orchestrator                       *)
(* (greenlight_ai/pipeline/run.py), the stages' inputs and outputs, and    *)
(* the two transactions of the worker around it                            *)
(* (greenlight_ai/worker/runner.py), with failures, retries and crashes.   *)
(*                                                                         *)
(* The queue is reduced to what one run sees of it: one job, taken at most *)
(* MaxAttempts times (JobQueue is the whole of it).  The documents are     *)
(* reduced to what the comparisons tell apart: which element implements a  *)
(* requirement, whether it differs, whether the reports violate it, and    *)
(* whether nothing evidences it.  A finding is its kind and its subject.   *)
(***************************************************************************)
EXTENDS Naturals, Sequences, FiniteSets

CONSTANTS
    Requirements, \* the requirements the OSL states
    Elements,     \* the business elements of the configuration
    NoElement,    \* the empty element id of a trace
    MaxAttempts   \* Job.max_attempts

ASSUME ElementsAssumption == NoElement \notin Elements
ASSUME AttemptsAssumption == MaxAttempts \in Nat \ {0}

VARIABLES
    delivery, \* what the uploaded documents say
    status,   \* run.status
    job,      \* the run's job
    stored,   \* the run's rows: rules, elements, traces, findings, stages
    context   \* the RunContext in the worker's memory

vars == <<delivery, status, job, stored, context>>

\* STAGE_ORDER
StageOrder == <<"s1_parse", "s2_extract", "s3_describe", "s4_trace", "s5_compare",
                "s6_reverse", "s7_reports", "s8_verify", "s9_summarize">>
Positions == 1 .. Len(StageOrder)

Deliveries == [implements : [Requirements -> Elements \cup {NoElement}],
               differs : SUBSET Requirements, violated : SUBSET Requirements,
               unevidenced : SUBSET Requirements]

Found(kind, subjects) == {[kind |-> kind, about |-> x] : x \in subjects}
Findings ==
    (UNION {Found(kind, Requirements) : kind \in {"rule_missing_in_config", "value_differs",
              "report_violates_rule", "could_not_evaluate", "coverage_gap"}})
    \cup Found("extra_rule_in_config", Elements)

StageStatuses == {"pending", "done", "failed"}
Rows == [rules : SUBSET Requirements, elements : SUBSET Elements,
         traces : SUBSET (Requirements \X (Elements \cup {NoElement})),
         findings : SUBSET Findings, stages : [Positions -> StageStatuses]]

\* at: the position the orchestrator has reached.
NoContext == [pc |-> "none"]
Contexts == [pc : {"stages", "raised", "saved"}, at : 1 .. Len(StageOrder) + 1,
             parsed : BOOLEAN, out : Rows]

TypeOK ==
    /\ delivery \in Deliveries
    /\ status \in {"queued", "running", "needs_review", "failed"}
    /\ job \in [status : {"queued", "running", "done", "failed"}, attempts : 0 .. MaxAttempts]
    /\ stored \in Rows
    /\ context \in {NoContext} \cup Contexts

NoRows == [rules |-> {}, elements |-> {}, traces |-> {}, findings |-> {},
           stages |-> [i \in Positions |-> "pending"]]

Init ==
    /\ delivery \in Deliveries
    /\ status = "queued"
    /\ job = [status |-> "queued", attempts |-> 0]
    /\ stored = NoRows
    /\ context = NoContext

-----------------------------------------------------------------------------
(* The stages: what each makes of the context. *)

\* Stages 2 and 3 raise when stage 1 did not leave them a document.
Ready(i, c) == StageOrder[i] \in {"s2_extract", "s3_describe"} => c.parsed

\* Stages 2 and 3 read the rules and the elements of the documents.
Extracted(rows) == [rows EXCEPT !.rules = Requirements]
Described(rows) == [rows EXCEPT !.elements = Elements]

\* Stage 4 links every rule it has to an element it has.
Traced(rows) ==
    {<<r, IF delivery.implements[r] \in rows.elements THEN delivery.implements[r] ELSE NoElement>>
        : r \in rows.rules}

Linked(rows, r) == {e \in Elements : <<r, e>> \in rows.traces}

\* Faulty variant: a requirement that is not linked is passed over.
ComparedOnlyLinked(rows) ==
    Found("value_differs", {r \in rows.rules \cap delivery.differs :
                                Linked(rows, r) \cap rows.elements # {}})

\* Stage 5.  A rule linked to an element that is not there is passed over.
Compared(rows) ==
    Found("rule_missing_in_config", {r \in rows.rules : Linked(rows, r) = {}})
    \cup Found("value_differs", {r \in rows.rules \cap delivery.differs :
                                     Linked(rows, r) \cap rows.elements # {}})

\* Stage 6.
Unasked(rows) ==
    Found("extra_rule_in_config",
          {e \in rows.elements : \A r \in Requirements : <<r, e>> \notin rows.traces})

\* Stage 7.  Without parsed reports nothing can be evaluated.
Reported(rows, parsed) ==
    IF parsed THEN Found("report_violates_rule", rows.rules \cap delivery.violated)
    ELSE Found("could_not_evaluate", rows.rules)

\* Stage 8, of which only the reading of the coverage gaps adds findings here.
Unread(rows) == Found("coverage_gap", rows.rules \cap delivery.unevidenced)

Produced(i, rows, parsed) ==
    CASE StageOrder[i] = "s2_extract" -> Extracted(rows)
      [] StageOrder[i] = "s3_describe" -> Described(rows)
      [] StageOrder[i] = "s4_trace" -> [rows EXCEPT !.traces = Traced(rows)]
      [] StageOrder[i] = "s5_compare" -> [rows EXCEPT !.findings = @ \cup Compared(rows)]
      [] StageOrder[i] = "s6_reverse" -> [rows EXCEPT !.findings = @ \cup Unasked(rows)]
      [] StageOrder[i] = "s7_reports" -> [rows EXCEPT !.findings = @ \cup Reported(rows, parsed)]
      [] StageOrder[i] = "s8_verify" -> [rows EXCEPT !.findings = @ \cup Unread(rows)]
      [] OTHER -> rows

-----------------------------------------------------------------------------
(* The worker. *)

\* `build_context` reads the stage records of the run and none of its rules,
\* elements, traces or findings.
Loaded == [pc |-> "stages", at |-> 1, parsed |-> FALSE,
           out |-> [NoRows EXCEPT !.stages = stored.stages]]

\* The job is claimed, and the first transaction of `execute_run` commits.
Start ==
    /\ job.status = "queued"
    /\ job' = [status |-> "running", attempts |-> job.attempts + 1]
    /\ status' = "running"
    /\ context' = Loaded
    /\ UNCHANGED <<delivery, stored>>

InStages == context.pc = "stages" /\ context.at \in Positions
AlreadyDone == context.out.stages[context.at] = "done"

SkipStage ==
    /\ InStages /\ AlreadyDone
    /\ context' = [context EXCEPT !.at = @ + 1]
    /\ UNCHANGED <<delivery, status, job, stored>>

RunStage ==
    /\ InStages /\ ~AlreadyDone
    /\ Ready(context.at, context)
    /\ context' = [context EXCEPT
         !.at = @ + 1,
         !.parsed = @ \/ StageOrder[context.at] = "s1_parse",
         !.out = [Produced(context.at, @, context.parsed) EXCEPT !.stages[context.at] = "done"]]
    /\ UNCHANGED <<delivery, status, job, stored>>

\* A stage raises: an endpoint that does not answer, a spent budget, a missing
\* input.  The second transaction keeps what there is, and the run shows it.
StageFails ==
    /\ InStages /\ ~AlreadyDone
    /\ LET out == [context.out EXCEPT !.stages[context.at] = "failed"] IN
       /\ context' = [context EXCEPT !.pc = "raised", !.out = out]
       /\ stored' = out
    /\ status' = "failed"
    /\ UNCHANGED <<delivery, job>>

\* The second transaction after the last stage.
Save ==
    /\ context.pc = "stages" /\ context.at = Len(StageOrder) + 1
    /\ stored' = context.out
    /\ status' = "needs_review"
    /\ context' = [context EXCEPT !.pc = "saved"]
    /\ UNCHANGED <<delivery, job>>

Finish ==
    /\ context.pc = "saved"
    /\ job' = [job EXCEPT !.status = "done"]
    /\ context' = NoContext
    /\ UNCHANGED <<delivery, status, stored>>

MayRetry == job.attempts < MaxAttempts

\* `_handle_failure`.
HandleFailure ==
    /\ context.pc = "raised"
    /\ job' = [job EXCEPT !.status = IF MayRetry THEN "queued" ELSE "failed"]
    /\ status' = IF MayRetry THEN "queued" ELSE "failed"
    /\ context' = NoContext
    /\ UNCHANGED <<delivery, stored>>

\* The worker dies, its context with it, and its claim is reclaimed once stale.
Crash ==
    /\ context.pc # "none"
    /\ job' = [job EXCEPT !.status = IF MayRetry THEN "queued" ELSE "failed"]
    /\ status' = IF ~MayRetry /\ status = "running" THEN "failed" ELSE status
    /\ context' = NoContext
    /\ UNCHANGED <<delivery, stored>>

Next ==
    \/ Start
    \/ SkipStage \/ RunStage \/ StageFails
    \/ Save \/ Finish
    \/ HandleFailure \/ Crash

Spec == Init /\ [][Next]_vars

-----------------------------------------------------------------------------
(* Correctness properties. *)

\* What the documents say about themselves, stage by stage of the docs: a
\* requirement without an element, with a different one, or broken by the
\* reports, an element nobody required, and a requirement nothing evidences.
Reference ==
    LET linked == {r \in Requirements : delivery.implements[r] # NoElement}
    IN Found("rule_missing_in_config", Requirements \ linked)
       \cup Found("value_differs", delivery.differs \cap linked)
       \cup Found("extra_rule_in_config", Elements \ {delivery.implements[r] : r \in linked})
       \cup Found("report_violates_rule", delivery.violated)
       \cup Found("coverage_gap", delivery.unevidenced)

\* A run that was never interrupted shows a reviewer exactly what the documents
\* say, for every delivery.
FirstAttemptIsComplete ==
    status = "needs_review" /\ job.attempts = 1 => stored.findings = Reference

\* A run that reaches a reviewer shows what the documents say, however often it
\* was interrupted: "a retried job resumes at the last good stage".
ReviewedIsComplete == status = "needs_review" => stored.findings = Reference

\* The run's own record says where it stopped: before the stage that failed all
\* are done and after it none is.
RecordSaysWhereItStopped ==
    \A i \in Positions : stored.stages[i] = "failed" =>
        \A k \in Positions : stored.stages[k] = (IF k < i THEN "done"
                                                 ELSE IF k = i THEN "failed" ELSE "pending")

\* Whatever is retried or dies, a stage once recorded as done stays done.
DoneStaysDone ==
    [][\A i \in Positions : stored.stages[i] = "done" => stored'.stages[i] = "done"]_vars
=============================================================================
