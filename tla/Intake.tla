------------------------------ MODULE Intake ------------------------------
(***************************************************************************)
(* What is asked of an artifact before a run starts.  A workbook is told   *)
(* by its likeness to the stored samples of each report type               *)
(* (parsers/detect.py); what the submitter typed is compared with what the *)
(* artifacts declare, and a run that disagrees is held until every         *)
(* disagreement is accepted (checks/artifact_match.py, api/routers/runs.py)*)
(*                                                                         *)
(* A sheet is the set of its tokens, its name and its header labels, as    *)
(* they are after normalization.                                           *)
(***************************************************************************)
EXTENDS Naturals, Sequences, FiniteSets, FiniteSetsExt

CONSTANTS ReportTypes,  \* the report types that are on
          Shelves,      \* possible libraries: type -> set of samples
          Workbooks,    \* possible uploads: sets of sheets
          Submissions,  \* possible submissions, see Agreement
          Folded,       \* what normalization leaves of a value, by field
          NoType, NoValueGiven,
          Acceptors     \* requests that accept disagreements

VARIABLES shelf,     \* artifact_types and artifact_samples
          told,      \* what the form was told of its last upload
          heldRun,   \* the run's status
          mismatch,  \* artifact_mismatches: field -> whether it was accepted
          accepting, \* the request of each acceptor
          overlapped \* whether two acceptances overlapped

intakeVars == <<shelf, told, heldRun, mismatch, accepting, overlapped>>

NotTold == [verdict |-> "none"]
NoRequestYet == [step |-> "none"]

IntakeInit ==
    /\ shelf \in Shelves
    /\ told = NotTold
    /\ heldRun = "none"
    /\ mismatch = [f \in {} |-> FALSE]
    /\ accepting = [q \in Acceptors |-> NoRequestYet]
    /\ overlapped = FALSE

----------------------------------------------------------------------------
(* Detection.  Scores are of ten thousand, as they are rounded.            *)

ConfidentScore == 5500
ConfidentMargin == 1500
ScoreFloor == 2000

Alike(n, m) == (2 * 10000 * n + m) \div (2 * m)

\* Faulty variant: over the tokens of the upload.
ScoreOfGiven(given, known) ==
    IF given = {} \/ known = {} THEN 0
    ELSE Alike(Cardinality(given \cap known), Cardinality(given))

\* Shared tokens over all tokens.
Score(given, known) ==
    IF given = {} \/ known = {} THEN 0
    ELSE Alike(Cardinality(given \cap known), Cardinality(given \cup known))

\* A sample whose file is gone or unreadable still has the sheet names stored at its upload.
Merged(type) == UNION {(UNION s.sheets) \cup s.stored : s \in shelf[type]}
Sheets(type) == UNION {s.sheets : s \in shelf[type]}
References == {type \in ReportTypes : Merged(type) # {}}

Whole(tokens) == [type \in References |-> Score(tokens, Merged(type))]
BySheet(sheet) ==
    [type \in References |->
        Max({Score(sheet, s) : s \in IF Sheets(type) = {} THEN {Merged(type)} ELSE Sheets(type)})]

\* The best score first; the one after it is 0 when no other reaches the floor.
Verdicts(scores) ==
    LET kept == {type \in DOMAIN scores : scores[type] >= ScoreFloor}
        best == Max({scores[type] : type \in kept})
        Next2(type) == Max({0} \cup {scores[o] : o \in kept \ {type}})
        ahead(type) == best >= Next2(type) + ConfidentMargin
    IN IF kept = {} THEN {[verdict |-> "unknown", type |-> NoType]}
       ELSE {[verdict |-> IF best >= ConfidentScore /\ ahead(type) THEN "confident" ELSE "ambiguous",
              type |-> type] : type \in {t \in kept : scores[t] = best}}

\* break_tie: of several likely types the model may name one; refused, it changes nothing.
Reasoned(result, scores) ==
    LET likely == {type \in DOMAIN scores : scores[type] >= ScoreFloor}
    IN {result} \cup
       IF result.verdict = "ambiguous" /\ Cardinality(likely) > 1
       THEN {[verdict |-> "reasoned", type |-> type] : type \in likely} ELSE {}

Detected(tokens) ==
    UNION {Reasoned(result, Whole(tokens)) : result \in Verdicts(Whole(tokens))}

DetectedSheets(workbook) ==
    [s \in workbook |-> IF References = {} THEN {} ELSE Verdicts(BySheet(s))]

DetectType(workbook) ==
    /\ told = NotTold /\ heldRun = "none"
    /\ \E said \in Detected(UNION workbook) :
           told' = [verdict |-> said.verdict, type |-> said.type, workbook |-> workbook,
                    sheets |-> DetectedSheets(workbook)]
    /\ UNCHANGED <<shelf, heldRun, mismatch, accepting, overlapped>>

----------------------------------------------------------------------------
(* Submission *)

\* A configuration that cannot be read is the pipeline's to report; a field it does not
\* declare, or a date nobody typed or no report carries, is no disagreement.
Agreement(field, typed, declared) ==
    IF declared = NoValueGiven \/ typed = NoValueGiven THEN "absent"
    ELSE IF typed = declared THEN "match"
    ELSE IF Folded[field][typed] = Folded[field][declared] THEN "near"
    ELSE "different"

\* The reports are read smallest first until one carries the label, or time is up.
DatesFound(reports) ==
    {NoValueGiven} \cup
    {reports[i] : i \in {i \in DOMAIN reports : /\ reports[i] # NoValueGiven
                                                /\ \A j \in 1..(i - 1) : reports[j] = NoValueGiven}}

Disagreeing(given, date) ==
    IF ~given.readable THEN {}
    ELSE {f \in {"configuration_id", "customer"} :
             Agreement(f, given.typed[f], given.declared[f]) \notin {"match", "absent"}}
         \cup {f \in {"credit_date"} :
             Agreement(f, given.typed[f], date) \notin {"match", "absent"}}

\* A row for each, not accepted.
RecordedMismatches(given, date) == [f \in Disagreeing(given, date) |-> FALSE]

FinishSubmission(given) ==
    /\ heldRun = "none"
    /\ \E date \in DatesFound(given.reports) : mismatch' = RecordedMismatches(given, date)
    /\ heldRun' = IF DOMAIN mismatch' # {} THEN "held" ELSE "queued"
    /\ told' = NotTold
    /\ UNCHANGED <<shelf, accepting, overlapped>>

Open == {f \in DOMAIN mismatch : ~mismatch[f]}

\* Everything outstanding, or what is named of it.
AcceptMismatches(q, wanted) ==
    /\ accepting[q] = NoRequestYet /\ heldRun = "held"
    /\ accepting' = [accepting EXCEPT ![q] =
         [step |-> "read", accepts |-> IF wanted = {} THEN Open ELSE Open \cap wanted,
          open |-> IF wanted = {} THEN {} ELSE Open \ wanted]]
    /\ UNCHANGED <<shelf, told, heldRun, mismatch, overlapped>>

AcceptedAs(q, queues) ==
    /\ accepting[q].step = "read"
    /\ mismatch' = [f \in DOMAIN mismatch |-> mismatch[f] \/ f \in accepting[q].accepts]
    /\ heldRun' = IF queues THEN "queued" ELSE heldRun
    /\ accepting' = [accepting EXCEPT ![q] = NoRequestYet]
    /\ overlapped' = (overlapped \/ \E p \in Acceptors \ {q} : accepting[p] # NoRequestYet)
    /\ UNCHANGED <<shelf, told>>

\* Faulty variant: whoever accepts anything starts the run.
AcceptAnything(q) == AcceptedAs(q, TRUE)

AcceptCommitted(q) == accepting[q].step = "read" /\ AcceptedAs(q, accepting[q].open = {})

IntakeNext ==
    \/ \E workbook \in Workbooks : DetectType(workbook)
    \/ \E given \in Submissions : FinishSubmission(given)
    \/ \E q \in Acceptors :
         \/ \E wanted \in SUBSET {"configuration_id", "customer", "credit_date"} :
                AcceptMismatches(q, wanted)
         \/ AcceptCommitted(q)

IntakeSpec == IntakeInit /\ [][IntakeNext]_intakeVars

----------------------------------------------------------------------------
\* A copy of a type's only sample is told for that type, with confidence, unless another type
\* shares more than 85 of 100 of their tokens with it (parsers/detect.py).
CopyIsItsOwn ==
    told # NotTold =>
    \A type \in ReportTypes :
        LET tokens == UNION told.workbook
            copy == shelf[type] # {} /\ \A s \in shelf[type] : s.sheets = told.workbook /\ s.stored \subseteq tokens
            double(o) == 100 * Cardinality(tokens \cap Merged(o)) > 85 * Cardinality(tokens \cup Merged(o))
        IN copy /\ tokens # {} /\ ~(\E o \in ReportTypes \ {type} : double(o))
           => told.type = type /\ told.verdict = "confident"

\* A run waits while, and only while, a disagreement is open. Two people who accept the last
\* ones at the same moment may leave it held with none, until somebody accepts again.
HeldMeansOpen ==
    /\ heldRun = "queued" => Open = {}
    /\ heldRun = "held" /\ Open = {} => overlapped
=============================================================================
