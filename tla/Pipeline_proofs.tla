--------------------------- MODULE Pipeline_proofs ---------------------------
(***************************************************************************)
(* Proofs about Pipeline, for any requirements, elements, delivery and     *)
(* number of attempts; and from "What the stages' items come to" on about  *)
(* Opinions, for any deliveries and rules.                                 *)
(*                                                                         *)
(* The stage records are a prefix of done stages, then at most one that    *)
(* failed, then pending ones; a worker's context agrees with the stored    *)
(* records from the stage it has reached on.  In a first attempt the       *)
(* context holds what the stages before that one make of the delivery.     *)
(***************************************************************************)
EXTENDS Pipeline, Opinions, Subsequences_proofs, TLAPS

\* After a stage that is not done all are pending.
Ordered(stages) ==
    \A i, k \in Positions : i < k /\ stages[i] # "done" => stages[k] = "pending"

\* The context of a worker that is in the stages.
ContextFollows ==
    context.pc = "stages" =>
        \A k \in Positions :
            context.out.stages[k] = IF k < context.at THEN "done" ELSE stored.stages[k]

\* What the first stages make of a delivery.
TracesOf == {<<r, delivery.implements[r]>> : r \in Requirements}
Implemented == {r \in Requirements : delivery.implements[r] # NoElement}
FindingsBefore(at) ==
    (IF at > 5 THEN Found("rule_missing_in_config", Requirements \ Implemented)
                    \cup Found("value_differs", delivery.differs \cap Implemented) ELSE {})
    \cup (IF at > 6 THEN Found("extra_rule_in_config",
                               Elements \ {delivery.implements[r] : r \in Implemented}) ELSE {})
    \cup (IF at > 7 THEN Found("report_violates_rule", delivery.violated) ELSE {})
    \cup (IF at > 8 THEN Found("coverage_gap", delivery.unevidenced) ELSE {})

\* A first attempt starts on nothing and has what the stages before `at` make.
FirstAttempt ==
    /\ job.attempts = 0 => stored = NoRows /\ context = NoContext /\ status = "queued"
    /\ job.attempts = 1 /\ context.pc = "stages" =>
          /\ stored = NoRows /\ status = "running"
          /\ (context.parsed <=> context.at > 1)
          /\ context.out.rules = IF context.at > 2 THEN Requirements ELSE {}
          /\ context.out.elements = IF context.at > 3 THEN Elements ELSE {}
          /\ context.out.traces = IF context.at > 4 THEN TracesOf ELSE {}
          /\ context.out.findings = FindingsBefore(context.at)

\* A job that waits may be tried once more.
AttemptsLeft == job.status = "queued" => job.attempts < MaxAttempts

IInv ==
    /\ TypeOK
    /\ AttemptsLeft
    /\ Ordered(stored.stages)
    /\ ContextFollows
    /\ FirstAttempt
    /\ FirstAttemptIsComplete

-----------------------------------------------------------------------------
(* Lemmas about the stages. *)

LEMMA Order ==
    /\ Len(StageOrder) = 9 /\ Positions = 1 .. 9
    /\ StageOrder[1] = "s1_parse" /\ StageOrder[2] = "s2_extract"
    /\ StageOrder[3] = "s3_describe" /\ StageOrder[4] = "s4_trace"
    /\ StageOrder[5] = "s5_compare" /\ StageOrder[6] = "s6_reverse"
    /\ StageOrder[7] = "s7_reports" /\ StageOrder[8] = "s8_verify"
    /\ StageOrder[9] = "s9_summarize"
<1>1. Len(StageOrder) = 9
  BY DEF StageOrder
<1>2. /\ StageOrder[1] = "s1_parse" /\ StageOrder[2] = "s2_extract"
      /\ StageOrder[3] = "s3_describe" /\ StageOrder[4] = "s4_trace"
      /\ StageOrder[5] = "s5_compare" /\ StageOrder[6] = "s6_reverse"
      /\ StageOrder[7] = "s7_reports" /\ StageOrder[8] = "s8_verify"
      /\ StageOrder[9] = "s9_summarize"
  BY DEF StageOrder
<1> QED BY <1>1, <1>2 DEF Positions

\* The findings of a kind are findings.
LEMMA FoundType ==
    /\ \A kind \in {"rule_missing_in_config", "value_differs", "report_violates_rule",
                    "could_not_evaluate", "coverage_gap"} :
          \A subjects \in SUBSET Requirements : Found(kind, subjects) \subseteq Findings
    /\ \A subjects \in SUBSET Elements : Found("extra_rule_in_config", subjects) \subseteq Findings
<1> DEFINE kinds == {"rule_missing_in_config", "value_differs", "report_violates_rule",
                     "could_not_evaluate", "coverage_gap"}
<1>1. ASSUME NEW kind \in kinds, NEW subjects \in SUBSET Requirements
      PROVE  Found(kind, subjects) \subseteq Findings
  <2>1. Found(kind, subjects) \subseteq Found(kind, Requirements)
    BY DEF Found
  <2>2. Found(kind, Requirements) \in {Found(any, Requirements) : any \in kinds}
    OBVIOUS
  <2> QED BY <2>1, <2>2 DEF Findings
<1>2. ASSUME NEW subjects \in SUBSET Elements
      PROVE  Found("extra_rule_in_config", subjects) \subseteq Findings
  BY DEF Found, Findings
<1> QED BY <1>1, <1>2

LEMMA NoRowsType == NoRows \in Rows /\ NoRows.findings = {} /\ Ordered(NoRows.stages)
BY DEF NoRows, Rows, StageStatuses, Ordered

\* A stage leaves rows, and the stage records as they are.
LEMMA ProducedType ==
    ASSUME TypeOK, NEW i \in Positions, NEW rows \in Rows, NEW parsed \in BOOLEAN
    PROVE  /\ Produced(i, rows, parsed) \in Rows
           /\ Produced(i, rows, parsed).stages = rows.stages
<1> DEFINE p == Produced(i, rows, parsed)
<1>1. /\ rows.rules \in SUBSET Requirements /\ rows.elements \in SUBSET Elements
      /\ rows.findings \in SUBSET Findings
  BY DEF Rows
<1>2. /\ delivery.differs \in SUBSET Requirements /\ delivery.violated \in SUBSET Requirements
      /\ delivery.unevidenced \in SUBSET Requirements
      /\ delivery.implements \in [Requirements -> Elements \cup {NoElement}]
  BY DEF TypeOK, Deliveries
<1>3. i \in {1, 2, 3, 4, 5, 6, 7, 8, 9}
  BY Order
<1>4. CASE i = 2
  <2>1. p = Extracted(rows)
    BY <1>4, Order DEF Produced
  <2> QED BY <2>1 DEF Extracted, Rows
<1>5. CASE i = 3
  <2>1. p = Described(rows)
    BY <1>5, Order DEF Produced
  <2> QED BY <2>1 DEF Described, Rows
<1>6. CASE i = 4
  <2>1. p = [rows EXCEPT !.traces = Traced(rows)]
    BY <1>6, Order DEF Produced
  <2>2. Traced(rows) \in SUBSET (Requirements \X (Elements \cup {NoElement}))
    BY <1>1, <1>2 DEF Traced
  <2> QED BY <2>1, <2>2 DEF Rows
<1>7. ASSUME NEW new \in SUBSET Findings, p = [rows EXCEPT !.findings = @ \cup new]
      PROVE  p \in Rows /\ p.stages = rows.stages
  <2>1. rows.findings \cup new \in SUBSET Findings
    BY <1>1
  <2> HIDE DEF p
  <2> QED BY <1>7, <2>1 DEF Rows
<1>8. CASE i = 5
  <2>1. p = [rows EXCEPT !.findings = @ \cup Compared(rows)]
    BY <1>8, Order DEF Produced
  <2>2. Compared(rows) \in SUBSET Findings
    <3> DEFINE a == {r \in rows.rules : Linked(rows, r) = {}}
               b == {r \in rows.rules \cap delivery.differs : Linked(rows, r) \cap rows.elements # {}}
    <3>1. a \in SUBSET Requirements /\ b \in SUBSET Requirements
      BY <1>1
    <3>2. Compared(rows) = Found("rule_missing_in_config", a) \cup Found("value_differs", b)
      BY DEF Compared
    <3> HIDE DEF a, b
    <3> QED BY <3>1, <3>2, FoundType
  <2> QED BY <1>7, <2>1, <2>2
<1>9. CASE i = 6
  <2>1. p = [rows EXCEPT !.findings = @ \cup Unasked(rows)]
    BY <1>9, Order DEF Produced
  <2>2. Unasked(rows) \in SUBSET Findings
    BY <1>1, FoundType DEF Unasked
  <2> QED BY <1>7, <2>1, <2>2
<1>10. CASE i = 7
  <2>1. p = [rows EXCEPT !.findings = @ \cup Reported(rows, parsed)]
    BY <1>10, Order DEF Produced
  <2>2. Reported(rows, parsed) \in SUBSET Findings
    BY <1>1, FoundType DEF Reported
  <2> QED BY <1>7, <2>1, <2>2
<1>11. CASE i = 8
  <2>1. p = [rows EXCEPT !.findings = @ \cup Unread(rows)]
    BY <1>11, Order DEF Produced
  <2>2. Unread(rows) \in SUBSET Findings
    BY <1>1, FoundType DEF Unread
  <2> QED BY <1>7, <2>1, <2>2
<1>12. CASE i \in {1, 9}
  <2>1. p = rows
    BY <1>12, Order DEF Produced
  <2> QED BY <2>1
<1> QED BY <1>3, <1>4, <1>5, <1>6, <1>8, <1>9, <1>10, <1>11, <1>12

-----------------------------------------------------------------------------
(* What the stages of a first attempt make of a delivery. *)

LEMMA FirstFindings ==
    ASSUME TypeOK, NEW rows \in Rows, rows.rules = Requirements, rows.elements = Elements,
           rows.traces = TracesOf
    PROVE  /\ Compared(rows) = Found("rule_missing_in_config", Requirements \ Implemented)
                               \cup Found("value_differs", delivery.differs \cap Implemented)
           /\ Unasked(rows) = Found("extra_rule_in_config",
                                    Elements \ {delivery.implements[r] : r \in Implemented})
           /\ Reported(rows, TRUE) = Found("report_violates_rule", delivery.violated)
           /\ Unread(rows) = Found("coverage_gap", delivery.unevidenced)
<1>1. /\ delivery.differs \in SUBSET Requirements /\ delivery.violated \in SUBSET Requirements
      /\ delivery.unevidenced \in SUBSET Requirements
      /\ delivery.implements \in [Requirements -> Elements \cup {NoElement}]
  BY DEF TypeOK, Deliveries
<1>2. \A r \in Requirements, e \in Elements \cup {NoElement} :
        <<r, e>> \in rows.traces <=> e = delivery.implements[r]
  BY DEF TracesOf
<1>3. \A r \in Requirements :
        /\ Linked(rows, r) = {} <=> r \notin Implemented
        /\ Linked(rows, r) \cap rows.elements = Linked(rows, r)
  <2> SUFFICES ASSUME NEW r \in Requirements
               PROVE  /\ Linked(rows, r) = {} <=> r \notin Implemented
                      /\ Linked(rows, r) \cap rows.elements = Linked(rows, r)
    OBVIOUS
  <2>1. Linked(rows, r) = {e \in Elements : e = delivery.implements[r]}
    BY <1>2 DEF Linked
  <2>2. delivery.implements[r] \in Elements <=> r \in Implemented
    BY <1>1, ElementsAssumption DEF Implemented
  <2>3. Linked(rows, r) = {} <=> delivery.implements[r] \notin Elements
    BY <2>1
  <2>4. Linked(rows, r) \cap rows.elements = Linked(rows, r)
    BY <2>1
  <2> QED BY <2>2, <2>3, <2>4
<1>4. /\ {r \in rows.rules : Linked(rows, r) = {}} = Requirements \ Implemented
      /\ {r \in rows.rules \cap delivery.differs : Linked(rows, r) \cap rows.elements # {}}
           = delivery.differs \cap Implemented
  BY <1>1, <1>3
<1>5. Compared(rows) = Found("rule_missing_in_config", Requirements \ Implemented)
                       \cup Found("value_differs", delivery.differs \cap Implemented)
  BY <1>4 DEF Compared
<1>6. {e \in rows.elements : \A r \in Requirements : <<r, e>> \notin rows.traces}
        = Elements \ {delivery.implements[r] : r \in Implemented}
  <2> SUFFICES ASSUME NEW e \in Elements
               PROVE  (\A r \in Requirements : <<r, e>> \notin rows.traces)
                        <=> e \notin {delivery.implements[r] : r \in Implemented}
    OBVIOUS
  <2>1. \A r \in Requirements : <<r, e>> \in rows.traces <=> e = delivery.implements[r]
    BY <1>2
  <2>2. \A r \in Requirements : e = delivery.implements[r] => r \in Implemented
    BY ElementsAssumption DEF Implemented
  <2>3. Implemented \subseteq Requirements
    BY DEF Implemented
  <2> QED BY <2>1, <2>2, <2>3
<1>7. Unasked(rows) = Found("extra_rule_in_config",
                            Elements \ {delivery.implements[r] : r \in Implemented})
  BY <1>6 DEF Unasked
<1>8. /\ rows.rules \cap delivery.violated = delivery.violated
      /\ rows.rules \cap delivery.unevidenced = delivery.unevidenced
  BY <1>1
<1> QED BY <1>5, <1>7, <1>8 DEF Reported, Unread

\* All stages together find what the documents say.
LEMMA AllFindings == TypeOK => FindingsBefore(10) = Reference
BY DEF FindingsBefore, Reference, Implemented

\* A first attempt that runs its next stage has what the stages up to that one make.
LEMMA FirstAttemptRuns ==
    ASSUME IInv, RunStage, job.attempts = 1
    PROVE  /\ context'.parsed <=> context'.at > 1
           /\ context'.out.rules = IF context'.at > 2 THEN Requirements ELSE {}
           /\ context'.out.elements = IF context'.at > 3 THEN Elements ELSE {}
           /\ context'.out.traces = IF context'.at > 4 THEN TracesOf ELSE {}
           /\ context'.out.findings = FindingsBefore(context'.at)
<1> DEFINE i == context.at
           rows == context.out
           p == Produced(i, rows, context.parsed)
<1>1. /\ context \in Contexts /\ i \in Positions /\ rows \in Rows
      /\ context.parsed \in BOOLEAN
  BY DEF IInv, TypeOK, RunStage, InStages, NoContext, Contexts
<1>2. /\ context.parsed <=> i > 1
      /\ rows.rules = IF i > 2 THEN Requirements ELSE {}
      /\ rows.elements = IF i > 3 THEN Elements ELSE {}
      /\ rows.traces = IF i > 4 THEN TracesOf ELSE {}
      /\ rows.findings = FindingsBefore(i)
  BY DEF IInv, FirstAttempt, RunStage, InStages
<1>3. p \in Rows
  BY <1>1, ProducedType DEF IInv
<1>4. /\ context'.at = i + 1 /\ context'.parsed = (context.parsed \/ StageOrder[i] = "s1_parse")
      /\ context'.out = [p EXCEPT !.stages[i] = "done"]
  BY <1>1 DEF RunStage, Contexts
<1>5. /\ context'.out.rules = p.rules /\ context'.out.elements = p.elements
      /\ context'.out.traces = p.traces /\ context'.out.findings = p.findings
  BY <1>3, <1>4 DEF Rows
<1> HIDE DEF rows, p
<1>6. i \in {1, 2, 3, 4, 5, 6, 7, 8, 9}
  BY <1>1, Order
<1>7. context'.parsed <=> context'.at > 1
  <2>1. context'.at > 1
    BY <1>4, <1>6
  <2>2. context'.parsed
    <3>1. CASE i = 1
      BY <1>4, <3>1, Order
    <3>2. CASE i > 1
      BY <1>2, <1>4, <3>2
    <3> QED BY <1>6, <3>1, <3>2
  <2> QED BY <2>1, <2>2
<1>8. ASSUME i > 4
      PROVE  /\ Compared(rows) = Found("rule_missing_in_config", Requirements \ Implemented)
                                 \cup Found("value_differs", delivery.differs \cap Implemented)
             /\ Unasked(rows) = Found("extra_rule_in_config",
                                      Elements \ {delivery.implements[r] : r \in Implemented})
             /\ Reported(rows, TRUE) = Found("report_violates_rule", delivery.violated)
             /\ Unread(rows) = Found("coverage_gap", delivery.unevidenced)
             /\ context.parsed = TRUE
  <2>1. context.parsed = TRUE
    <3>1. i > 1
      BY <1>6, <1>8
    <3> QED BY <1>1, <1>2, <3>1
  <2>2. rows.rules = Requirements /\ rows.elements = Elements /\ rows.traces = TracesOf
    BY <1>2, <1>6, <1>8
  <2>3. TypeOK /\ rows \in Rows
    BY <1>1 DEF IInv
  <2> QED BY <2>1, <2>2, <2>3, FirstFindings
<1>a. ASSUME i > 4, NEW new \in SUBSET Findings, p = [rows EXCEPT !.findings = @ \cup new],
             FindingsBefore(i + 1) = FindingsBefore(i) \cup new
      PROVE  /\ p.rules = Requirements /\ p.elements = Elements /\ p.traces = TracesOf
             /\ p.findings = FindingsBefore(i + 1)
  <2>1. rows \in Rows
    BY <1>1
  <2>2. /\ p.rules = rows.rules /\ p.elements = rows.elements /\ p.traces = rows.traces
        /\ p.findings = rows.findings \cup new
    BY <2>1, <1>a DEF Rows
  <2> QED BY <1>2, <1>6, <1>a, <2>2
<1>b. /\ delivery.differs \cap Implemented \in SUBSET Requirements
      /\ Requirements \ Implemented \in SUBSET Requirements
      /\ Elements \ {delivery.implements[r] : r \in Implemented} \in SUBSET Elements
      /\ delivery.violated \in SUBSET Requirements
      /\ delivery.unevidenced \in SUBSET Requirements
  BY DEF IInv, TypeOK, Deliveries
<1>9. /\ p.rules = IF i > 1 THEN Requirements ELSE {}
      /\ p.elements = IF i > 2 THEN Elements ELSE {}
      /\ p.traces = IF i > 3 THEN TracesOf ELSE {}
      /\ p.findings = FindingsBefore(i + 1)
  <2>1. CASE i = 1
    BY <1>2, <2>1, Order DEF Produced, FindingsBefore, p, rows
  <2>2. CASE i = 2
    BY <1>1, <1>2, <2>2, Order DEF Produced, Extracted, FindingsBefore, p, rows, Rows
  <2>3. CASE i = 3
    BY <1>1, <1>2, <2>3, Order DEF Produced, Described, FindingsBefore, p, rows, Rows
  <2>4. CASE i = 4
    <3>1. Traced(rows) = TracesOf
      BY <1>2, <2>4 DEF Traced, TracesOf, rows, IInv, TypeOK, Deliveries
    <3> QED BY <1>1, <1>2, <2>4, <3>1, Order DEF Produced, FindingsBefore, p, rows, Rows
  <2>5. CASE i = 5
    <3>1. i > 4 /\ i + 1 = 6
      BY <2>5
    <3>2. p = [rows EXCEPT !.findings = @ \cup Compared(rows)]
      BY <1>8, <2>5, <3>1, Order DEF Produced, p, rows
    <3>3. FindingsBefore(i + 1) = FindingsBefore(i) \cup Compared(rows)
      BY <1>8, <2>5, <3>1 DEF FindingsBefore
    <3>4. Compared(rows) \in SUBSET Findings
      BY <1>b, <1>8, <3>1, FoundType
    <3> HIDE DEF i
    <3>5. /\ p.rules = Requirements /\ p.elements = Elements /\ p.traces = TracesOf
          /\ p.findings = FindingsBefore(i + 1)
      BY <1>a, <3>1, <3>2, <3>3, <3>4
    <3>6. i > 1 /\ i > 2 /\ i > 3
      BY <2>5
    <3> QED BY <3>5, <3>6
  <2>6. CASE i = 6
    <3>1. i > 4 /\ i + 1 = 7
      BY <2>6
    <3>2. p = [rows EXCEPT !.findings = @ \cup Unasked(rows)]
      BY <1>8, <2>6, <3>1, Order DEF Produced, p, rows
    <3>3. FindingsBefore(i + 1) = FindingsBefore(i) \cup Unasked(rows)
      BY <1>8, <2>6, <3>1 DEF FindingsBefore
    <3>4. Unasked(rows) \in SUBSET Findings
      BY <1>b, <1>8, <3>1, FoundType
    <3> HIDE DEF i
    <3>5. /\ p.rules = Requirements /\ p.elements = Elements /\ p.traces = TracesOf
          /\ p.findings = FindingsBefore(i + 1)
      BY <1>a, <3>1, <3>2, <3>3, <3>4
    <3>6. i > 1 /\ i > 2 /\ i > 3
      BY <2>6
    <3> QED BY <3>5, <3>6
  <2>7. CASE i = 7
    <3>1. i > 4 /\ i + 1 = 8
      BY <2>7
    <3>2. p = [rows EXCEPT !.findings = @ \cup Reported(rows, TRUE)]
      BY <1>8, <2>7, <3>1, Order DEF Produced, p, rows
    <3>3. FindingsBefore(i + 1) = FindingsBefore(i) \cup Reported(rows, TRUE)
      <4>1. FindingsBefore(7) \cup Found("report_violates_rule", delivery.violated)
              = FindingsBefore(8)
        BY DEF FindingsBefore
      <4> QED BY <1>8, <2>7, <3>1, <4>1
    <3>4. Reported(rows, TRUE) \in SUBSET Findings
      BY <1>b, <1>8, <3>1, FoundType
    <3> HIDE DEF i
    <3>5. /\ p.rules = Requirements /\ p.elements = Elements /\ p.traces = TracesOf
          /\ p.findings = FindingsBefore(i + 1)
      BY <1>a, <3>1, <3>2, <3>3, <3>4
    <3>6. i > 1 /\ i > 2 /\ i > 3
      BY <2>7
    <3> QED BY <3>5, <3>6
  <2>8. CASE i = 8
    <3>1. i > 4 /\ i + 1 = 9
      BY <2>8
    <3>2. p = [rows EXCEPT !.findings = @ \cup Unread(rows)]
      BY <1>8, <2>8, <3>1, Order DEF Produced, p, rows
    <3>3. FindingsBefore(i + 1) = FindingsBefore(i) \cup Unread(rows)
      BY <1>8, <2>8, <3>1 DEF FindingsBefore
    <3>4. Unread(rows) \in SUBSET Findings
      BY <1>b, <1>8, <3>1, FoundType
    <3> HIDE DEF i
    <3>5. /\ p.rules = Requirements /\ p.elements = Elements /\ p.traces = TracesOf
          /\ p.findings = FindingsBefore(i + 1)
      BY <1>a, <3>1, <3>2, <3>3, <3>4
    <3>6. i > 1 /\ i > 2 /\ i > 3
      BY <2>8
    <3> QED BY <3>5, <3>6
  <2>9. CASE i = 9
    <3>1. p = rows
      BY <2>9, Order DEF Produced, p
    <3>2. FindingsBefore(9) = FindingsBefore(10)
      BY DEF FindingsBefore
    <3>3. i + 1 = 10 /\ i = 9
      BY <2>9
    <3> QED BY <1>2, <3>1, <3>2, <3>3
  <2> QED BY <1>6, <2>1, <2>2, <2>3, <2>4, <2>5, <2>6, <2>7, <2>8, <2>9
<1> QED BY <1>4, <1>5, <1>6, <1>7, <1>9

-----------------------------------------------------------------------------
(* The initial states, and one lemma per action. *)

LEMMA ContextType ==
    ASSUME TypeOK, context.pc # "none"
    PROVE  /\ context \in Contexts /\ context.pc \in {"stages", "raised", "saved"}
           /\ context.at \in 1 .. 10 /\ context.parsed \in BOOLEAN /\ context.out \in Rows
BY Order DEF TypeOK, NoContext, Contexts

LEMMA InitIInv == Init => IInv
<1> SUFFICES ASSUME Init PROVE IInv
  OBVIOUS
<1>1. TypeOK
  BY NoRowsType, AttemptsAssumption DEF Init, TypeOK
<1>2. context.pc # "stages"
  BY DEF Init, NoContext
<1> QED BY <1>1, <1>2, NoRowsType, AttemptsAssumption
        DEF Init, IInv, AttemptsLeft, ContextFollows, FirstAttempt, FirstAttemptIsComplete

LEMMA StartStep == ASSUME IInv, Start PROVE IInv'
<1>1. /\ Loaded.pc = "stages" /\ Loaded.at = 1 /\ Loaded.parsed = FALSE
      /\ Loaded.out \in Rows /\ Loaded.out.stages = stored.stages
      /\ Loaded.out.rules = {} /\ Loaded.out.elements = {}
      /\ Loaded.out.traces = {} /\ Loaded.out.findings = {}
  BY DEF Loaded, NoRows, IInv, TypeOK, Rows
<1>2. Loaded \in Contexts
  BY <1>1, Order DEF Loaded, Contexts
<1>3. TypeOK'
  <2>1. job.attempts + 1 \in 0 .. MaxAttempts
    BY AttemptsAssumption DEF IInv, TypeOK, Start, AttemptsLeft
  <2> QED BY <2>1, <1>2 DEF IInv, TypeOK, Start
<1>4. ContextFollows' /\ Ordered(stored.stages)' /\ AttemptsLeft'
  BY <1>1, Order DEF IInv, Start, ContextFollows, Ordered, AttemptsLeft
<1>5. FirstAttempt'
  <2>1. job.attempts \in Nat /\ job'.attempts = job.attempts + 1
    BY AttemptsAssumption DEF IInv, TypeOK, Start
  <2>2. job'.attempts # 0 /\ (job'.attempts = 1 => stored' = NoRows)
    BY <2>1 DEF IInv, FirstAttempt, Start
  <2>3. FindingsBefore(context.at)' = {}
    BY <1>1 DEF Start, FindingsBefore
  <2>4. ~context'.parsed /\ ~(context'.at > 1)
    BY <1>1 DEF Start
  <2> QED BY <1>1, <2>2, <2>3, <2>4 DEF FirstAttempt, Start
<1>6. FirstAttemptIsComplete'
  BY DEF Start, FirstAttemptIsComplete
<1> QED BY <1>3, <1>4, <1>5, <1>6 DEF IInv

\* What a worker in the stages has, before it skips, runs or fails its next stage.
LEMMA InTheStages ==
    ASSUME IInv, InStages
    PROVE  /\ context.pc = "stages" /\ context \in Contexts
           /\ context.at \in 1 .. 9 /\ context.parsed \in BOOLEAN /\ context.out \in Rows
           /\ context.out.stages \in [Positions -> StageStatuses]
           /\ stored \in Rows /\ stored.stages \in [Positions -> StageStatuses]
<1>1. context.pc # "none"
  BY DEF InStages
<1> QED BY <1>1, ContextType, Order DEF IInv, InStages, TypeOK, Rows

LEMMA SkipStageStep == ASSUME IInv, SkipStage PROVE IInv'
<1>1. /\ context.pc = "stages" /\ context \in Contexts
      /\ context.at \in 1 .. 9 /\ context.parsed \in BOOLEAN /\ context.out \in Rows
  BY InTheStages DEF SkipStage
<1>2. /\ context'.pc = "stages" /\ context'.at = context.at + 1
      /\ context'.parsed = context.parsed /\ context'.out = context.out
      /\ context' \in Contexts
  BY <1>1, Order DEF SkipStage, Contexts
<1>3. TypeOK'
  BY <1>2 DEF IInv, TypeOK, SkipStage
<1>4. Ordered(stored.stages)' /\ AttemptsLeft' /\ FirstAttemptIsComplete'
  BY DEF IInv, SkipStage, Ordered, AttemptsLeft, FirstAttemptIsComplete, Reference
<1>5. ContextFollows'
  <2> SUFFICES ASSUME NEW k \in Positions
               PROVE  context.out.stages[k] = IF k < context.at + 1 THEN "done"
                                              ELSE stored.stages[k]
    BY <1>2 DEF ContextFollows, SkipStage
  <2>1. context.out.stages[k] = IF k < context.at THEN "done" ELSE stored.stages[k]
    BY <1>1 DEF IInv, ContextFollows
  <2>2. k \in 1 .. 9
    BY Order
  <2> QED BY <1>1, <2>1, <2>2 DEF SkipStage, AlreadyDone
<1>6. job.attempts # 1
  <2> SUFFICES ASSUME job.attempts = 1 PROVE FALSE
    OBVIOUS
  <2>1. stored = NoRows
    BY <1>1 DEF IInv, FirstAttempt
  <2>2. context.at \in Positions
    BY <1>1, Order
  <2>3. context.out.stages[context.at] = "pending"
    BY <1>1, <2>1, <2>2 DEF IInv, ContextFollows, NoRows
  <2> QED BY <2>3 DEF SkipStage, AlreadyDone
<1>7. FirstAttempt'
  BY <1>1, <1>6 DEF IInv, FirstAttempt, SkipStage, NoContext
<1> QED BY <1>3, <1>4, <1>5, <1>7 DEF IInv

LEMMA RunStageStep == ASSUME IInv, RunStage PROVE IInv'
<1> DEFINE p == Produced(context.at, context.out, context.parsed)
<1>1. /\ context.pc = "stages" /\ context \in Contexts
      /\ context.at \in 1 .. 9 /\ context.parsed \in BOOLEAN /\ context.out \in Rows
  BY InTheStages DEF RunStage
<1>2. p \in Rows /\ p.stages = context.out.stages
  BY <1>1, Order, ProducedType DEF IInv
<1>3. /\ context'.pc = "stages" /\ context'.at = context.at + 1
      /\ context'.parsed = (context.parsed \/ StageOrder[context.at] = "s1_parse")
      /\ context'.out = [p EXCEPT !.stages[context.at] = "done"]
      /\ context' = [context EXCEPT !.at = context.at + 1, !.parsed = context'.parsed,
                                    !.out = context'.out]
  BY <1>1 DEF RunStage, Contexts
<1> HIDE DEF p
<1>4. /\ context'.out \in Rows
      /\ context'.out.stages = [context.out.stages EXCEPT ![context.at] = "done"]
  BY <1>1, <1>2, <1>3, Order DEF Rows, StageStatuses
<1>5. context' \in Contexts
  <2>1. context'.parsed \in BOOLEAN
    BY <1>1, <1>3
  <2>2. context'.at \in 1 .. 10
    BY <1>1, <1>3
  <2>3. context' = [pc |-> context.pc, at |-> context'.at, parsed |-> context'.parsed,
                    out |-> context'.out]
    <3> DEFINE a == context'.at
               b == context'.parsed
               c == context'.out
    <3>1. context' = [context EXCEPT !.at = a, !.parsed = b, !.out = c]
      BY <1>3
    <3> HIDE DEF a, b, c
    <3>2. context' = [pc |-> context.pc, at |-> a, parsed |-> b, out |-> c]
      BY <1>1, <3>1 DEF Contexts
    <3> QED BY <3>2 DEF a, b, c
  <2> QED BY <1>1, <1>4, <2>1, <2>2, <2>3, Order DEF Contexts
<1>6. TypeOK'
  BY <1>5 DEF IInv, TypeOK, RunStage
<1>7. Ordered(stored.stages)' /\ AttemptsLeft' /\ FirstAttemptIsComplete'
  BY DEF IInv, RunStage, Ordered, AttemptsLeft, FirstAttemptIsComplete, Reference
<1>8. ContextFollows'
  <2> SUFFICES ASSUME NEW k \in Positions
               PROVE  context'.out.stages[k] = IF k < context.at + 1 THEN "done"
                                               ELSE stored.stages[k]
    BY <1>3 DEF ContextFollows, RunStage
  <2>1. context.out.stages[k] = IF k < context.at THEN "done" ELSE stored.stages[k]
    BY <1>1 DEF IInv, ContextFollows
  <2>2. k \in 1 .. 9
    BY Order
  <2>3. context.out.stages \in [Positions -> StageStatuses]
    BY <1>1 DEF Rows
  <2> QED BY <1>1, <1>4, <2>1, <2>2, <2>3
<1>9. FirstAttempt'
  <2>1. UNCHANGED <<delivery, job, stored, status>>
    BY DEF RunStage
  <2>2. CASE job.attempts = 1
    <3>1. stored = NoRows /\ status = "running"
      BY <1>1, <2>2 DEF IInv, FirstAttempt
    <3>2. TracesOf' = TracesOf /\ FindingsBefore(context.at)' = FindingsBefore(context'.at)
      BY <2>1 DEF TracesOf, FindingsBefore, Implemented
    <3> QED BY <2>1, <2>2, <3>1, <3>2, FirstAttemptRuns DEF FirstAttempt
  <2>3. CASE job.attempts # 1
    BY <1>1, <2>1, <2>3 DEF IInv, FirstAttempt, NoContext
  <2> QED BY <2>2, <2>3
<1> QED BY <1>6, <1>7, <1>8, <1>9 DEF IInv

\* After a failure the stages before it are done and those after it are pending.
LEMMA FailedStages ==
    ASSUME IInv, StageFails
    PROVE  \A k \in Positions :
              stored'.stages[k] = IF k < context.at THEN "done"
                                  ELSE IF k = context.at THEN "failed" ELSE "pending"
<1>1. /\ context.pc = "stages" /\ context.at \in 1 .. 9 /\ context.out \in Rows
      /\ context.out.stages \in [Positions -> StageStatuses]
  BY InTheStages DEF StageFails
<1>2. stored'.stages = [context.out.stages EXCEPT ![context.at] = "failed"]
  BY <1>1 DEF StageFails, Rows
<1> SUFFICES ASSUME NEW k \in Positions
             PROVE  stored'.stages[k] = IF k < context.at THEN "done"
                                        ELSE IF k = context.at THEN "failed" ELSE "pending"
  OBVIOUS
<1>3. context.out.stages[k] = IF k < context.at THEN "done" ELSE stored.stages[k]
  BY <1>1 DEF IInv, ContextFollows
<1>4. k \in 1 .. 9 /\ context.at \in Positions
  BY <1>1, Order
<1>5. stored.stages[context.at] # "done"
  BY <1>1, <1>4 DEF IInv, ContextFollows, StageFails, AlreadyDone
<1>6. context.at < k => stored.stages[k] = "pending"
  BY <1>4, <1>5 DEF IInv, Ordered
<1> QED BY <1>1, <1>2, <1>3, <1>4, <1>6

LEMMA StageFailsStep == ASSUME IInv, StageFails PROVE IInv'
<1>1. /\ context.pc = "stages" /\ context \in Contexts
      /\ context.at \in 1 .. 9 /\ context.out \in Rows
      /\ context.out.stages \in [Positions -> StageStatuses]
  BY InTheStages DEF StageFails
<1>2. /\ stored' = [context.out EXCEPT !.stages[context.at] = "failed"]
      /\ context' = [context EXCEPT !.pc = "raised", !.out = stored']
  BY <1>1 DEF StageFails
<1>3. stored' \in Rows
  BY <1>1, <1>2, Order DEF Rows, StageStatuses
<1>4. context' \in Contexts /\ context'.pc = "raised"
  BY <1>1, <1>2, <1>3 DEF Contexts
<1>5. TypeOK'
  BY <1>3, <1>4 DEF IInv, TypeOK, StageFails
<1>6. Ordered(stored'.stages)
  <2> SUFFICES ASSUME NEW i \in Positions, NEW k \in Positions, i < k,
                      stored'.stages[i] # "done"
               PROVE  stored'.stages[k] = "pending"
    BY DEF Ordered
  <2>1. i \in 1 .. 9 /\ k \in 1 .. 9
    BY Order
  <2>2. ~(i < context.at)
    BY FailedStages
  <2>3. ~(k < context.at) /\ k # context.at
    BY <1>1, <2>1, <2>2
  <2> QED BY <2>3, FailedStages
<1>7. job.attempts # 0
  BY <1>1 DEF IInv, FirstAttempt, NoContext
<1> QED BY <1>4, <1>5, <1>6, <1>7 DEF IInv, StageFails, AttemptsLeft, ContextFollows,
        FirstAttempt, FirstAttemptIsComplete

LEMMA SaveStep == ASSUME IInv, Save PROVE IInv'
<1>1. /\ context.pc = "stages" /\ context \in Contexts /\ context.at = 10
      /\ context.out \in Rows
  BY ContextType, Order DEF IInv, Save
<1>2. context' \in Contexts /\ context'.pc = "saved"
  BY <1>1 DEF Save, Contexts
<1>3. TypeOK'
  BY <1>1, <1>2 DEF IInv, TypeOK, Save
<1>4. \A k \in Positions : stored'.stages[k] = "done"
  BY <1>1, Order DEF IInv, ContextFollows, Save
<1>5. Ordered(stored.stages)' /\ ContextFollows'
  BY <1>2, <1>4 DEF Ordered, ContextFollows
<1>6. job.attempts # 0
  BY <1>1 DEF IInv, FirstAttempt, NoContext
<1>7. FirstAttempt'
  BY <1>2, <1>6 DEF FirstAttempt, Save
<1>8. FirstAttemptIsComplete'
  <2> SUFFICES ASSUME job.attempts = 1 PROVE context.out.findings = Reference
    BY DEF FirstAttemptIsComplete, Save, Reference
  <2>1. context.out.findings = FindingsBefore(context.at)
    BY <1>1 DEF IInv, FirstAttempt
  <2>2. FindingsBefore(10) = Reference
    BY AllFindings DEF IInv
  <2> QED BY <1>1, <2>1, <2>2
<1> QED BY <1>3, <1>5, <1>7, <1>8 DEF IInv, AttemptsLeft, Save

\* A worker that leaves its run, whatever becomes of the job.
LEMMA LeaveStep ==
    ASSUME IInv, context.pc # "none", context' = NoContext, UNCHANGED <<delivery, stored>>,
           job'.attempts = job.attempts, status' = "needs_review" => status = "needs_review",
           TypeOK', AttemptsLeft'
    PROVE  IInv'
<1>1. job.attempts # 0
  BY DEF IInv, FirstAttempt, NoContext
<1>2. context'.pc = "none"
  BY DEF NoContext
<1>3. FirstAttemptIsComplete'
  BY ZenonT(60) DEF IInv, FirstAttemptIsComplete, Reference
<1> QED BY <1>1, <1>2, <1>3 DEF IInv, Ordered, ContextFollows, FirstAttempt

LEMMA FinishStep == ASSUME IInv, Finish PROVE IInv'
<1>1. job' = [job EXCEPT !.status = "done"] /\ job'.attempts = job.attempts
      /\ job'.status = "done"
  BY DEF IInv, TypeOK, Finish
<1>2. TypeOK' /\ AttemptsLeft'
  BY <1>1 DEF IInv, TypeOK, Finish, AttemptsLeft
<1> QED BY <1>1, <1>2, LeaveStep DEF Finish

\* The job of a worker that failed or died waits again, unless its attempts are spent.
LEMMA JobAfter ==
    ASSUME IInv, job' = [job EXCEPT !.status = IF MayRetry THEN "queued" ELSE "failed"]
    PROVE  /\ job' \in [status : {"queued", "running", "done", "failed"},
                        attempts : 0 .. MaxAttempts]
           /\ job'.attempts = job.attempts /\ AttemptsLeft'
BY DEF IInv, TypeOK, MayRetry, AttemptsLeft

LEMMA HandleFailureStep == ASSUME IInv, HandleFailure PROVE IInv'
<1>1. /\ job' \in [status : {"queued", "running", "done", "failed"}, attempts : 0 .. MaxAttempts]
      /\ job'.attempts = job.attempts /\ AttemptsLeft'
  BY JobAfter DEF HandleFailure
<1>2. status' \in {"queued", "failed"}
  BY DEF HandleFailure
<1>3. TypeOK'
  BY <1>1, <1>2 DEF IInv, TypeOK, HandleFailure
<1> QED BY <1>1, <1>2, <1>3, LeaveStep DEF HandleFailure

LEMMA CrashStep == ASSUME IInv, Crash PROVE IInv'
<1>1. /\ job' \in [status : {"queued", "running", "done", "failed"}, attempts : 0 .. MaxAttempts]
      /\ job'.attempts = job.attempts /\ AttemptsLeft'
  BY JobAfter DEF Crash
<1>2. status' \in {status, "failed"}
  BY DEF Crash
<1>3. TypeOK'
  BY <1>1, <1>2 DEF IInv, TypeOK, Crash
<1> QED BY <1>1, <1>2, <1>3, LeaveStep DEF Crash

LEMMA NextStep == IInv /\ [Next]_vars => IInv'
<1> SUFFICES ASSUME IInv, [Next]_vars PROVE IInv'
  OBVIOUS
<1>1. CASE UNCHANGED vars
  <2>1. TypeOK' /\ AttemptsLeft' /\ Ordered(stored.stages)' /\ ContextFollows'
    BY <1>1 DEF vars, IInv, TypeOK, AttemptsLeft, Ordered, ContextFollows
  <2>2. FirstAttemptIsComplete'
    BY <1>1 DEF vars, IInv, FirstAttemptIsComplete, Reference
  <2>3. TracesOf' = TracesOf /\ FindingsBefore(context.at)' = FindingsBefore(context.at)
    BY <1>1 DEF vars, TracesOf, FindingsBefore, Implemented
  <2>4. FirstAttempt'
    BY <1>1, <2>3 DEF vars, IInv, FirstAttempt
  <2> QED BY <2>1, <2>2, <2>4 DEF IInv
<1> QED BY <1>1, StartStep, SkipStageStep, RunStageStep, StageFailsStep, SaveStep, FinishStep,
        HandleFailureStep, CrashStep DEF Next

-----------------------------------------------------------------------------
(* The theorems. *)

THEOREM Invariance == Spec => []IInv
<1> QED BY InitIInv, NextStep, PTL DEF Spec

\* The run's rows, its job and the worker's context hold values of their types, whatever
\* fails or dies.
THEOREM TypeCorrect == Spec => []TypeOK
<1>1. IInv => TypeOK
  BY DEF IInv
<1> QED BY <1>1, Invariance, PTL

\* A run that was never interrupted shows exactly what the documents say, for every
\* delivery, however many requirements and elements it has.
THEOREM FirstAttemptsAreComplete == Spec => []FirstAttemptIsComplete
<1>1. IInv => FirstAttemptIsComplete
  BY DEF IInv
<1> QED BY <1>1, Invariance, PTL

\* The record of a run that failed says where it stopped.
THEOREM RecordsSayWhereTheyStopped == Spec => []RecordSaysWhereItStopped
<1>1. IInv => RecordSaysWhereItStopped
  <2> SUFFICES ASSUME IInv, NEW i \in Positions, stored.stages[i] = "failed", NEW k \in Positions
               PROVE  stored.stages[k] = (IF k < i THEN "done"
                                          ELSE IF k = i THEN "failed" ELSE "pending")
    BY DEF RecordSaysWhereItStopped
  <2>1. i \in 1 .. 9 /\ k \in 1 .. 9
    BY Order
  <2>2. k < i => stored.stages[k] = "done"
    BY DEF IInv, Ordered
  <2>3. i < k => stored.stages[k] = "pending"
    BY DEF IInv, Ordered
  <2> QED BY <2>1, <2>2, <2>3
<1> QED BY <1>1, Invariance, PTL

LEMMA DoneStep ==
    ASSUME IInv, [Next]_vars, NEW i \in Positions, stored.stages[i] = "done"
    PROVE  stored'.stages[i] = "done"
<1>1. CASE StageFails
  <2>1. context.pc = "stages" /\ context.at \in 1 .. 9 /\ i \in 1 .. 9
    BY <1>1, InTheStages, Order DEF StageFails
  <2>2. context.at \in Positions /\ stored.stages[context.at] # "done"
    BY <1>1, <2>1, Order DEF IInv, ContextFollows, StageFails, AlreadyDone
  <2>3. i < context.at
    BY <2>1, <2>2 DEF IInv, Ordered
  <2> QED BY <1>1, <2>3, FailedStages
<1>2. CASE Save
  <2>1. context.pc = "stages" /\ context.at = 10 /\ i \in 1 .. 9
    BY <1>2, Order DEF Save
  <2> QED BY <1>2, <2>1 DEF IInv, ContextFollows, Save
<1>3. CASE UNCHANGED stored
  BY <1>3
<1> QED BY <1>1, <1>2, <1>3 DEF Next, vars, Start, SkipStage, RunStage, Finish,
        HandleFailure, Crash

\* Nothing the worker does, failing, dying or trying again, takes back a stage that
\* the run's rows say is done.
THEOREM DoneStagesStayDone == Spec => DoneStaysDone
<1>1. IInv /\ [Next]_vars =>
        [\A i \in Positions : stored.stages[i] = "done" => stored'.stages[i] = "done"]_vars
  BY DoneStep
<1> QED BY <1>1, Invariance, PTL DEF Spec, DoneStaysDone

----------------------------------------------------------------------------
(* What the stages' items come to (Opinions).                               *)
(*                                                                          *)
(* Every item of the stages is still to do or dealt with: what it brings    *)
(* with some answer is among the findings, at most softened by a second     *)
(* opinion, and the answer left what it must leave: words, a notice, a      *)
(* place among what was heard.  The properties then are about what one item *)
(* brings.                                                                  *)

IsFinding(f) ==
    f = [about |-> f.about, type |-> f.type, severity |-> f.severity, shadow |-> f.shadow,
         engine |-> f.engine, verified |-> f.verified]
AreFindings(s) == IsSeq(s) /\ \A i \in DOMAIN s : IsFinding(s[i])

LEMMA MadeAreFindings ==
    /\ \A step, of, n, type, severity, shadow, engine :
           /\ IsFinding(Finding(step, of, n, type, severity, shadow, engine))
           /\ Finding(step, of, n, type, severity, shadow, engine).about = <<step, of, n>>
           /\ Finding(step, of, n, type, severity, shadow, engine).type = type
           /\ Finding(step, of, n, type, severity, shadow, engine).severity = severity
    /\ \A step, of, n, type, severity :
           /\ IsFinding(Built(step, of, n, type, severity))
           /\ Built(step, of, n, type, severity).about = <<step, of, n>>
           /\ Built(step, of, n, type, severity).type = type
           /\ Built(step, of, n, type, severity).severity = severity
    /\ \A step, rule, n, type, severity, engine :
           /\ IsFinding(OfRule(step, rule, n, type, severity, engine))
           /\ OfRule(step, rule, n, type, severity, engine).about = <<step, rule.ref, n>>
           /\ OfRule(step, rule, n, type, severity, engine).type = type
           /\ OfRule(step, rule, n, type, severity, engine).severity = severity
BY DEF IsFinding, Finding, Built, OfRule

LEMMA FewAreFindings == AreFindings(<<>>) /\ \A f : IsFinding(f) => AreFindings(<<f>>)
BY ShortSeqs DEF AreFindings

LEMMA FindingsJoined ==
    ASSUME NEW s, AreFindings(s), NEW t, AreFindings(t)
    PROVE  AreFindings(s \o t)
<1>1. IsSeq(s \o t) /\ \A x : Occurs(x, s \o t) => Occurs(x, s) \/ Occurs(x, t)
  BY OccursInJoined DEF AreFindings
<1>2. \A x : Occurs(x, s \o t) => IsFinding(x)
  BY <1>1 DEF AreFindings, Occurs
<1> QED BY <1>1, <1>2 DEF AreFindings, Occurs

LEMMA FindingsFlattened ==
    ASSUME NEW s, IsSeq(s), \A i \in DOMAIN s : AreFindings(s[i])
    PROVE  AreFindings(FlattenSeq(s))
<1>1. IsSeq(FlattenSeq(s))
      /\ \A x : Occurs(x, FlattenSeq(s)) => \E i \in DOMAIN s : Occurs(x, s[i])
  BY OccursInFlattened DEF AreFindings
<1>2. \A x : Occurs(x, FlattenSeq(s)) => IsFinding(x)
  BY <1>1 DEF AreFindings, Occurs
<1> QED BY <1>1, <1>2 DEF AreFindings, Occurs

\* The findings of an item of the stages, with what the model answered.
Brings(d, item, a) ==
    CASE item.step = "reverse" -> ReverseFindings(d)
      [] item.step = "compliance" -> ComplianceFindings(d, d.compliance[item.n], a)
      [] item.step = "derived" -> DerivedAll(d, d.derived[item.n])
      [] item.step = "beyond" -> BeyondFindings(d)
      [] item.step = "programme" -> ProgrammeFindings(d, a)
      [] item.step = "credit" -> CreditFindings(d)
      [] item.step = "count" -> CountFindings(d)
      [] item.step = "constraint" -> ConstraintFindings(d, d.constraints[item.n])
      [] item.step = "check" ->
           IF d.checks[item.n].kind = "judgment"
           THEN JudgmentFindings(d, d.checks[item.n], a)
           ELSE ExpressionFindings(d, d.checks[item.n])
      [] item.step = "shape" -> ShapeFindings(d, a)
      [] item.step = "rules" -> BreachFindings(d, a)
      [] item.step = "gaps" -> GapFindings(d, a)

OfTheStages(d, item) ==
    \/ item.step \in {"reverse", "beyond", "programme", "credit", "count", "shape", "rules", "gaps"}
    \/ item.step = "compliance" /\ item.n \in DOMAIN d.compliance
    \/ item.step = "derived" /\ item.n \in DOMAIN d.derived
    \/ item.step = "constraint" /\ item.n \in DOMAIN d.constraints
    \/ item.step = "check" /\ item.n \in DOMAIN d.checks

LEMMA ItemFacts ==
    \A step, n : Item(step, n).step = step /\ Item(step, n).n = n
BY DEF Item

LEMMA OnceFacts ==
    ASSUME NEW step, NEW asked \in BOOLEAN
    PROVE  IsSeq(Once(step, asked)) /\ \A x : Occurs(x, Once(step, asked)) => x = Item(step, 0)
<1>1. CASE asked
  BY <1>1, ShortSeqs, OccursInShort DEF Once
<1>2. CASE ~asked
  BY <1>2, ShortSeqs, OccursInShort DEF Once
<1> QED BY <1>1, <1>2

LEMMA EachFacts ==
    ASSUME NEW step, NEW of, IsSeq(of)
    PROVE  /\ IsSeq(Each(step, of))
           /\ \A x : Occurs(x, Each(step, of)) <=> \E n \in DOMAIN of : x = Item(step, n)
<1> DEFINE t == [n \in DOMAIN of |-> Item(step, n)]
<1>1. IsSeq(t) /\ \A x : Occurs(x, t) <=> \E n \in DOMAIN of : x = t[n]
  <2>1. t = [n \in DOMAIN of |-> t[n]]
    OBVIOUS
  <2> HIDE DEF t
  <2> QED BY <2>1, OccursAlong
<1> QED BY <1>1 DEF Each

LEMMA ItemsFacts ==
    ASSUME NEW d \in Orders
    PROVE  /\ IsSeq(Items(d))
           /\ \A x : Occurs(x, Items(d)) => OfTheStages(d, x)
           /\ \A n \in DOMAIN d.compliance : Occurs(Item("compliance", n), Items(d))
           /\ \A n \in DOMAIN d.derived : Occurs(Item("derived", n), Items(d))
           /\ \A n \in DOMAIN d.constraints : Occurs(Item("constraint", n), Items(d))
           /\ \A n \in DOMAIN d.checks : Occurs(Item("check", n), Items(d))
<1> DEFINE s01 == Once("reverse", TRUE)
           s02 == Each("compliance", d.compliance)
           s03 == Each("derived", d.derived)
           s04 == Once("beyond", TRUE)
           s05 == Once("programme", TRUE)
           s06 == Once("credit", TRUE)
           s07 == Once("count", TRUE)
           s08 == Each("constraint", d.constraints)
           s09 == Each("check", d.checks)
           s10 == Once("shape", d.shape # {})
           s11 == Once("rules", d.rules # <<>>)
           s12 == Once("gaps", d.lenses # {})
           t02 == s01 \o s02
           t03 == t02 \o s03
           t04 == t03 \o s04
           t05 == t04 \o s05
           t06 == t05 \o s06
           t07 == t06 \o s07
           t08 == t07 \o s08
           t09 == t08 \o s09
           t10 == t09 \o s10
           t11 == t10 \o s11
           t12 == t11 \o s12
           ok(s) == IsSeq(s) /\ \A x : Occurs(x, s) => OfTheStages(d, x)
<1>1. /\ IsSeq(d.compliance) /\ IsSeq(d.derived) /\ IsSeq(d.constraints) /\ IsSeq(d.checks)
  BY OrdersAssumption
<1>2. ok(s01) /\ ok(s04) /\ ok(s05) /\ ok(s06) /\ ok(s07) /\ ok(s10) /\ ok(s11) /\ ok(s12)
  <2>1. ASSUME NEW step \in {"reverse", "beyond", "programme", "credit", "count", "shape", "rules",
                            "gaps"},
               NEW asked \in BOOLEAN
        PROVE  ok(Once(step, asked))
    BY OnceFacts, ItemFacts DEF OfTheStages
  <2> HIDE DEF ok
  <2> QED BY <2>1
<1>3. ok(s02) /\ \A n \in DOMAIN d.compliance : Occurs(Item("compliance", n), s02)
  BY <1>1, EachFacts, ItemFacts DEF OfTheStages
<1>4. ok(s03) /\ \A n \in DOMAIN d.derived : Occurs(Item("derived", n), s03)
  BY <1>1, EachFacts, ItemFacts DEF OfTheStages
<1>5. ok(s08) /\ \A n \in DOMAIN d.constraints : Occurs(Item("constraint", n), s08)
  BY <1>1, EachFacts, ItemFacts DEF OfTheStages
<1>6. ok(s09) /\ \A n \in DOMAIN d.checks : Occurs(Item("check", n), s09)
  BY <1>1, EachFacts, ItemFacts DEF OfTheStages
<1> HIDE DEF s01, s02, s03, s04, s05, s06, s07, s08, s09, s10, s11, s12
<1>7. \A s, t : ok(s) /\ ok(t) =>
          ok(s \o t) /\ \A x : Occurs(x, s) \/ Occurs(x, t) => Occurs(x, s \o t)
  BY OccursInJoined
<1> HIDE DEF ok
<1>12. ok(t02) /\ \A x : Occurs(x, s02) => Occurs(x, t02)
  BY <1>2, <1>3, <1>7
<1> HIDE DEF t02
<1>13. ok(t03) /\ \A x : Occurs(x, t02) \/ Occurs(x, s03) => Occurs(x, t03)
  BY <1>12, <1>4, <1>7
<1> HIDE DEF t03
<1>14. ok(t04) /\ \A x : Occurs(x, t03) => Occurs(x, t04)
  BY <1>13, <1>2, <1>7
<1> HIDE DEF t04
<1>15. ok(t05) /\ \A x : Occurs(x, t04) => Occurs(x, t05)
  BY <1>14, <1>2, <1>7
<1> HIDE DEF t05
<1>16. ok(t06) /\ \A x : Occurs(x, t05) => Occurs(x, t06)
  BY <1>15, <1>2, <1>7
<1> HIDE DEF t06
<1>17. ok(t07) /\ \A x : Occurs(x, t06) => Occurs(x, t07)
  BY <1>16, <1>2, <1>7
<1> HIDE DEF t07
<1>18. ok(t08) /\ \A x : Occurs(x, t07) \/ Occurs(x, s08) => Occurs(x, t08)
  BY <1>17, <1>5, <1>7
<1> HIDE DEF t08
<1>19. ok(t09) /\ \A x : Occurs(x, t08) \/ Occurs(x, s09) => Occurs(x, t09)
  BY <1>18, <1>6, <1>7
<1> HIDE DEF t09
<1>20. ok(t10) /\ \A x : Occurs(x, t09) => Occurs(x, t10)
  BY <1>19, <1>2, <1>7
<1> HIDE DEF t10
<1>21. ok(t11) /\ \A x : Occurs(x, t10) => Occurs(x, t11)
  BY <1>20, <1>2, <1>7
<1> HIDE DEF t11
<1>22. ok(t12) /\ \A x : Occurs(x, t11) => Occurs(x, t12)
  BY <1>21, <1>2, <1>7
<1> HIDE DEF t12
<1>23. Items(d) = t12
  BY DEF Items, s01, s02, s03, s04, s05, s06, s07, s08, s09, s10, s11, s12,
         t02, t03, t04, t05, t06, t07, t08, t09, t10, t11, t12
<1>24. /\ \A x : Occurs(x, s02) => Occurs(x, t12)
       /\ \A x : Occurs(x, s03) => Occurs(x, t12)
       /\ \A x : Occurs(x, s08) => Occurs(x, t12)
       /\ \A x : Occurs(x, s09) => Occurs(x, t12)
  BY <1>12, <1>13, <1>14, <1>15, <1>16, <1>17, <1>18, <1>19, <1>20, <1>21, <1>22
<1> QED BY <1>22, <1>23, <1>24, <1>3, <1>4, <1>5, <1>6 DEF ok

----------------------------------------------------------------------------
(* The verdicts are among those the code tells apart *)

LEMMA EvaluateIsOneOfFive ==
    \A e, values :
        EvaluateCheck(e, values) \in {"passed", "failed", "unresolved", "invalid", "raises"}
BY DEF EvaluateCheck, Failed

LEMMA ControlStates ==
    \A rule, blocks : ControlState(rule, blocks) \in {"absent", "different", "present"}
BY DEF ControlState

LEMMA ColumnsAreInOrder ==
    ASSUME NEW spec, NEW reports, IsSeq(reports), \A i \in DOMAIN reports : IsSeq(reports[i].sheets)
    PROVE  IsSeq(ColumnsOf(spec, reports))
<1> DEFINE carrying(i) == Kept(reports[i].sheets,
                               {s \in ToSet(reports[i].sheets) : spec.field \in DOMAIN s})
           column(i) == IF spec.kinds # {} /\ reports[i].kind \notin spec.kinds THEN <<>>
                        ELSE [k \in DOMAIN carrying(i) |-> carrying(i)[k][spec.field]]
           columns == [i \in DOMAIN reports |-> column(i)]
<1>1. \A i \in DOMAIN reports : IsSeq(column(i))
  <2> SUFFICES ASSUME NEW i \in DOMAIN reports PROVE IsSeq(column(i))
    OBVIOUS
  <2>1. IsSeq(carrying(i))
    BY OccursInKept
  <2> HIDE DEF carrying
  <2> DEFINE t == [k \in DOMAIN carrying(i) |-> carrying(i)[k][spec.field]]
  <2>2. t = [k \in DOMAIN carrying(i) |-> t[k]]
    OBVIOUS
  <2> HIDE DEF t
  <2>3. IsSeq(t)
    BY <2>1, <2>2, OccursAlong
  <2> QED BY <2>3, ShortSeqs DEF t
<1> HIDE DEF column
<1>2. columns = [i \in DOMAIN reports |-> columns[i]] /\ \A i \in DOMAIN columns : IsSeq(columns[i])
  BY <1>1
<1> HIDE DEF columns
<1>3. IsSeq(columns)
  BY <1>2, OccursAlong
<1>4. IsSeq(FlattenSeq(columns))
  BY <1>2, <1>3, OccursInFlattened
<1> QED BY <1>4 DEF columns, column, carrying, ColumnsOf

Constraints6 == {"not_blank", "fill_rate_min", "allowed_values", "forbidden_values", "range", "format"}

LEMMA CellsAreJudged ==
    ASSUME NEW spec, spec.constraint \in Constraints6, NEW cells
    PROVE  /\ CheckValues(spec, cells) \in {"passed", "failed", "unread"}
           /\ cells = <<>> => CheckValues(spec, cells) = "unread"
<1>1. CASE cells = <<>>
  BY <1>1, Zenon DEF CheckValues
<1>2. CASE cells # <<>> /\ spec.value = Unusable
  BY <1>2, Zenon DEF CheckValues
<1>3. CASE ~(cells = <<>> \/ spec.value = Unusable)
  <2>1. CASE spec.constraint = "not_blank"
    BY <1>3, <2>1 DEF CheckValues
  <2>2. CASE spec.constraint = "fill_rate_min"
    BY <1>3, <2>2 DEF CheckValues
  <2>3. CASE spec.constraint = "allowed_values"
    BY <1>3, <2>3 DEF CheckValues
  <2>4. CASE spec.constraint = "forbidden_values"
    BY <1>3, <2>4 DEF CheckValues
  <2>5. CASE spec.constraint = "range"
    BY <1>3, <2>5 DEF CheckValues
  <2>6. CASE spec.constraint = "format"
    BY <1>3, <2>6 DEF CheckValues
  <2> QED BY <2>1, <2>2, <2>3, <2>4, <2>5, <2>6, <1>3 DEF Constraints6
<1> QED BY <1>1, <1>2, <1>3

LEMMA ConstraintIsJudged ==
    ASSUME NEW spec, spec.constraint \in Constraints6, NEW reports, IsSeq(ColumnsOf(spec, reports))
    PROVE  LET verdicts == ConstraintVerdicts(spec, reports)
               columns == ColumnsOf(spec, reports)
           IN  /\ IsSeq(verdicts)
               /\ \A i \in DOMAIN verdicts : verdicts[i] \in {"passed", "failed", "unread"}
               /\ columns = <<>> => 1 \in DOMAIN verdicts /\ verdicts[1] = "unread"
               /\ \A i \in DOMAIN columns :
                      columns[i] = <<>> => i \in DOMAIN verdicts /\ verdicts[i] = "unread"
<1> DEFINE columns == ColumnsOf(spec, reports)
           t == [i \in DOMAIN columns |-> CheckValues(spec, columns[i])]
<1>1. CASE columns = <<>>
  <2>1. ConstraintVerdicts(spec, reports) = <<"unread">>
    BY <1>1 DEF ConstraintVerdicts
  <2> QED BY <1>1, <2>1, ShortSeqs
<1>2. CASE columns # <<>>
  <2>1. ConstraintVerdicts(spec, reports) = t
    BY <1>2 DEF ConstraintVerdicts
  <2>2. t = [i \in DOMAIN columns |-> t[i]]
    OBVIOUS
  <2>3. /\ \A i \in DOMAIN columns : t[i] \in {"passed", "failed", "unread"}
        /\ \A i \in DOMAIN columns : columns[i] = <<>> => t[i] = "unread"
    BY CellsAreJudged
  <2> HIDE DEF t
  <2>4. IsSeq(t) /\ DOMAIN t = DOMAIN columns
    BY <2>2, AlongSeq
  <2> QED BY <1>2, <2>1, <2>3, <2>4
<1> QED BY <1>1, <1>2

----------------------------------------------------------------------------
(* The views, and what each item brings *)

LEMMA PartsInOrder ==
    ASSUME NEW d \in Orders, NEW r \in DOMAIN d.reports
    PROVE  /\ IsSeq(d.reports[r].parts) /\ 1 \in DOMAIN d.reports[r].parts
           /\ Len(d.reports[r].parts) \in Nat
           /\ \A p \in DOMAIN d.reports[r].parts : IsSeq(d.reports[r].parts[p])
           /\ r \notin Several(d) => DOMAIN d.reports[r].parts = {1}
<1>1. /\ IsSeq(d.reports[r].parts) /\ d.reports[r].parts # <<>>
      /\ \A p \in DOMAIN d.reports[r].parts : IsSeq(d.reports[r].parts[p])
  BY OrdersAssumption DEF ToSet
<1>2. 1 \in DOMAIN d.reports[r].parts /\ DOMAIN d.reports[r].parts = 1..Len(d.reports[r].parts)
      /\ Len(d.reports[r].parts) \in Nat
  BY <1>1, RestOfSeq, SeqIn
<1> QED BY <1>1, <1>2 DEF Several

LEMMA ViewFacts ==
    \A r, p : /\ PartIn(View(r, p), r) = p
              /\ \A o : o # r => PartIn(View(r, p), o) = 1
BY DEF View, PartIn

LEMMA ViewsCoverTheParts ==
    ASSUME NEW d \in Orders
    PROVE  /\ IsSeq(Views(d))
           /\ \A v \in DOMAIN Views(d) : \A r \in DOMAIN d.reports :
                  PartIn(Views(d)[v], r) \in DOMAIN d.reports[r].parts
           /\ \A r \in DOMAIN d.reports : \A p \in DOMAIN d.reports[r].parts :
                  \E v \in DOMAIN Views(d) : PartIn(Views(d)[v], r) = p
<1>1. CASE Several(d) = {}
  <2>1. Views(d) = <<View(1, 1)>>
    BY <1>1 DEF Views
  <2>2. IsSeq(Views(d)) /\ DOMAIN Views(d) = {1} /\ Views(d)[1] = View(1, 1)
    BY <2>1, ShortSeqs
  <2>3. \A r \in DOMAIN d.reports : PartIn(View(1, 1), r) = 1
    BY ViewFacts
  <2>4. \A r \in DOMAIN d.reports : DOMAIN d.reports[r].parts = {1}
    BY <1>1, PartsInOrder
  <2> HIDE DEF Views
  <2> QED BY <2>2, <2>3, <2>4
<1>2. CASE Several(d) # {}
  <2> DEFINE of(i) == IF i \in Several(d) THEN [p \in DOMAIN d.reports[i].parts |-> View(i, p)]
                      ELSE <<>>
             t == [i \in DOMAIN d.reports |-> of(i)]
  <2>1. \A i \in DOMAIN d.reports :
            /\ IsSeq(of(i))
            /\ \A x : Occurs(x, of(i)) <=>
                   i \in Several(d) /\ \E p \in DOMAIN d.reports[i].parts : x = View(i, p)
    <3> SUFFICES ASSUME NEW i \in DOMAIN d.reports
                 PROVE  /\ IsSeq(of(i))
                        /\ \A x : Occurs(x, of(i)) <=>
                               i \in Several(d) /\ \E p \in DOMAIN d.reports[i].parts : x = View(i, p)
      OBVIOUS
    <3>1. CASE i \in Several(d)
      <4> DEFINE s == d.reports[i].parts
                 u == [p \in DOMAIN s |-> View(i, p)]
      <4>1. IsSeq(s)
        BY PartsInOrder
      <4>2. u = [p \in DOMAIN s |-> u[p]] /\ \A p \in DOMAIN s : u[p] = View(i, p)
        OBVIOUS
      <4>3. of(i) = u
        BY <3>1
      <4> HIDE DEF u, s, of
      <4>4. IsSeq(u) /\ \A x : Occurs(x, u) <=> \E p \in DOMAIN s : x = u[p]
        BY <4>1, <4>2, OccursAlong
      <4>5. \A x : Occurs(x, u) <=> \E p \in DOMAIN s : x = View(i, p)
        BY <4>4, <4>2
      <4> QED BY <3>1, <4>3, <4>4, <4>5 DEF s
    <3>2. CASE i \notin Several(d)
      <4>1. of(i) = <<>>
        BY <3>2
      <4> HIDE DEF of
      <4> QED BY <4>1, <3>2, ShortSeqs, OccursInShort
    <3> QED BY <3>1, <3>2
  <2>2. Views(d) = FlattenSeq(t)
    BY <1>2 DEF Views
  <2> HIDE DEF of
  <2>3. t = [i \in DOMAIN d.reports |-> t[i]] /\ DOMAIN t = DOMAIN d.reports
        /\ \A i \in DOMAIN t : t[i] = of(i)
    OBVIOUS
  <2> HIDE DEF t
  <2>4. IsSeq(t)
    BY <2>3, AlongSeq, OrdersAssumption
  <2>5. \A i \in DOMAIN t : IsSeq(t[i])
    BY <2>1, <2>3
  <2>6. IsSeq(Views(d)) /\ \A x : Occurs(x, Views(d)) <=> \E i \in DOMAIN t : Occurs(x, t[i])
    BY <2>2, <2>4, <2>5, OccursInFlattened
  <2>7. \A x : Occurs(x, Views(d)) <=>
            \E i \in Several(d) : \E p \in DOMAIN d.reports[i].parts : x = View(i, p)
    BY <2>6, <2>3, <2>1, SMTT(40) DEF Several
  <2>8. \A x : Occurs(x, Views(d)) <=> \E v \in DOMAIN Views(d) : Views(d)[v] = x
    BY DEF Occurs
  <2>9. \A v \in DOMAIN Views(d) : \A r \in DOMAIN d.reports :
            PartIn(Views(d)[v], r) \in DOMAIN d.reports[r].parts
    <3> SUFFICES ASSUME NEW v \in DOMAIN Views(d), NEW r \in DOMAIN d.reports
                 PROVE  PartIn(Views(d)[v], r) \in DOMAIN d.reports[r].parts
      OBVIOUS
    <3>1. PICK i \in Several(d) : \E p \in DOMAIN d.reports[i].parts : Views(d)[v] = View(i, p)
      BY <2>7, <2>8
    <3>2. PICK p \in DOMAIN d.reports[i].parts : Views(d)[v] = View(i, p)
      BY <3>1
    <3> QED BY <3>2, ViewFacts, PartsInOrder
  <2>10. ASSUME NEW r \in DOMAIN d.reports, NEW p \in DOMAIN d.reports[r].parts
         PROVE  \E v \in DOMAIN Views(d) : PartIn(Views(d)[v], r) = p
    <3>1. CASE r \in Several(d)
      BY <3>1, <2>7, <2>8, ViewFacts
    <3>2. CASE r \notin Several(d)
      <4>1. PICK i \in Several(d) : TRUE
        BY <1>2
      <4>2. i \in DOMAIN d.reports /\ i # r /\ p = 1 /\ 1 \in DOMAIN d.reports[i].parts
        BY <4>1, <3>2, PartsInOrder DEF Several
      <4>3. \E v \in DOMAIN Views(d) : Views(d)[v] = View(i, 1)
        BY <4>2, <2>7, <2>8
      <4> QED BY <4>2, <4>3, ViewFacts
    <3> QED BY <3>1, <3>2
  <2> QED BY <2>6, <2>9, <2>10
<1> QED BY <1>1, <1>2

\* A sequence built along another, of findings.
LEMMA FindingsAlong ==
    ASSUME NEW s, IsSeq(s), NEW t, t = [i \in DOMAIN s |-> t[i]], \A i \in DOMAIN s : IsFinding(t[i])
    PROVE  AreFindings(t)
BY AlongSeq DEF AreFindings

LEMMA DerivedVerdict ==
    ASSUME NEW d \in Orders, NEW c \in ToSet(d.derived), NEW v \in DOMAIN Views(d)
    PROVE  /\ PartIn(Views(d)[v], c.reads) \in DOMAIN c.says
           /\ c.says[PartIn(Views(d)[v], c.reads)].verdict \in {"passed", "unknown", "failed"}
<1>1. c.reads \in DOMAIN d.reports /\ DOMAIN c.says = DOMAIN d.reports[c.reads].parts
      /\ \A p \in DOMAIN c.says : c.says[p].verdict \in {"passed", "unknown", "failed"}
  BY OrdersAssumption
<1>2. PartIn(Views(d)[v], c.reads) \in DOMAIN d.reports[c.reads].parts
  BY <1>1, ViewsCoverTheParts
<1> QED BY <1>1, <1>2

LEMMA DerivedOfAView ==
    ASSUME NEW d \in Orders, NEW c \in ToSet(d.derived), NEW v \in DOMAIN Views(d)
    PROVE  /\ AreFindings(DerivedFindings(d, c, v))
           /\ c.says[PartIn(Views(d)[v], c.reads)].verdict = "failed" =>
                  \E f : /\ Occurs(f, DerivedFindings(d, c, v))
                         /\ f.about = <<"derived", c.rule, v>> /\ f.type = "report_violates_rule"
<1> DEFINE says == c.says[PartIn(Views(d)[v], c.reads)]
           found(type, severity) == <<Built("derived", c.rule, v, type, severity)>>
           first == IF says.unresolved THEN found("attribute_not_resolved", "review") ELSE <<>>
           second == CASE says.verdict = "passed" -> <<>>
                       [] says.verdict = "unknown" -> found("could_not_evaluate", "review")
                       [] says.verdict = "failed" -> found("report_violates_rule", "high")
<1>1. says.verdict \in {"passed", "unknown", "failed"}
  BY DerivedVerdict
<1>2. \A type, severity : AreFindings(found(type, severity))
  BY MadeAreFindings, FewAreFindings
<1>3. Occurs(Built("derived", c.rule, v, "report_violates_rule", "high"),
             found("report_violates_rule", "high"))
  BY OccursInShort
<1>4. DerivedFindings(d, c, v) = first \o second
  BY DEF DerivedFindings
<1> HIDE DEF found, says
<1>5. AreFindings(first)
  BY <1>2, FewAreFindings
<1>6. AreFindings(second)
  BY <1>1, <1>2, FewAreFindings
<1>7. says.verdict = "failed" => second = found("report_violates_rule", "high")
  OBVIOUS
<1> HIDE DEF first, second
<1>8. IsSeq(first) /\ IsSeq(second)
  BY <1>5, <1>6 DEF AreFindings
<1>9. \A x : Occurs(x, second) => Occurs(x, first \o second)
  BY <1>8, OccursInJoined
<1>10. AreFindings(first \o second)
  BY <1>5, <1>6, FindingsJoined
<1>11. says.verdict = "failed" =>
          Occurs(Built("derived", c.rule, v, "report_violates_rule", "high"), first \o second)
  BY <1>3, <1>7, <1>9
<1>12. Built("derived", c.rule, v, "report_violates_rule", "high").about = <<"derived", c.rule, v>>
       /\ Built("derived", c.rule, v, "report_violates_rule", "high").type = "report_violates_rule"
  BY MadeAreFindings
<1> HIDE DEF Built
<1> QED BY <1>4, <1>10, <1>11, <1>12 DEF says

LEMMA DerivedOfAll ==
    ASSUME NEW d \in Orders, NEW c \in ToSet(d.derived)
    PROVE  /\ AreFindings(DerivedAll(d, c))
           /\ \A v \in DOMAIN Views(d) : \A x :
                  Occurs(x, DerivedFindings(d, c, v)) => Occurs(x, DerivedAll(d, c))
<1> DEFINE t == [v \in DOMAIN Views(d) |-> DerivedFindings(d, c, v)]
<1>1. t = [v \in DOMAIN Views(d) |-> t[v]] /\ DOMAIN t = DOMAIN Views(d)
      /\ \A v \in DOMAIN t : t[v] = DerivedFindings(d, c, v)
  OBVIOUS
<1>2. DerivedAll(d, c) = FlattenSeq(t)
  BY DEF DerivedAll
<1> HIDE DEF t
<1>3. IsSeq(t)
  BY <1>1, AlongSeq, ViewsCoverTheParts
<1>4. \A v \in DOMAIN t : AreFindings(t[v])
  BY <1>1, DerivedOfAView
<1>5. AreFindings(FlattenSeq(t))
  BY <1>3, <1>4, FindingsFlattened
<1>6. \A v \in DOMAIN t : IsSeq(t[v])
  BY <1>4 DEF AreFindings
<1>7. \A x : Occurs(x, FlattenSeq(t)) <=> \E v \in DOMAIN t : Occurs(x, t[v])
  BY <1>3, <1>6, OccursInFlattened
<1> QED BY <1>1, <1>2, <1>5, <1>7

LEMMA ReportsInOrder ==
    ASSUME NEW d \in Orders, NEW spec
    PROVE  IsSeq(ColumnsOf(spec, FirstOfEach(d)))
<1> DEFINE t == FirstOfEach(d)
<1>1. t = [i \in DOMAIN d.reports |-> t[i]]
      /\ \A i \in DOMAIN d.reports : t[i].sheets = d.reports[i].parts[1]
  BY DEF FirstOfEach
<1> HIDE DEF t
<1>2. IsSeq(t) /\ DOMAIN t = DOMAIN d.reports
  BY <1>1, AlongSeq, OrdersAssumption
<1>3. \A i \in DOMAIN t : IsSeq(t[i].sheets)
  BY <1>1, <1>2, PartsInOrder
<1> QED BY <1>2, <1>3, ColumnsAreInOrder DEF t

LEMMA ConstraintBrings ==
    ASSUME NEW d \in Orders, NEW n \in DOMAIN d.constraints
    PROVE  LET s == d.constraints[n]
               columns == ColumnsOf(s, FirstOfEach(d))
               brought == ConstraintFindings(d, s)
           IN  /\ AreFindings(brought)
               /\ ConstraintApplies(s, d.run)
                      /\ (columns = <<>> \/ \E i \in DOMAIN columns : columns[i] = <<>>) =>
                      \E f : Occurs(f, brought) /\ f.about[2] = s.ref
<1> DEFINE s == d.constraints[n]
           reports == FirstOfEach(d)
           columns == ColumnsOf(s, reports)
           verdicts == ConstraintVerdicts(s, reports)
           blank(i) == OfRule("constraint", s, i, "could_not_evaluate", "review", "code")
           of(i) == CASE verdicts[i] = "passed" -> <<>>
                      [] verdicts[i] = "unread" -> <<blank(i)>>
                      [] verdicts[i] = "failed" ->
                        <<OfRule("constraint", s, i, "report_violates_rule", s.severity, "code")>>
           t == [i \in DOMAIN verdicts |-> of(i)]
<1>1. /\ IsSeq(verdicts)
      /\ \A i \in DOMAIN verdicts : verdicts[i] \in {"passed", "failed", "unread"}
      /\ columns = <<>> => 1 \in DOMAIN verdicts /\ verdicts[1] = "unread"
      /\ \A i \in DOMAIN columns :
             columns[i] = <<>> => i \in DOMAIN verdicts /\ verdicts[i] = "unread"
  <2>1. IsSeq(columns)
    BY ReportsInOrder
  <2>2. s.constraint \in Constraints6
    BY OrdersAssumption DEF Constraints6
  <2> HIDE DEF s, reports
  <2> QED BY <2>1, <2>2, ConstraintIsJudged
<1>2. \A i : IsFinding(blank(i)) /\ blank(i).about[2] = s.ref
  BY MadeAreFindings
<1>3. ConstraintFindings(d, s) = IF ConstraintApplies(s, d.run) THEN FlattenSeq(t) ELSE <<>>
  BY DEF ConstraintFindings
<1>4. \A i \in DOMAIN verdicts : AreFindings(of(i))
  <2> HIDE DEF verdicts, s
  <2>1. \A type, severity, i : AreFindings(<<OfRule("constraint", s, i, type, severity, "code")>>)
    BY MadeAreFindings, FewAreFindings
  <2> QED BY <2>1, <1>1, FewAreFindings
<1>5. \A i \in DOMAIN verdicts : verdicts[i] = "unread" => Occurs(blank(i), of(i))
  <2> HIDE DEF blank, verdicts
  <2> QED BY OccursInShort
<1> HIDE DEF of, blank, verdicts, columns, s
<1>6. t = [i \in DOMAIN verdicts |-> t[i]] /\ DOMAIN t = DOMAIN verdicts
      /\ \A i \in DOMAIN t : t[i] = of(i)
  OBVIOUS
<1> HIDE DEF t
<1>7. IsSeq(t) /\ \A i \in DOMAIN t : AreFindings(t[i]) /\ IsSeq(t[i])
  BY <1>1, <1>4, <1>6, AlongSeq DEF AreFindings
<1>8. AreFindings(FlattenSeq(t)) /\ \A x : Occurs(x, FlattenSeq(t)) <=> \E i \in DOMAIN t : Occurs(x, t[i])
  BY <1>7, FindingsFlattened, OccursInFlattened
<1>9. AreFindings(ConstraintFindings(d, s))
  BY <1>3, <1>8, FewAreFindings
<1>10. ASSUME ConstraintApplies(s, d.run), columns = <<>> \/ \E i \in DOMAIN columns : columns[i] = <<>>
       PROVE  \E f : Occurs(f, ConstraintFindings(d, s)) /\ f.about[2] = s.ref
  <2>1. \E i \in DOMAIN verdicts : verdicts[i] = "unread"
    BY <1>1, <1>10
  <2>2. PICK i \in DOMAIN verdicts : verdicts[i] = "unread"
    BY <2>1
  <2>3. Occurs(blank(i), FlattenSeq(t))
    BY <2>2, <1>5, <1>6, <1>8
  <2> QED BY <2>3, <1>10, <1>3, <1>2
<1> QED BY <1>9, <1>10 DEF columns, s

LEMMA BroughtInCode ==
    ASSUME NEW d \in Orders
    PROVE  /\ AreFindings(ReverseFindings(d)) /\ AreFindings(BeyondFindings(d))
           /\ AreFindings(CreditFindings(d)) /\ AreFindings(CountFindings(d))
<1>1. \A step, of, n, type, severity : AreFindings(<<Built(step, of, n, type, severity)>>)
  BY MadeAreFindings, FewAreFindings
<1>2. AreFindings(<<>>)
  BY FewAreFindings
<1>3. AreFindings(BeyondFindings(d))
  BY <1>1, <1>2, Zenon DEF BeyondFindings
<1>4. AreFindings(CreditFindings(d))
  <2> DEFINE found(type, severity) == <<Built("credit", "", 0, type, severity)>>
             credit == d.credit
  <2>1. \A type, severity : AreFindings(found(type, severity))
    BY <1>1
  <2>2. CreditFindings(d) =
          CASE credit.date = 0 -> <<>>
            [] credit.date # 0 /\ credit.labelled # NoLabel ->
                 IF credit.labelled # <<>> /\ Head(credit.labelled) = credit.date THEN <<>>
                 ELSE found("credit_date_mismatch", "medium")
            [] OTHER ->
                 IF "reports" \in credit.spelled THEN <<>>
                 ELSE found("credit_date_missing", IF credit.spelled # {} THEN "low" ELSE "medium")
    BY DEF CreditFindings
  <2> HIDE DEF found, credit
  <2> QED BY <2>1, <2>2, <1>2
<1>5. AreFindings(CountFindings(d))
  <2> HIDE DEF Uploaded, Built
  <2> QED BY <1>1, <1>2, Zenon DEF CountFindings
<1>6. AreFindings(ReverseFindings(d))
  <2> DEFINE extra == Kept(d.elements, {e \in ToSet(d.elements) :
                                         ~e.technical /\ ~e.traced /\ e.kind \in d.categories})
             t == [i \in DOMAIN extra |-> Built("reverse", extra[i].id, 0, "extra_rule_in_config", "medium")]
  <2>1. ReverseFindings(d) = t
    BY DEF ReverseFindings
  <2>2. IsSeq(extra)
    BY OccursInKept, OrdersAssumption
  <2> HIDE DEF extra
  <2>3. t = [i \in DOMAIN extra |-> t[i]] /\ \A i \in DOMAIN extra : IsFinding(t[i])
    BY MadeAreFindings
  <2> HIDE DEF t
  <2> QED BY <2>1, <2>2, <2>3, FindingsAlong
<1> QED BY <1>3, <1>4, <1>5, <1>6

LEMMA ComplianceBrings ==
    ASSUME NEW d \in Orders, NEW rule, NEW a
    PROVE  /\ AreFindings(ComplianceFindings(d, rule, a))
           /\ \A f : Occurs(f, ComplianceFindings(d, rule, a)) =>
                  f.about = <<"compliance", rule.ref, 0>> /\ f.severity \in {"high", "review"}
           /\ \A b : Occurs(b, ComplianceFindings(d, rule, Silent)) =>
                  \E f : Occurs(f, ComplianceFindings(d, rule, a))
           /\ AppliesTo(rule, d.run) /\ ControlState(rule, d.blocks) # "present" =>
                  \E f : Occurs(f, ComplianceFindings(d, rule, a))
<1> DEFINE found(type, severity, engine) ==
               <<OfRule("compliance", rule, 0, type, severity, engine)>>
           state == ControlState(rule, d.blocks)
           which(ans) == IF ~AppliesTo(rule, d.run) \/ state = "present" THEN <<>>
                         ELSE IF state = "different" THEN found("value_mismatch", "high", "code")
                         ELSE IF Heeded(ans, "found", Paths(d))
                              THEN found("could_not_evaluate", "review", "model")
                              ELSE found("rule_missing_in_config", "high", "code")
<1>1. \A ans : ComplianceFindings(d, rule, ans) = which(ans)
  BY DEF ComplianceFindings
<1>2. \A type, severity, engine :
          /\ AreFindings(found(type, severity, engine))
          /\ \A f : Occurs(f, found(type, severity, engine)) <=>
                 f = OfRule("compliance", rule, 0, type, severity, engine)
  BY MadeAreFindings, FewAreFindings, OccursInShort
<1>3. \A type, severity, engine :
          LET f == OfRule("compliance", rule, 0, type, severity, engine)
          IN  f.about = <<"compliance", rule.ref, 0>> /\ f.severity = severity
  BY MadeAreFindings
<1>4. AreFindings(<<>>) /\ \A f : ~Occurs(f, <<>>)
  BY FewAreFindings, OccursInShort
<1> HIDE DEF found, state
<1>5. AreFindings(which(a))
  BY <1>2, <1>4
<1>6. \A f : Occurs(f, which(a)) =>
          f.about = <<"compliance", rule.ref, 0>> /\ f.severity \in {"high", "review"}
  BY <1>2, <1>3, <1>4
<1>7. AppliesTo(rule, d.run) /\ state # "present" => \E f : Occurs(f, which(a))
  BY <1>2
<1>8. \A b : Occurs(b, which(Silent)) => AppliesTo(rule, d.run) /\ state # "present"
  BY <1>4
<1> QED BY <1>1, <1>5, <1>6, <1>7, <1>8 DEF state

LEMMA CheckBrings ==
    ASSUME NEW d \in Orders, NEW check, NEW a
    PROVE  /\ AreFindings(ExpressionFindings(d, check))
           /\ AreFindings(JudgmentFindings(d, check, a))
           /\ \A f : Occurs(f, ExpressionFindings(d, check)) \/ Occurs(f, JudgmentFindings(d, check, a))
                  => f.about = <<"check", check.ref, 0>>
           /\ AppliesTo(check, d.run)
                  /\ EvaluateCheck(check.expression, d.values) \notin {"passed", "raises"} =>
                  \E f : Occurs(f, ExpressionFindings(d, check))
           /\ AppliesTo(check, d.run) /\ ~MayJudge(d, check) =>
                  \E f : Occurs(f, JudgmentFindings(d, check, a))
           /\ MayJudge(d, check) /\ a.verdict # "none" /\ ~(a.verdict = "pass" /\ a.sure) =>
                  \E f : Occurs(f, JudgmentFindings(d, check, a))
<1> DEFINE found(type, severity, engine) ==
               <<OfRule("check", check, 0, type, severity, engine)>>
           came == EvaluateCheck(check.expression, d.values)
           one == IF ~AppliesTo(check, d.run) \/ came \in {"passed", "raises"} THEN <<>>
                  ELSE IF came = "failed"
                       THEN found("cross_report_disagreement", check.severity, "code")
                       ELSE found("could_not_evaluate", "review", "code")
           other == IF ~AppliesTo(check, d.run) THEN <<>>
                    ELSE IF ~MayJudge(d, check) THEN found("could_not_evaluate", "review", "code")
                    ELSE IF a.verdict = "none" \/ (a.verdict = "pass" /\ a.sure) THEN <<>>
                    ELSE found("judgment_failed",
                               IF a.verdict = "fail" /\ a.sure THEN check.severity
                               ELSE "review", "model")
<1>1. ExpressionFindings(d, check) = one
  BY DEF ExpressionFindings
<1>2. JudgmentFindings(d, check, a) = other
  BY DEF JudgmentFindings
<1>3. \A type, severity, engine :
          /\ AreFindings(found(type, severity, engine))
          /\ \E f : Occurs(f, found(type, severity, engine))
          /\ \A f : Occurs(f, found(type, severity, engine)) => f.about = <<"check", check.ref, 0>>
  <2>1. \A type, severity, engine :
            /\ IsFinding(OfRule("check", check, 0, type, severity, engine))
            /\ OfRule("check", check, 0, type, severity, engine).about = <<"check", check.ref, 0>>
    BY MadeAreFindings
  <2>2. \A type, severity, engine, f :
            Occurs(f, found(type, severity, engine))
            <=> f = OfRule("check", check, 0, type, severity, engine)
    BY OccursInShort
  <2>3. \A type, severity, engine : AreFindings(found(type, severity, engine))
    BY <2>1, FewAreFindings
  <2> HIDE DEF found
  <2> SUFFICES ASSUME NEW type, NEW severity, NEW engine
               PROVE  /\ AreFindings(found(type, severity, engine))
                      /\ \E f : Occurs(f, found(type, severity, engine))
                      /\ \A f : Occurs(f, found(type, severity, engine)) =>
                             f.about = <<"check", check.ref, 0>>
    OBVIOUS
  <2>4. Occurs(OfRule("check", check, 0, type, severity, engine), found(type, severity, engine))
    BY <2>2
  <2>5. ASSUME NEW f, Occurs(f, found(type, severity, engine))
        PROVE  f.about = <<"check", check.ref, 0>>
    BY <2>1, <2>2, <2>5
  <2> QED BY <2>3, <2>4, <2>5
<1>4. AreFindings(<<>>) /\ \A f : ~Occurs(f, <<>>)
  BY FewAreFindings, OccursInShort
<1>5. MayJudge(d, check) => AppliesTo(check, d.run)
  BY DEF MayJudge
<1> HIDE DEF found, came
<1>6. /\ AreFindings(one)
      /\ \A f : Occurs(f, one) => f.about = <<"check", check.ref, 0>>
      /\ AppliesTo(check, d.run) /\ came \notin {"passed", "raises"} => \E f : Occurs(f, one)
  BY <1>3, <1>4
<1>7. /\ AreFindings(other)
      /\ \A f : Occurs(f, other) => f.about = <<"check", check.ref, 0>>
      /\ AppliesTo(check, d.run) /\ ~MayJudge(d, check) => \E f : Occurs(f, other)
      /\ MayJudge(d, check) /\ a.verdict # "none" /\ ~(a.verdict = "pass" /\ a.sure) =>
             \E f : Occurs(f, other)
  BY <1>3, <1>4, <1>5
<1> HIDE DEF one, other
<1> QED BY <1>1, <1>2, <1>6, <1>7 DEF came

LEMMA SilentSaysNothing ==
    /\ Silent.verdict = "none" /\ ~Silent.sure
    /\ \A verdict, names : verdict # "none" => ~Heeded(Silent, verdict, names)
BY DEF Silent, Answer, Heeded

LEMMA ProgrammeBrings ==
    ASSUME NEW d \in Orders, NEW a
    PROVE  /\ AreFindings(ProgrammeFindings(d, a))
           /\ \A f : Occurs(f, ProgrammeFindings(d, a)) =>
                  /\ f.about = <<"programme", "", 0>> /\ f.type = "programme_mismatch"
                  /\ f.severity \in {"review", "high"}
           /\ WordsMissing(d) /\ ~(Agrees(d, a) /\ LooksLike(d) = {}) =>
                  \E f : Occurs(f, ProgrammeFindings(d, a))
           /\ \A b : Occurs(b, ProgrammeFindings(d, Silent)) =>
                  WordsMissing(d) /\ (LooksLike(d) = {} => b.severity = "review")
<1> DEFINE found(severity, engine) ==
               <<Finding("programme", "", 0, "programme_mismatch", severity, FALSE, engine)>>
           made(severity, engine) ==
               Finding("programme", "", 0, "programme_mismatch", severity, FALSE, engine)
           wm == WordsMissing(d)
           others == WithWords(d) \ {d.run.programme}
           none == LooksLike(d) = {}
           which(ans) == CASE ~wm -> <<>>
                           [] wm /\ Agrees(d, ans) -> IF none THEN <<>> ELSE found("review", "model")
                           [] wm /\ ReadsLike(d, ans, others) -> found("high", "model")
                           [] wm /\ ans.verdict = "nothing" -> found("review", "code")
                           [] OTHER -> found(IF none THEN "review" ELSE "high", "code")
<1>1. \A ans : ProgrammeFindings(d, ans) = which(ans)
  BY DEF ProgrammeFindings
<1>2. \A severity, engine, f :
          Occurs(f, found(severity, engine))
          <=> f = made(severity, engine)
  BY OccursInShort
<1>3. \A severity, engine :
          /\ IsFinding(made(severity, engine))
          /\ made(severity, engine).about = <<"programme", "", 0>>
          /\ made(severity, engine).type = "programme_mismatch"
          /\ made(severity, engine).severity = severity
  BY DEF Finding, IsFinding
<1>4. AreFindings(<<>>) /\ \A f : ~Occurs(f, <<>>)
  BY FewAreFindings, OccursInShort
<1>5. \A severity, engine : AreFindings(found(severity, engine))
  BY <1>3, FewAreFindings
<1>6. \A ans : /\ ~(Agrees(d, ans) /\ ReadsLike(d, ans, others))
               /\ Agrees(d, ans) => ans.verdict = "reads_like"
               /\ ReadsLike(d, ans, others) => ans.verdict = "reads_like"
  BY DEF Agrees, ReadsLike, Heeded
<1>7. Silent.verdict = "none"
  BY SilentSaysNothing
<1> HIDE DEF found, made, wm, others, none
<1>8. /\ ~wm => which(a) = <<>>
      /\ wm /\ Agrees(d, a) => which(a) = IF none THEN <<>> ELSE found("review", "model")
      /\ wm /\ ~Agrees(d, a) => \/ which(a) = found("high", "model")
                                \/ which(a) = found("review", "code")
                                \/ which(a) = found("high", "code")
  BY <1>6
<1>9. /\ ~wm => which(Silent) = <<>>
      /\ wm => which(Silent) = found(IF none THEN "review" ELSE "high", "code")
  BY <1>6, <1>7
<1> HIDE DEF which
<1>10. AreFindings(which(a))
  BY <1>4, <1>5, <1>8
<1>11. \A f : Occurs(f, which(a)) =>
           /\ f.about = <<"programme", "", 0>> /\ f.type = "programme_mismatch"
           /\ f.severity \in {"review", "high"}
  <2> SUFFICES ASSUME NEW f, Occurs(f, which(a)), NEW severity \in {"review", "high"}, NEW engine,
                      which(a) = found(severity, engine)
               PROVE  /\ f.about = <<"programme", "", 0>> /\ f.type = "programme_mismatch"
                      /\ f.severity \in {"review", "high"}
    BY <1>4, <1>8
  <2>1. f = made(severity, engine)
    BY <1>2
  <2> QED BY <2>1, <1>3
<1>12. wm /\ ~(Agrees(d, a) /\ none) => \E f : Occurs(f, which(a))
  BY <1>2, <1>8
<1>13. ASSUME NEW b, Occurs(b, which(Silent)) PROVE wm /\ (none => b.severity = "review")
  <2>1. wm
    BY <1>4, <1>9, <1>13
  <2>2. CASE none
    <3>1. which(Silent) = found("review", "code")
      BY <2>1, <2>2, <1>9
    <3>2. b = made("review", "code")
      BY <3>1, <1>2, <1>13
    <3> QED BY <2>1, <3>2, <1>3
  <2> QED BY <2>1, <2>2
<1> QED BY <1>1, <1>10, <1>11, <1>12, <1>13 DEF wm, none

LEMMA ReadingsBring ==
    ASSUME NEW d \in Orders, NEW a
    PROVE  /\ AreFindings(ShapeFindings(d, a)) /\ AreFindings(GapFindings(d, a))
           /\ AreFindings(BreachFindings(d, a))
<1>1. AreFindings(ShapeFindings(d, a))
  BY MadeAreFindings, FewAreFindings DEF ShapeFindings
<1>2. AreFindings(GapFindings(d, a))
  BY MadeAreFindings, FewAreFindings DEF GapFindings
<1>3. AreFindings(BreachFindings(d, a))
  <2> DEFINE breached == Kept(d.rules, {r \in ToSet(d.rules) :
                                         a.verdict = "breach" /\ a.named = <<r.ref>>})
             t == [i \in DOMAIN breached |->
                     OfRule("rules", breached[i], 0, "programme_rule_violation",
                            RuleSeverity(breached[i], a), "code")]
  <2>1. BreachFindings(d, a) = t
    BY DEF BreachFindings
  <2>2. IsSeq(breached)
    BY OccursInKept, OrdersAssumption
  <2> HIDE DEF breached
  <2>3. t = [i \in DOMAIN breached |-> t[i]] /\ \A i \in DOMAIN breached : IsFinding(t[i])
    BY MadeAreFindings
  <2> HIDE DEF t
  <2> QED BY <2>1, <2>2, <2>3, FindingsAlong
<1> QED BY <1>1, <1>2, <1>3

LEMMA ItemsOfTheStages ==
    ASSUME NEW d \in Orders, NEW item, OfTheStages(d, item)
    PROVE  /\ item.step = "derived" => d.derived[item.n] \in ToSet(d.derived)
           /\ item.step = "constraint" => item.n \in DOMAIN d.constraints
           /\ item.step = "check" => item.n \in DOMAIN d.checks
           /\ item.step \in {"reverse", "compliance", "derived", "beyond", "programme", "credit",
                             "count", "constraint", "check", "shape", "rules", "gaps"}
BY DEF OfTheStages, ToSet

LEMMA BringsFindings ==
    ASSUME NEW d \in Orders, NEW item, OfTheStages(d, item), NEW a
    PROVE  AreFindings(Brings(d, item, a))
<1>1. CASE item.step = "derived"
  BY <1>1, ItemsOfTheStages, DerivedOfAll DEF Brings
<1>2. CASE item.step = "constraint"
  BY <1>2, ItemsOfTheStages, ConstraintBrings DEF Brings
<1>3. CASE item.step = "check"
  BY <1>3, CheckBrings DEF Brings
<1>4. CASE item.step = "compliance"
  BY <1>4, ComplianceBrings DEF Brings
<1>5. CASE item.step = "programme"
  BY <1>5, ProgrammeBrings DEF Brings
<1>6. CASE item.step \in {"reverse", "beyond", "credit", "count"}
  BY <1>6, BroughtInCode DEF Brings
<1>7. CASE item.step \in {"shape", "rules", "gaps"}
  BY <1>7, ReadingsBring DEF Brings
<1> QED BY <1>1, <1>2, <1>3, <1>4, <1>5, <1>6, <1>7, ItemsOfTheStages

\* What code finds by itself stays, softened, whatever the model answers.
LEMMA SoftenedNotDropped ==
    ASSUME NEW d \in Orders, NEW item, OfTheStages(d, item), NEW a,
           NEW b, Occurs(b, Raised(d, item))
    PROVE  \/ \E f : /\ Occurs(f, Brings(d, item, a)) /\ f.about = b.about
                     /\ f.type = b.type \/ b.about[1] = "compliance"
                     /\ f.severity \in {b.severity, "review", "high"}
           \/ /\ item.step = "programme" /\ Agrees(d, a)
              /\ b.about[1] = "programme" /\ b.severity = "review"
<1>1. CASE item.step \in {"reverse", "derived", "beyond", "credit", "count", "constraint"}
  <2>1. Raised(d, item) = Brings(d, item, a)
    BY <1>1 DEF Raised, Brings
  <2> QED BY <2>1
<1>2. CASE item.step = "compliance"
  <2>1. /\ Raised(d, item) = ComplianceFindings(d, d.compliance[item.n], Silent)
        /\ Brings(d, item, a) = ComplianceFindings(d, d.compliance[item.n], a)
    BY <1>2 DEF Raised, Brings
  <2>2. /\ b.about = <<"compliance", d.compliance[item.n].ref, 0>>
        /\ \E f : Occurs(f, Brings(d, item, a))
        /\ \A f : Occurs(f, Brings(d, item, a)) =>
               f.about = <<"compliance", d.compliance[item.n].ref, 0>> /\ f.severity \in {"high", "review"}
    BY <2>1, ComplianceBrings
  <2>3. b.about[1] = "compliance"
    BY <2>2
  <2> QED BY <2>2, <2>3
<1>3. CASE item.step = "programme"
  <2>1. /\ Raised(d, item) = ProgrammeFindings(d, Silent)
        /\ Brings(d, item, a) = ProgrammeFindings(d, a)
    BY <1>3 DEF Raised, Brings
  <2>2. /\ b.about = <<"programme", "", 0>> /\ b.type = "programme_mismatch"
        /\ WordsMissing(d) /\ (LooksLike(d) = {} => b.severity = "review")
    BY <2>1, ProgrammeBrings
  <2>3. b.about[1] = "programme"
    <3>1. b.about = <<"programme", "", 0>>
      BY <2>2
    <3> DEFINE w == b.about
    <3>2. w = <<"programme", "", 0>>
      BY <3>1
    <3> HIDE DEF w
    <3>3. w[1] = "programme"
      BY <3>2
    <3> QED BY <3>3 DEF w
  <2>4. CASE Agrees(d, a) /\ LooksLike(d) = {}
    BY <1>3, <2>2, <2>3, <2>4
  <2>5. CASE ~(Agrees(d, a) /\ LooksLike(d) = {})
    BY <2>1, <2>2, <2>5, ProgrammeBrings
  <2> QED BY <2>4, <2>5
<1>4. CASE item.step = "check"
  <2>1. Raised(d, item) = IF d.checks[item.n].kind = "judgment" THEN <<>>
                          ELSE ExpressionFindings(d, d.checks[item.n])
    BY <1>4 DEF Raised
  <2>2. d.checks[item.n].kind # "judgment"
    BY <2>1, OccursInShort
  <2>3. Raised(d, item) = Brings(d, item, a)
    BY <1>4, <2>1, <2>2 DEF Brings
  <2> QED BY <2>3
<1>5. CASE item.step \in {"shape", "rules", "gaps"}
  <2>1. Raised(d, item) = <<>>
    BY <1>5 DEF Raised
  <2> QED BY <2>1, OccursInShort
<1> QED BY <1>1, <1>2, <1>3, <1>4, <1>5, ItemsOfTheStages

----------------------------------------------------------------------------
(* The inductive invariant *)

\* What an answer to an item leaves behind it: words, a notice, a place among what was heard.
Noted(d, item, a, asked, told, words) ==
    /\ item.step = "programme" /\ Agrees(d, a) => words
    /\ item.step = "rules" /\ a = Silent => <<"rules", "">> \in told
    /\ item.step = "gaps" /\ a = Silent => Unresolved(d) = {} \/ <<"gaps", "">> \in told
    /\ item.step = "check" =>
           LET check == d.checks[item.n]
           IN  IF check.kind = "judgment"
               THEN /\ <<item, a>> \in asked
                    /\ MayJudge(d, check) => a \in Judgments
                    /\ MayJudge(d, check) /\ a = Silent => <<"judgment", check.ref>> \in told
               ELSE ~(/\ AppliesTo(check, d.run)
                      /\ EvaluateCheck(check.expression, d.values) = "raises")

\* A second opinion changes a finding's severity and nothing else a reader goes by.
Kin(f, g) == f.about = g.about /\ f.type = g.type /\ f.severity \in {g.severity, "review"}

\* An item is dealt with: what it brings with some answer is among the findings.
Dealt(d, item, raised, asked, told, words) ==
    \E a \in {Silent} \cup {h[2] : h \in asked} :
        /\ Noted(d, item, a, asked, told, words)
        /\ \A k \in DOMAIN Brings(d, item, a) : \E i \in DOMAIN raised :
               Kin(raised[i], Brings(d, item, a)[k])

OpinionsTyped ==
    /\ given \in Orders /\ phase \in {"stages", "lenses", "done", "raised"}
    /\ IsSeq(todo) /\ AreFindings(findings) /\ IsSeq(proposals)
    /\ phase = "stages" => \A k \in DOMAIN todo : OfTheStages(given, todo[k])
    /\ phase = "lenses" =>
           \A k \in DOMAIN todo : \E i \in DOMAIN findings : todo[k] = Item("lens", i)

AnswersNoted ==
    \A h \in heard :
        /\ h = <<h[1], h[2]>>
        /\ Noted(given, h[1], h[2], heard, notices, suggested)
        /\ h[1].step = "check" => given.checks[h[1].n].kind = "judgment"

NothingSkipped ==
    phase # "raised" =>
        \A j \in DOMAIN Items(given) :
            \/ phase = "stages" /\ Occurs(Items(given)[j], todo)
            \/ Dealt(given, Items(given)[j], findings, heard, notices, suggested)

HighOnesLeft ==
    \A i \in DOMAIN findings :
        High(i) =>
            /\ phase = "lenses" => i \in unread \/ Occurs(Item("lens", i), todo)
            /\ phase = "done" => \/ <<"off", "">> \in notices
                                 \/ i \in unread /\ <<"unread", "">> \in notices

OpinionsIInv == OpinionsTyped /\ AnswersNoted /\ NothingSkipped /\ HighOnesLeft

LEMMA KinOfKin ==
    ASSUME NEW f, NEW g, NEW h, Kin(f, g), Kin(g, h)
    PROVE  Kin(f, h)
BY DEF Kin

LEMMA NotedGrows ==
    ASSUME NEW d, NEW item, NEW a, NEW asked, NEW told, NEW words, NEW asked2, NEW told2, NEW words2,
           Noted(d, item, a, asked, told, words),
           asked \subseteq asked2, told \subseteq told2, words => words2
    PROVE  Noted(d, item, a, asked2, told2, words2)
<1>1. item.step = "programme" /\ Agrees(d, a) => words2
  BY Zenon DEF Noted
<1>2. item.step = "rules" /\ a = Silent => <<"rules", "">> \in told2
  BY DEF Noted
<1>3. item.step = "gaps" /\ a = Silent => Unresolved(d) = {} \/ <<"gaps", "">> \in told2
  BY DEF Noted
<1>4. ASSUME item.step = "check"
      PROVE  LET check == d.checks[item.n]
             IN  IF check.kind = "judgment"
                 THEN /\ <<item, a>> \in asked2
                      /\ MayJudge(d, check) => a \in Judgments
                      /\ MayJudge(d, check) /\ a = Silent => <<"judgment", check.ref>> \in told2
                 ELSE ~(/\ AppliesTo(check, d.run)
                        /\ EvaluateCheck(check.expression, d.values) = "raises")
  BY <1>4 DEF Noted
<1> HIDE <1>4
<1> QED BY <1>1, <1>2, <1>3, <1>4, Zenon DEF Noted

LEMMA DealtGrows ==
    ASSUME NEW d, NEW item, NEW raised, NEW asked, NEW told, NEW words,
           NEW raised2, NEW asked2, NEW told2, NEW words2,
           Dealt(d, item, raised, asked, told, words),
           \A i \in DOMAIN raised : i \in DOMAIN raised2 /\ Kin(raised2[i], raised[i]),
           asked \subseteq asked2, told \subseteq told2, words => words2
    PROVE  Dealt(d, item, raised2, asked2, told2, words2)
<1>1. PICK a \in {Silent} \cup {h[2] : h \in asked} :
          /\ Noted(d, item, a, asked, told, words)
          /\ \A k \in DOMAIN Brings(d, item, a) : \E i \in DOMAIN raised :
                 Kin(raised[i], Brings(d, item, a)[k])
  BY DEF Dealt
<1>2. a \in {Silent} \cup {h[2] : h \in asked2}
  BY <1>1
<1>3. Noted(d, item, a, asked2, told2, words2)
  BY <1>1, NotedGrows
<1>4. \A k \in DOMAIN Brings(d, item, a) : \E i \in DOMAIN raised2 :
          Kin(raised2[i], Brings(d, item, a)[k])
  BY <1>1, KinOfKin
<1> QED BY <1>2, <1>3, <1>4 DEF Dealt

LEMMA KinOfItself == \A f : Kin(f, f)
BY DEF Kin

\* Findings that are added leave those there are.
LEMMA AddedFindings ==
    ASSUME NEW raised, AreFindings(raised), NEW more, AreFindings(more),
           NEW all, all = raised \o more
    PROVE  /\ AreFindings(all)
           /\ \A i \in DOMAIN raised : i \in DOMAIN all /\ all[i] = raised[i]
           /\ \A i \in DOMAIN all : i \in DOMAIN raised \/ \E k \in DOMAIN more : all[i] = more[k]
<1>1. IsSeq(raised) /\ IsSeq(more)
  BY DEF AreFindings
<1>2. /\ \A k \in DOMAIN raised : k \in DOMAIN (raised \o more) /\ (raised \o more)[k] = raised[k]
  BY <1>1, OccursInJoined
<1>3. AreFindings(raised \o more)
  BY FindingsJoined
<1>4. /\ \A k \in DOMAIN raised : k \in DOMAIN all /\ all[k] = raised[k]
      /\ AreFindings(all)
  BY <1>2, <1>3
<1> DEFINE S == ToSet(raised) \cup ToSet(more)
<1>6. raised \in Seq(S) /\ more \in Seq(S)
  <2>1. \A i \in DOMAIN raised : raised[i] \in S
    BY DEF ToSet
  <2>2. \A i \in DOMAIN more : more[i] \in S
    BY DEF ToSet
  <2> HIDE DEF S
  <2>3. raised \in Seq(S)
    BY <1>1, <2>1 DEF IsSeq
  <2>4. more \in Seq(S)
    BY <1>1, <2>2 DEF IsSeq
  <2> QED BY <2>3, <2>4
<1> HIDE DEF S
<1>7. \A i \in DOMAIN (raised \o more) :
          \/ i \in DOMAIN raised /\ (raised \o more)[i] = raised[i]
          \/ \E k \in DOMAIN more : (raised \o more)[i] = more[k]
  BY <1>6, ConcatFacts
<1>8. \A i \in DOMAIN all : i \in DOMAIN raised \/ \E k \in DOMAIN more : all[i] = more[k]
  BY <1>7
<1> QED BY <1>4, <1>8

LEMMA AddedAreKin ==
    ASSUME NEW raised, AreFindings(raised), NEW more, AreFindings(more),
           NEW all, all = raised \o more
    PROVE  \A k \in DOMAIN more : \E i \in DOMAIN all : Kin(all[i], more[k])
<1>1. IsSeq(raised) /\ IsSeq(more)
  BY DEF AreFindings
<1>2. \A x : Occurs(x, raised \o more) <=> Occurs(x, raised) \/ Occurs(x, more)
  BY <1>1, OccursInJoined
<1>3. \A x : Occurs(x, more) => Occurs(x, all)
  BY <1>2
<1> SUFFICES ASSUME NEW k \in DOMAIN more PROVE \E i \in DOMAIN all : Kin(all[i], more[k])
  OBVIOUS
<1>4. Occurs(more[k], more)
  BY DEF Occurs
<1>5. Occurs(more[k], all)
  BY <1>3, <1>4
<1> QED BY <1>5, KinOfItself DEF Occurs

LEMMA DealtNow ==
    ASSUME NEW d \in Orders, NEW item, OfTheStages(d, item), NEW raised, AreFindings(raised),
           NEW asked, NEW told, NEW words, NEW a \in {Silent} \cup {h[2] : h \in asked},
           Noted(d, item, a, asked, told, words),
           NEW all, all = raised \o Brings(d, item, a)
    PROVE  Dealt(d, item, all, asked, told, words)
<1>1. AreFindings(Brings(d, item, a))
  BY BringsFindings
<1>3. \A k \in DOMAIN Brings(d, item, a) : \E i \in DOMAIN all : Kin(all[i], Brings(d, item, a)[k])
  BY <1>1, AddedAreKin
<1> QED BY <1>3 DEF Dealt

\* A step of the stages: the first item is answered and brings what it brings.
LEMMA StageStep ==
    ASSUME OpinionsIInv, phase = "stages", todo # <<>>,
           NEW a \in {Silent} \cup {h[2] : h \in heard'},
           given' = given, phase' = phase, proposals' = proposals,
           todo' = Tail(todo), findings' = findings \o Brings(given, Head(todo), a),
           heard' = heard \/ (/\ heard' = heard \cup {<<Head(todo), a>>}
                              /\ Head(todo).step = "check" =>
                                     given.checks[Head(todo).n].kind = "judgment"),
           notices \subseteq notices', suggested => suggested',
           Noted(given, Head(todo), a, heard', notices', suggested')
    PROVE  OpinionsIInv'
<1> DEFINE more == Brings(given, Head(todo), a)
<1>1. /\ IsSeq(Tail(todo)) /\ Occurs(Head(todo), todo)
      /\ \A x : Occurs(x, todo) <=> x = Head(todo) \/ Occurs(x, Tail(todo))
  BY OccursInTail DEF OpinionsIInv, OpinionsTyped
<1>2. /\ given \in Orders /\ AreFindings(findings) /\ IsSeq(proposals)
      /\ \A x : Occurs(x, todo) => OfTheStages(given, x)
  BY DEF OpinionsIInv, OpinionsTyped, Occurs
<1>3. AreFindings(more)
  BY <1>1, <1>2, BringsFindings
<1>4. OpinionsTyped'
  <2>1. AreFindings(findings')
    BY <1>2, <1>3, AddedFindings
  <2>2. \A k \in DOMAIN Tail(todo) : OfTheStages(given, Tail(todo)[k])
    BY <1>1, <1>2 DEF Occurs
  <2> QED BY <1>1, <1>2, <2>1, <2>2 DEF OpinionsTyped
<1>5. heard \subseteq heard'
  OBVIOUS
<1>6. AnswersNoted'
  <2> SUFFICES ASSUME NEW h \in heard'
               PROVE  /\ h = <<h[1], h[2]>>
                      /\ Noted(given, h[1], h[2], heard', notices', suggested')
                      /\ h[1].step = "check" => given.checks[h[1].n].kind = "judgment"
    BY DEF AnswersNoted
  <2>1. CASE h \in heard
    <3>1. /\ h = <<h[1], h[2]>>
          /\ Noted(given, h[1], h[2], heard, notices, suggested)
          /\ h[1].step = "check" => given.checks[h[1].n].kind = "judgment"
      BY <2>1 DEF OpinionsIInv, AnswersNoted
    <3>2. Noted(given, h[1], h[2], heard', notices', suggested')
      BY <3>1, <1>5, NotedGrows
    <3> QED BY <3>1, <3>2
  <2>2. CASE h \notin heard
    <3>1. h = <<Head(todo), a>>
      BY <2>2
    <3>2. h[1] = Head(todo) /\ h[2] = a
      BY <3>1
    <3>3. Head(todo).step = "check" => given.checks[Head(todo).n].kind = "judgment"
      BY <2>2
    <3> QED BY <3>1, <3>2, <3>3
  <2> QED BY <2>1, <2>2
<1>7. NothingSkipped'
  <2> SUFFICES ASSUME NEW j \in DOMAIN Items(given)
               PROVE  \/ Occurs(Items(given)[j], Tail(todo))
                      \/ Dealt(given, Items(given)[j], findings', heard', notices', suggested')
    BY DEF NothingSkipped
  <2>1. CASE Occurs(Items(given)[j], todo)
    <3>1. Items(given)[j] = Head(todo) \/ Occurs(Items(given)[j], Tail(todo))
      BY <2>1, <1>1
    <3>2. Dealt(given, Head(todo), findings', heard', notices', suggested')
      BY <1>1, <1>2, DealtNow
    <3> QED BY <3>1, <3>2
  <2>2. CASE Dealt(given, Items(given)[j], findings, heard, notices, suggested)
    <3>1. \A i \in DOMAIN findings : i \in DOMAIN findings' /\ Kin(findings'[i], findings[i])
      <4>1. \A i \in DOMAIN findings : i \in DOMAIN findings' /\ findings'[i] = findings[i]
        BY <1>2, <1>3, AddedFindings
      <4> QED BY <4>1, KinOfItself
    <3>2. Dealt(given, Items(given)[j], findings', heard', notices', suggested')
      <4> DEFINE item == Items(given)[j]
                 F == findings'
                 H == heard'
                 N == notices'
                 W == suggested'
      <4>1. /\ \A i \in DOMAIN findings : i \in DOMAIN F /\ Kin(F[i], findings[i])
            /\ heard \subseteq H /\ notices \subseteq N /\ (suggested => W)
        BY <3>1, <1>5
      <4> HIDE DEF item, F, H, N, W
      <4>2. Dealt(given, item, findings, heard, notices, suggested)
        BY <2>2 DEF item
      <4>3. Dealt(given, item, F, H, N, W)
        BY <4>1, <4>2, DealtGrows
      <4> QED BY <4>3 DEF item, F, H, N, W
    <3> QED BY <3>2
  <2> QED BY <2>1, <2>2 DEF OpinionsIInv, NothingSkipped
<1>8. HighOnesLeft'
  BY DEF HighOnesLeft
<1> QED BY <1>4, <1>6, <1>7, <1>8 DEF OpinionsIInv

LEMMA NextOfTheStages ==
    ASSUME OpinionsIInv, phase = "stages", todo # <<>>
    PROVE  given \in Orders /\ OfTheStages(given, Head(todo))
BY RestOfSeq DEF OpinionsIInv, OpinionsTyped

LEMMA InCodeStep ==
    ASSUME OpinionsIInv, phase = "stages", todo # <<>>,
           NEW found, found = Brings(given, Head(todo), Silent), InCode(found),
           Noted(given, Head(todo), Silent, heard, notices, suggested)
    PROVE  OpinionsIInv'
<1>1. /\ given' = given /\ phase' = phase /\ proposals' = proposals /\ todo' = Tail(todo)
      /\ heard' = heard /\ notices' = notices /\ suggested' = suggested
      /\ findings' = findings \o Brings(given, Head(todo), Silent)
  BY DEF InCode, Raise
<1>2. Noted(given, Head(todo), Silent, heard', notices', suggested')
  BY <1>1
<1> QED BY <1>1, <1>2, StageStep

LEMMA AskedStep ==
    ASSUME OpinionsIInv, phase = "stages", todo # <<>>,
           NEW a, NEW found, found = Brings(given, Head(todo), a), Asked(a, found),
           Head(todo).step = "check" => given.checks[Head(todo).n].kind = "judgment",
           notices \subseteq notices', suggested => suggested',
           <<Head(todo), a>> \in heard' => Noted(given, Head(todo), a, heard', notices', suggested')
    PROVE  OpinionsIInv'
<1>1. /\ given' = given /\ phase' = phase /\ proposals' = proposals /\ todo' = Tail(todo)
      /\ heard' = heard \cup {<<Head(todo), a>>}
      /\ findings' = findings \o Brings(given, Head(todo), a)
  BY DEF Asked, Raise, Hear
<1>2. <<Head(todo), a>> \in heard' /\ a = <<Head(todo), a>>[2]
  BY <1>1
<1>3. a \in {Silent} \cup {h[2] : h \in heard'}
  BY <1>2
<1> QED BY <1>1, <1>2, <1>3, StageStep

LEMMA InCodePreserves ==
    ASSUME OpinionsIInv,
           \/ ReversePass \/ DerivedCheck \/ BeyondTheProductCodes \/ CheckCreditDate
           \/ DeliverableCount \/ FieldConstraint
    PROVE  OpinionsIInv'
<1>1. PICK found : /\ phase = "stages" /\ todo # <<>> /\ InCode(found)
                   /\ found = Brings(given, Head(todo), Silent)
                   /\ Head(todo).step \in {"reverse", "derived", "beyond", "credit", "count", "constraint"}
  <2>1. CASE ReversePass
    <3>1. Brings(given, Head(todo), Silent) = ReverseFindings(given)
      BY <2>1 DEF ReversePass, Doing, Brings
    <3> QED BY <2>1, <3>1 DEF ReversePass, Doing
  <2>2. CASE DerivedCheck
    <3>1. Brings(given, Head(todo), Silent) = DerivedAll(given, given.derived[Turn])
      BY <2>2 DEF DerivedCheck, Doing, Brings, Turn
    <3> QED BY <2>2, <3>1 DEF DerivedCheck, Doing
  <2>3. CASE BeyondTheProductCodes
    <3>1. Brings(given, Head(todo), Silent) = BeyondFindings(given)
      BY <2>3 DEF BeyondTheProductCodes, Doing, Brings
    <3> QED BY <2>3, <3>1 DEF BeyondTheProductCodes, Doing
  <2>4. CASE CheckCreditDate
    <3>1. Brings(given, Head(todo), Silent) = CreditFindings(given)
      BY <2>4 DEF CheckCreditDate, Doing, Brings
    <3> QED BY <2>4, <3>1 DEF CheckCreditDate, Doing
  <2>5. CASE DeliverableCount
    <3>1. Brings(given, Head(todo), Silent) = CountFindings(given)
      BY <2>5 DEF DeliverableCount, Doing, Brings
    <3> QED BY <2>5, <3>1 DEF DeliverableCount, Doing
  <2>6. CASE FieldConstraint
    <3>1. Brings(given, Head(todo), Silent) = ConstraintFindings(given, given.constraints[Turn])
      BY <2>6 DEF FieldConstraint, Doing, Brings, Turn
    <3> QED BY <2>6, <3>1 DEF FieldConstraint, Doing
  <2> QED BY <2>1, <2>2, <2>3, <2>4, <2>5, <2>6
<1>2. Noted(given, Head(todo), Silent, heard, notices, suggested)
  BY <1>1 DEF Noted
<1> QED BY <1>1, <1>2, InCodeStep

LEMMA ExpressionPreserves ==
    ASSUME OpinionsIInv, RunExpression
    PROVE  OpinionsIInv'
<1>1. /\ phase = "stages" /\ todo # <<>> /\ Head(todo).step = "check"
      /\ given.checks[Head(todo).n].kind # "judgment"
  BY DEF RunExpression, Doing, IsJudgment, Turn
<1>2. Brings(given, Head(todo), Silent) = ExpressionFindings(given, given.checks[Head(todo).n])
  BY <1>1 DEF Brings
<1>3. Noted(given, Head(todo), Silent, heard, notices, suggested)
  BY <1>1 DEF Noted, RunExpression, RaisesNow, Turn
<1>4. InCode(ExpressionFindings(given, given.checks[Head(todo).n]))
  BY DEF RunExpression, Turn
<1> QED BY <1>1, <1>2, <1>3, <1>4, InCodeStep

LEMMA RaisingPreserves ==
    ASSUME OpinionsIInv, ExpressionRaises
    PROVE  OpinionsIInv'
<1>1. /\ phase' = "raised" /\ todo' = <<>>
      /\ UNCHANGED <<given, heard, findings, notices, suggested, proposals>>
  BY DEF ExpressionRaises
<1>2. OpinionsTyped'
  BY <1>1, ShortSeqs DEF OpinionsIInv, OpinionsTyped
<1>3. AnswersNoted'
  BY <1>1 DEF OpinionsIInv, AnswersNoted
<1> QED BY <1>1, <1>2, <1>3 DEF OpinionsIInv, NothingSkipped, HighOnesLeft

LEMMA CompliancePreserves ==
    ASSUME OpinionsIInv, CheckCompliance
    PROVE  OpinionsIInv'
<1>1. phase = "stages" /\ todo # <<>> /\ Head(todo).step = "compliance"
      /\ notices' = notices /\ suggested' = suggested
  BY DEF CheckCompliance, Doing
<1>2. PICK a : Asked(a, ComplianceFindings(given, given.compliance[Head(todo).n], a))
  BY DEF CheckCompliance, Turn
<1>3. Brings(given, Head(todo), a) = ComplianceFindings(given, given.compliance[Head(todo).n], a)
  BY <1>1 DEF Brings
<1>4. Noted(given, Head(todo), a, heard', notices', suggested')
  BY <1>1 DEF Noted
<1> QED BY <1>1, <1>2, <1>3, <1>4, AskedStep

LEMMA ProgrammePreserves ==
    ASSUME OpinionsIInv, CheckProgramme
    PROVE  OpinionsIInv'
<1>1. phase = "stages" /\ todo # <<>> /\ Head(todo).step = "programme" /\ notices' = notices
  BY DEF CheckProgramme, Doing
<1>2. PICK a : /\ Asked(a, ProgrammeFindings(given, a))
               /\ suggested' = (suggested \/ Agrees(given, a))
  BY DEF CheckProgramme
<1>3. Brings(given, Head(todo), a) = ProgrammeFindings(given, a)
  BY <1>1 DEF Brings
<1>4. Noted(given, Head(todo), a, heard', notices', suggested')
  BY <1>1, <1>2 DEF Noted
<1>5. suggested => suggested'
  BY <1>2
<1> QED BY <1>1, <1>2, <1>3, <1>4, <1>5, AskedStep

LEMMA JudgmentPreserves ==
    ASSUME OpinionsIInv, RunJudgment
    PROVE  OpinionsIInv'
<1> DEFINE check == given.checks[Head(todo).n]
<1>1. /\ phase = "stages" /\ todo # <<>> /\ Head(todo).step = "check"
      /\ check.kind = "judgment" /\ suggested' = suggested
  BY DEF RunJudgment, Doing, IsJudgment, Turn
<1>2. PICK a \in IF MayJudge(given, check) THEN Judgments ELSE {Silent} :
          /\ Asked(a, JudgmentFindings(given, check, a))
          /\ IF a = Silent /\ MayJudge(given, check) THEN Told("judgment", check.ref)
             ELSE UNCHANGED notices
  BY DEF RunJudgment, Turn
<1>3. Brings(given, Head(todo), a) = JudgmentFindings(given, check, a)
  BY <1>1 DEF Brings
<1>4. notices \subseteq notices'
      /\ (MayJudge(given, check) /\ a = Silent => <<"judgment", check.ref>> \in notices')
  BY <1>2 DEF Told
<1>5. <<Head(todo), a>> \in heard' => Noted(given, Head(todo), a, heard', notices', suggested')
  BY <1>1, <1>2, <1>4 DEF Noted
<1> QED BY <1>1, <1>2, <1>3, <1>4, <1>5, AskedStep

LEMMA ShapePreserves ==
    ASSUME OpinionsIInv, ReadShape
    PROVE  OpinionsIInv'
<1>1. phase = "stages" /\ todo # <<>> /\ Head(todo).step = "shape"
      /\ notices' = notices /\ suggested' = suggested
  BY DEF ReadShape, Doing
<1>2. PICK a : Asked(a, ShapeFindings(given, a))
  BY DEF ReadShape
<1>3. Brings(given, Head(todo), a) = ShapeFindings(given, a)
  BY <1>1 DEF Brings
<1>4. Noted(given, Head(todo), a, heard', notices', suggested')
  BY <1>1 DEF Noted
<1> QED BY <1>1, <1>2, <1>3, <1>4, AskedStep

LEMMA RulesPreserve ==
    ASSUME OpinionsIInv, ReadProgrammeRules
    PROVE  OpinionsIInv'
<1>1. phase = "stages" /\ todo # <<>> /\ Head(todo).step = "rules" /\ suggested' = suggested
  BY DEF ReadProgrammeRules, Doing
<1>2. PICK a : /\ Asked(a, BreachFindings(given, a))
               /\ IF a = Silent THEN Told("rules", "") ELSE UNCHANGED notices
  BY DEF ReadProgrammeRules
<1>3. Brings(given, Head(todo), a) = BreachFindings(given, a)
  BY <1>1 DEF Brings
<1>4. notices \subseteq notices' /\ (a = Silent => <<"rules", "">> \in notices')
  BY <1>2 DEF Told
<1>5. Noted(given, Head(todo), a, heard', notices', suggested')
  BY <1>1, <1>4 DEF Noted
<1> QED BY <1>1, <1>2, <1>3, <1>4, <1>5, AskedStep

LEMMA GapsPreserve ==
    ASSUME OpinionsIInv, ReadCoverageGaps
    PROVE  OpinionsIInv'
<1>1. phase = "stages" /\ todo # <<>> /\ Head(todo).step = "gaps" /\ suggested' = suggested
  BY DEF ReadCoverageGaps, Doing
<1>2. PICK a : /\ Asked(a, GapFindings(given, a))
               /\ IF a = Silent /\ Unresolved(given) # {} THEN Told("gaps", "") ELSE UNCHANGED notices
  BY DEF ReadCoverageGaps
<1>3. Brings(given, Head(todo), a) = GapFindings(given, a)
  BY <1>1 DEF Brings
<1>4. notices \subseteq notices'
      /\ (a = Silent => Unresolved(given) = {} \/ <<"gaps", "">> \in notices')
  BY <1>2 DEF Told
<1>5. Noted(given, Head(todo), a, heard', notices', suggested')
  BY <1>1, <1>4 DEF Noted
<1> QED BY <1>1, <1>2, <1>3, <1>4, <1>5, AskedStep

\* What the lenses' steps leave as it is.
LEMMA StaysDealt ==
    ASSUME OpinionsIInv, phase # "raised", given' = given, heard' = heard, suggested' = suggested,
           notices \subseteq notices',
           \A i \in DOMAIN findings : i \in DOMAIN findings' /\ Kin(findings'[i], findings[i]),
           phase = "stages" => todo = <<>>
    PROVE  AnswersNoted' /\ NothingSkipped'
<1>1. \A h \in heard : /\ h = <<h[1], h[2]>>
                       /\ Noted(given, h[1], h[2], heard, notices, suggested)
                       /\ h[1].step = "check" => given.checks[h[1].n].kind = "judgment"
  BY DEF OpinionsIInv, AnswersNoted
<1>2. ASSUME NEW h \in heard PROVE Noted(given, h[1], h[2], heard, notices', suggested)
  BY <1>1, NotedGrows
<1>3. AnswersNoted'
  BY <1>1, <1>2 DEF AnswersNoted
<1>4. ASSUME NEW j \in DOMAIN Items(given)
      PROVE  Dealt(given, Items(given)[j], findings', heard, notices', suggested)
  <2>1. Dealt(given, Items(given)[j], findings, heard, notices, suggested)
    BY OccursInShort DEF OpinionsIInv, NothingSkipped
  <2> DEFINE item == Items(given)[j]
             F == findings'
             N == notices'
  <2>2. /\ \A i \in DOMAIN findings : i \in DOMAIN F /\ Kin(F[i], findings[i])
        /\ notices \subseteq N
    OBVIOUS
  <2>3. Dealt(given, item, findings, heard, notices, suggested)
    BY <2>1
  <2> HIDE DEF item, F, N
  <2>4. Dealt(given, item, F, heard, N, suggested)
    BY <2>2, <2>3, DealtGrows
  <2> QED BY <2>4 DEF item, F, N
<1> QED BY <1>3, <1>4 DEF NothingSkipped

LEMMA StartPreserves ==
    ASSUME OpinionsIInv, StartLenses
    PROVE  OpinionsIInv'
<1> DEFINE high == {Item("lens", i) : i \in {k \in DOMAIN findings : High(k)}}
           each == Each("lens", findings)
<1>1. /\ phase = "stages" /\ todo = <<>>
      /\ phase' = IF given.lenses = {} THEN "done" ELSE "lenses"
      /\ todo' = IF given.lenses = {} THEN <<>> ELSE Kept(each, high)
      /\ IF given.lenses = {} /\ \E i \in DOMAIN findings : High(i)
         THEN Told("off", "") ELSE UNCHANGED notices
      /\ UNCHANGED <<given, heard, findings, suggested, unread, proposals>>
  BY DEF StartLenses
<1>2. notices \subseteq notices'
      /\ (given.lenses = {} /\ (\E i \in DOMAIN findings : High(i)) => <<"off", "">> \in notices')
  BY <1>1 DEF Told
<1>3. AreFindings(findings) /\ IsSeq(findings)
  BY DEF OpinionsIInv, OpinionsTyped, AreFindings
<1>4. IsSeq(each) /\ \A x : Occurs(x, each) <=> \E n \in DOMAIN findings : x = Item("lens", n)
  BY <1>3, EachFacts
<1> HIDE DEF each, high
<1>5. IsSeq(Kept(each, high)) /\ \A x : Occurs(x, Kept(each, high)) <=> Occurs(x, each) /\ x \in high
  BY <1>4, OccursInKept
<1>6. AnswersNoted' /\ NothingSkipped'
  <2>1. \A i \in DOMAIN findings : i \in DOMAIN findings' /\ Kin(findings'[i], findings[i])
    BY <1>1, KinOfItself
  <2> QED BY <1>1, <1>2, <2>1, StaysDealt
<1>7. OpinionsTyped'
  <2>1. \A k \in DOMAIN Kept(each, high) : \E i \in DOMAIN findings : Kept(each, high)[k] = Item("lens", i)
    BY <1>4, <1>5 DEF Occurs
  <2>2. IsSeq(todo')
    BY <1>1, <1>5, ShortSeqs
  <2>3. phase' = "lenses" => todo' = Kept(each, high)
    BY <1>1
  <2> QED BY <1>1, <2>1, <2>2, <2>3 DEF OpinionsIInv, OpinionsTyped
<1>8. HighOnesLeft'
  <2> SUFFICES ASSUME NEW i \in DOMAIN findings, High(i)
               PROVE  /\ phase' = "lenses" => Occurs(Item("lens", i), todo')
                      /\ phase' = "done" => <<"off", "">> \in notices'
    BY <1>1 DEF HighOnesLeft, High
  <2>1. Item("lens", i) \in high
    BY DEF high
  <2>2. Occurs(Item("lens", i), Kept(each, high))
    BY <2>1, <1>4, <1>5
  <2> QED BY <1>1, <1>2, <2>2
<1> QED BY <1>6, <1>7, <1>8 DEF OpinionsIInv

LEMMA JudgedFacts ==
    ASSUME NEW f, IsFinding(f), NEW opinions
    PROVE  /\ IsFinding(Judged(f, opinions)) /\ Kin(Judged(f, opinions), f)
           /\ (\E l \in DOMAIN opinions : opinions[l] # "silent") => Judged(f, opinions).verified
           /\ f.verified => Judged(f, opinions).verified
<1>1. CASE \A l \in DOMAIN opinions : opinions[l] = "silent"
  BY <1>1 DEF Judged, IsFinding, Kin
<1>2. CASE ~(\A l \in DOMAIN opinions : opinions[l] = "silent")
           /\ \E l \in DOMAIN opinions : opinions[l] = "disagrees"
  <2>1. Judged(f, opinions) = [f EXCEPT !.verified = TRUE, !.severity = "review"]
    BY <1>2 DEF Judged
  <2> QED BY <2>1 DEF IsFinding, Kin
<1>3. CASE ~(\A l \in DOMAIN opinions : opinions[l] = "silent")
           /\ ~(\E l \in DOMAIN opinions : opinions[l] = "disagrees")
  <2>1. Judged(f, opinions) = [f EXCEPT !.verified = TRUE]
    BY <1>3, Zenon DEF Judged
  <2> QED BY <2>1 DEF IsFinding, Kin
<1> QED BY <1>1, <1>2, <1>3

LEMMA ReadingNext ==
    ASSUME OpinionsIInv, Reading
    PROVE  /\ phase = "lenses" /\ Turn \in DOMAIN findings /\ Head(todo) = Item("lens", Turn)
           /\ IsSeq(Tail(todo))
           /\ \A x : Occurs(x, todo) <=> x = Head(todo) \/ Occurs(x, Tail(todo))
           /\ \A k \in DOMAIN Tail(todo) : \E i \in DOMAIN findings : Tail(todo)[k] = Item("lens", i)
<1>1. phase = "lenses" /\ todo # <<>>
  BY DEF Reading
<1>2. IsSeq(todo) /\ \A k \in DOMAIN todo : \E i \in DOMAIN findings : todo[k] = Item("lens", i)
  BY <1>1 DEF OpinionsIInv, OpinionsTyped
<1>3. /\ 1 \in DOMAIN todo /\ Head(todo) = todo[1] /\ IsSeq(Tail(todo))
      /\ \A j \in DOMAIN Tail(todo) : \E i \in DOMAIN todo : Tail(todo)[j] = todo[i]
  BY <1>1, <1>2, RestOfSeq
<1>4. \A x : Occurs(x, todo) <=> x = Head(todo) \/ Occurs(x, Tail(todo))
  BY <1>1, <1>2, OccursInTail
<1>5. PICK i \in DOMAIN findings : Head(todo) = Item("lens", i)
  BY <1>2, <1>3
<1>6. Turn = i
  BY <1>5, ItemFacts DEF Turn
<1>7. \A k \in DOMAIN Tail(todo) : \E n \in DOMAIN findings : Tail(todo)[k] = Item("lens", n)
  BY <1>2, <1>3
<1> QED BY <1>1, <1>3, <1>4, <1>5, <1>6, <1>7

LEMMA SecondPreserves ==
    ASSUME OpinionsIInv, SecondOpinion
    PROVE  OpinionsIInv'
<1>1. Reading
  BY DEF SecondOpinion
<1>2. PICK opinions \in [given.lenses -> {"silent", "agrees", "disagrees"}], title \in Titles \cup {NoTitle} :
          LET answered == {l \in given.lenses : opinions[l] # "silent"}
          IN  /\ findings' = [findings EXCEPT ![Turn] = Judged(@, opinions)]
              /\ unread' = IF answered = {} THEN unread \cup {Turn} ELSE unread
              /\ proposals' = IF title = NoTitle THEN proposals
                              ELSE Append(proposals, [title |-> title, from |-> Turn])
  BY DEF SecondOpinion
<1>3. todo' = Tail(todo) /\ UNCHANGED <<given, heard, notices, suggested, phase>>
  BY DEF SecondOpinion
<1>4. AreFindings(findings) /\ IsSeq(proposals)
  BY DEF OpinionsIInv, OpinionsTyped
<1>5. /\ DOMAIN findings' = DOMAIN findings
      /\ findings' = [i \in DOMAIN findings |-> findings'[i]]
      /\ findings'[Turn] = Judged(findings[Turn], opinions)
      /\ \A i \in DOMAIN findings : i # Turn => findings'[i] = findings[i]
  BY <1>1, <1>2, ReadingNext
<1>6. IsFinding(findings[Turn])
  BY <1>1, <1>4, ReadingNext DEF AreFindings
<1>7. \A i \in DOMAIN findings : IsFinding(findings'[i]) /\ Kin(findings'[i], findings[i])
  BY <1>4, <1>5, <1>6, JudgedFacts, KinOfItself DEF AreFindings
<1>8. AreFindings(findings')
  BY <1>4, <1>5, <1>7, FindingsAlong DEF AreFindings
<1>9. IsSeq(proposals')
  <2>1. CASE title = NoTitle
    BY <2>1, <1>2, <1>4
  <2>2. CASE title # NoTitle
    <3> DEFINE p == [title |-> title, from |-> Turn]
               S == ToSet(proposals) \cup {p}
    <3>1. proposals' = Append(proposals, p)
      BY <2>2, <1>2
    <3>2. \A i \in DOMAIN proposals : proposals[i] \in S
      BY DEF ToSet
    <3>3. p \in S
      OBVIOUS
    <3> HIDE DEF S, p
    <3>4. proposals \in Seq(S)
      BY <1>4, <3>2 DEF IsSeq
    <3>5. Append(proposals, p) \in Seq(S)
      BY <3>3, <3>4
    <3> QED BY <3>1, <3>5, SeqIs
  <2> QED BY <2>1, <2>2
<1>10. AnswersNoted' /\ NothingSkipped'
  <2>1. phase = "lenses"
    BY <1>1, ReadingNext
  <2> QED BY <1>3, <1>5, <1>7, <2>1, StaysDealt
<1>11. OpinionsTyped'
  <2>1. phase = "lenses" /\ IsSeq(Tail(todo))
        /\ \A k \in DOMAIN Tail(todo) : \E i \in DOMAIN findings : Tail(todo)[k] = Item("lens", i)
    BY <1>1, ReadingNext
  <2>2. given \in Orders
    BY DEF OpinionsIInv, OpinionsTyped
  <2> QED BY <1>3, <1>5, <1>8, <1>9, <2>1, <2>2 DEF OpinionsTyped
<1>12. HighOnesLeft'
  <2> SUFFICES ASSUME NEW i \in DOMAIN findings, findings'[i].severity = "high" /\ ~findings'[i].verified
               PROVE  i \in unread' \/ Occurs(Item("lens", i), Tail(todo))
    BY <1>1, <1>3, <1>5, ReadingNext DEF HighOnesLeft, High
  <2>1. CASE i = Turn
    <3>1. ~(\E l \in DOMAIN opinions : opinions[l] # "silent")
      BY <2>1, <1>5, <1>6, JudgedFacts
    <3>2. {l \in given.lenses : opinions[l] # "silent"} = {}
      BY <3>1
    <3> QED BY <2>1, <1>2, <3>2
  <2>2. CASE i # Turn
    <3>1. High(i)
      BY <2>2, <1>5 DEF High
    <3>2. i \in unread \/ Occurs(Item("lens", i), todo)
      BY <3>1, <1>1, ReadingNext DEF OpinionsIInv, HighOnesLeft
    <3>3. Item("lens", i) # Head(todo)
      BY <2>2, <1>1, ReadingNext, ItemFacts
    <3>4. unread \subseteq unread'
      BY <1>2
    <3> QED BY <3>2, <3>3, <3>4, <1>1, ReadingNext
  <2> QED BY <2>1, <2>2
<1> QED BY <1>10, <1>11, <1>12 DEF OpinionsIInv

LEMMA NoOpinionPreserves ==
    ASSUME OpinionsIInv, NoOpinion
    PROVE  OpinionsIInv'
<1>1. Reading /\ unread' = unread \cup {Turn} /\ notices' = notices \cup {<<"capped", "">>}
      /\ todo' = Tail(todo) /\ UNCHANGED <<given, heard, findings, suggested, proposals, phase>>
  BY DEF NoOpinion, PastTheCap, Told
<1>2. AnswersNoted' /\ NothingSkipped'
  <2>1. \A i \in DOMAIN findings : i \in DOMAIN findings' /\ Kin(findings'[i], findings[i])
    BY <1>1, KinOfItself
  <2> QED BY <1>1, <2>1, ReadingNext, StaysDealt
<1>3. OpinionsTyped'
  BY <1>1, ReadingNext DEF OpinionsIInv, OpinionsTyped
<1>4. HighOnesLeft'
  <2> SUFFICES ASSUME NEW i \in DOMAIN findings, High(i)
               PROVE  i \in unread' \/ Occurs(Item("lens", i), Tail(todo))
    BY <1>1, ReadingNext DEF HighOnesLeft, High
  <2>1. i \in unread \/ Occurs(Item("lens", i), todo)
    BY <1>1, ReadingNext DEF OpinionsIInv, HighOnesLeft
  <2>2. Item("lens", i) = Head(todo) => i = Turn
    <3>1. Head(todo) = Item("lens", Turn)
      BY <1>1, ReadingNext
    <3>2. Item("lens", i).n = i /\ Item("lens", Turn).n = Turn
      BY ItemFacts
    <3> QED BY <3>1, <3>2
  <2> QED BY <1>1, <2>1, <2>2, ReadingNext
<1> QED BY <1>2, <1>3, <1>4 DEF OpinionsIInv

LEMMA ProposedFacts ==
    ASSUME IsSeq(proposals)
    PROVE  AreFindings(Proposed) /\ \A i \in DOMAIN Proposed : Proposed[i].severity = "review"
<1> DEFINE first == Kept([i \in DOMAIN proposals |-> i],
                         {i \in DOMAIN proposals :
                             \A k \in 1 .. i - 1 : proposals[k].title # proposals[i].title})
           t == [i \in DOMAIN first |->
                   Finding("proposal", proposals[first[i]].title, proposals[first[i]].from,
                           "lens_proposed", "review", FALSE, "model")]
<1>1. Proposed = t
  BY DEF Proposed
<1>2. IsSeq(first)
  <2> DEFINE u == [i \in DOMAIN proposals |-> i]
  <2>1. u = [i \in DOMAIN proposals |-> u[i]]
    OBVIOUS
  <2> HIDE DEF u
  <2>2. IsSeq(u)
    BY <2>1, AlongSeq
  <2> QED BY <2>2, OccursInKept DEF u
<1> HIDE DEF first
<1>3. t = [i \in DOMAIN first |-> t[i]]
      /\ \A i \in DOMAIN first : IsFinding(t[i]) /\ t[i].severity = "review"
  <2> DEFINE of(i) == proposals[first[i]].title
             n(i) == proposals[first[i]].from
  <2>1. t = [i \in DOMAIN first |-> Finding("proposal", of(i), n(i), "lens_proposed", "review", FALSE,
                                            "model")]
    OBVIOUS
  <2> HIDE DEF of, n, t
  <2>2. \A i : LET f == Finding("proposal", of(i), n(i), "lens_proposed", "review", FALSE, "model")
               IN  IsFinding(f) /\ f.severity = "review"
    BY DEF Finding, IsFinding
  <2> QED BY <2>1, <2>2
<1> HIDE DEF t
<1>4. AreFindings(t) /\ DOMAIN t = DOMAIN first
  BY <1>2, <1>3, FindingsAlong, AlongSeq
<1> QED BY <1>1, <1>3, <1>4

LEMMA EndPreserves ==
    ASSUME OpinionsIInv, EndLenses
    PROVE  OpinionsIInv'
<1>1. /\ phase = "lenses" /\ todo = <<>> /\ phase' = "done" /\ findings' = findings \o Proposed
      /\ IF unread # {} THEN Told("unread", "") ELSE UNCHANGED notices
      /\ UNCHANGED <<given, todo, heard, suggested, unread, proposals>>
  BY DEF EndLenses
<1>2. AreFindings(findings) /\ IsSeq(proposals)
  BY DEF OpinionsIInv, OpinionsTyped
<1>3. AreFindings(Proposed) /\ \A i \in DOMAIN Proposed : Proposed[i].severity = "review"
  BY <1>2, ProposedFacts
<1>4. /\ AreFindings(findings')
      /\ \A i \in DOMAIN findings : i \in DOMAIN findings' /\ findings'[i] = findings[i]
      /\ \A i \in DOMAIN findings' :
             i \in DOMAIN findings \/ \E k \in DOMAIN Proposed : findings'[i] = Proposed[k]
  <2>1. findings' = findings \o Proposed /\ AreFindings(Proposed)
    BY <1>1, <1>3
  <2>2. AreFindings(findings')
    BY <1>2, <2>1, AddedFindings
  <2>3. \A i \in DOMAIN findings : i \in DOMAIN findings' /\ findings'[i] = findings[i]
    BY <1>2, <2>1, AddedFindings
  <2>4. \A i \in DOMAIN findings' :
            i \in DOMAIN findings \/ \E k \in DOMAIN Proposed : findings'[i] = Proposed[k]
    BY <1>2, <2>1, AddedFindings, SMTT(40)
  <2> QED BY <2>2, <2>3, <2>4
<1>5. notices \subseteq notices' /\ (unread # {} => <<"unread", "">> \in notices')
  BY <1>1 DEF Told
<1>6. AnswersNoted' /\ NothingSkipped'
  <2>1. \A i \in DOMAIN findings : i \in DOMAIN findings' /\ Kin(findings'[i], findings[i])
    BY <1>4, KinOfItself
  <2> QED BY <1>1, <1>5, <2>1, StaysDealt
<1>7. OpinionsTyped'
  BY <1>1, <1>4 DEF OpinionsIInv, OpinionsTyped
<1>8. HighOnesLeft'
  <2> SUFFICES ASSUME NEW i \in DOMAIN findings', findings'[i].severity = "high", ~findings'[i].verified
               PROVE  i \in unread /\ <<"unread", "">> \in notices'
    BY <1>1 DEF HighOnesLeft, High
  <2>1. i \in DOMAIN findings
    BY <1>3, <1>4
  <2>2. High(i)
    BY <2>1, <1>4 DEF High
  <2>3. i \in unread \/ Occurs(Item("lens", i), todo)
    BY <1>1, <2>1, <2>2 DEF OpinionsIInv, HighOnesLeft
  <2> QED BY <1>1, <1>5, <2>3, OccursInShort
<1> QED BY <1>6, <1>7, <1>8 DEF OpinionsIInv

LEMMA OpinionsInvariance == OpinionsSpec => []OpinionsIInv
<1>1. OpinionsInit => OpinionsIInv
  <2> SUFFICES ASSUME OpinionsInit PROVE OpinionsIInv
    OBVIOUS
  <2>1. /\ given \in Orders /\ todo = Items(given) /\ heard = {} /\ findings = <<>>
        /\ proposals = <<>> /\ phase = "stages"
    BY DEF OpinionsInit
  <2>2. IsSeq(todo) /\ \A x : Occurs(x, todo) => OfTheStages(given, x)
    BY <2>1, ItemsFacts
  <2>3. \A k \in DOMAIN todo : Occurs(todo[k], todo)
    BY DEF Occurs
  <2>4. OpinionsTyped
    BY <2>1, <2>2, <2>3, FewAreFindings, ShortSeqs DEF OpinionsTyped
  <2>5. NothingSkipped
    BY <2>1, <2>3 DEF NothingSkipped
  <2> QED BY <2>1, <2>4, <2>5 DEF OpinionsIInv, AnswersNoted, HighOnesLeft
<1>2. OpinionsIInv /\ [OpinionsNext]_opinionVars => OpinionsIInv'
  <2> SUFFICES ASSUME OpinionsIInv, [OpinionsNext]_opinionVars PROVE OpinionsIInv'
    OBVIOUS
  <2>1. CASE UNCHANGED opinionVars
    BY <2>1 DEF opinionVars, OpinionsIInv, OpinionsTyped, AnswersNoted, NothingSkipped, HighOnesLeft, High
  <2>2. CASE OpinionsNext
    BY <2>2, InCodePreserves, ExpressionPreserves, RaisingPreserves, CompliancePreserves,
       ProgrammePreserves, JudgmentPreserves, ShapePreserves, RulesPreserve, GapsPreserve,
       StartPreserves, SecondPreserves, NoOpinionPreserves, EndPreserves DEF OpinionsNext
  <2> QED BY <2>1, <2>2
<1> QED BY <1>1, <1>2, PTL DEF OpinionsSpec

----------------------------------------------------------------------------
(* Expressions: what a part comes to, and why a value that is there decides *)

\* The expressions of the first n layers.
UpTo(n) == UNION {Layers[k] : k \in {m \in DOMAIN Layers : m <= n}}

LEMMA LayersInOrder ==
    /\ DOMAIN Layers = 1 .. Len(Layers) /\ Len(Layers) \in Nat
    /\ UpTo(0) = {} /\ UpTo(Len(Layers)) = Expressions
    /\ \A n \in 0 .. Len(Layers) - 1 :
           UpTo(n) \subseteq UpTo(n + 1)
           /\ \A x \in UpTo(n + 1) : \A i \in DOMAIN x.args : x.args[i] \in UpTo(n)
    /\ \A n \in 0 .. Len(Layers) : UpTo(n) \subseteq Expressions
<1>1. DOMAIN Layers = 1 .. Len(Layers) /\ Len(Layers) \in Nat
  BY LayersAssumption, SeqIn
<1>2. UpTo(0) = {} /\ UpTo(Len(Layers)) = Expressions
  BY <1>1 DEF UpTo, Expressions
<1>3. ASSUME NEW n \in 0 .. Len(Layers) - 1
      PROVE  UpTo(n) \subseteq UpTo(n + 1)
             /\ \A x \in UpTo(n + 1) : \A i \in DOMAIN x.args : x.args[i] \in UpTo(n)
  <2>1. UpTo(n) \subseteq UpTo(n + 1)
    BY <1>1 DEF UpTo
  <2>2. ASSUME NEW x \in UpTo(n + 1), NEW i \in DOMAIN x.args PROVE x.args[i] \in UpTo(n)
    <3>1. PICK k \in DOMAIN Layers : k <= n + 1 /\ x \in Layers[k]
      BY DEF UpTo
    <3>2. PICK m \in 1 .. k - 1 : x.args[i] \in Layers[m]
      BY <3>1, LayersAssumption
    <3>3. m \in DOMAIN Layers /\ m <= n
      BY <1>1, <3>1
    <3> QED BY <3>2, <3>3 DEF UpTo
  <2> QED BY <2>1, <2>2
<1>4. \A n \in 0 .. Len(Layers) : UpTo(n) \subseteq Expressions
  BY DEF UpTo, Expressions
<1> QED BY <1>1, <1>2, <1>3, <1>4

\* g says what every expression of a set comes to.
Evaluates(g, S, values) ==
    \A x \in S : g[x] = Came(x, [i \in DOMAIN x.args |-> g[x.args[i]]], values)

LEMMA EvaluationExists ==
    ASSUME NEW values
    PROVE  \E g : DOMAIN g = Expressions /\ g = [x \in Expressions |-> g[x]]
                  /\ Evaluates(g, Expressions, values)
<1> DEFINE fine(n) == \E g : /\ g = [x \in UpTo(n) |-> g[x]]
                             /\ Evaluates(g, UpTo(n), values)
           bad == {n \in 0 .. Len(Layers) : ~fine(n)}
<1>1. fine(0)
  <2>1. UpTo(0) = {}
    BY LayersInOrder
  <2> DEFINE g == [x \in UpTo(0) |-> x]
  <2>2. g = [x \in UpTo(0) |-> g[x]]
    OBVIOUS
  <2>3. Evaluates(g, UpTo(0), values)
    BY <2>1 DEF Evaluates
  <2> HIDE DEF g
  <2> QED BY <2>2, <2>3
<1>2. ASSUME NEW n \in 0 .. Len(Layers) - 1, fine(n) PROVE fine(n + 1)
  <2>1. PICK g : g = [x \in UpTo(n) |-> g[x]] /\ Evaluates(g, UpTo(n), values)
    BY <1>2
  <2> DEFINE came(x) == Came(x, [i \in DOMAIN x.args |-> g[x.args[i]]], values)
             h == [x \in UpTo(n + 1) |-> IF x \in UpTo(n) THEN g[x] ELSE came(x)]
  <2>2. UpTo(n) \subseteq UpTo(n + 1)
        /\ \A x \in UpTo(n + 1) : \A i \in DOMAIN x.args : x.args[i] \in UpTo(n)
    BY LayersInOrder
  <2>3. \A x \in UpTo(n) : g[x] = came(x)
    BY <2>1 DEF Evaluates
  <2>4. h = [x \in UpTo(n + 1) |-> h[x]]
        /\ (\A x \in UpTo(n) : h[x] = g[x])
        /\ \A x \in UpTo(n + 1) : h[x] = IF x \in UpTo(n) THEN g[x] ELSE came(x)
    BY <2>2
  <2>5. \A x \in UpTo(n + 1) : h[x] = came(x)
    <3> HIDE DEF came, h
    <3> QED BY <2>3, <2>4
  <2> HIDE DEF h
  <2>6. ASSUME NEW x \in UpTo(n + 1)
        PROVE  h[x] = Came(x, [i \in DOMAIN x.args |-> h[x.args[i]]], values)
    <3>1. [i \in DOMAIN x.args |-> h[x.args[i]]] = [i \in DOMAIN x.args |-> g[x.args[i]]]
      BY <2>2, <2>4
    <3> QED BY <3>1, <2>5
  <2>7. Evaluates(h, UpTo(n + 1), values)
    BY <2>6 DEF Evaluates
  <2> QED BY <2>4, <2>7
<1> HIDE DEF fine
<1>3. bad = {}
  <2> SUFFICES ASSUME bad # {} PROVE FALSE
    OBVIOUS
  <2>1. PICK m \in bad : \A k \in bad : m <= k
    <3>1. bad \in SUBSET Nat
      BY LayersInOrder
    <3> HIDE DEF bad
    <3> QED BY <3>1, Smallest
  <2>2. m \in 0 .. Len(Layers) /\ ~fine(m) /\ m # 0
    BY <2>1, <1>1
  <2>3. m - 1 \in 0 .. Len(Layers) - 1 /\ m - 1 \notin bad /\ (m - 1) + 1 = m
    BY <2>1, <2>2, LayersInOrder
  <2>4. fine(m - 1)
    BY <2>3, LayersInOrder
  <2>5. fine((m - 1) + 1)
    BY <2>3, <2>4, <1>2
  <2> QED BY <2>2, <2>3, <2>5
<1>4. fine(Len(Layers))
  BY <1>3, LayersInOrder
<1>5. PICK g : g = [x \in UpTo(Len(Layers)) |-> g[x]] /\ Evaluates(g, UpTo(Len(Layers)), values)
  BY <1>4 DEF fine
<1> QED BY <1>5, LayersInOrder

\* What an expression comes to is told by what its parts come to.
LEMMA EvalFacts ==
    ASSUME NEW values, NEW e \in Expressions
    PROVE  Eval(e, values) = Came(e, [i \in DOMAIN e.args |-> Eval(e.args[i], values)], values)
<1> DEFINE ev == CHOOSE g : g = [x \in Expressions |->
                     Came(x, [i \in DOMAIN x.args |-> g[x.args[i]]], values)]
<1>1. PICK g : g = [x \in Expressions |-> g[x]] /\ Evaluates(g, Expressions, values)
  BY EvaluationExists
<1>2. g = [x \in Expressions |-> Came(x, [i \in DOMAIN x.args |-> g[x.args[i]]], values)]
  <2> DEFINE came(x) == Came(x, [i \in DOMAIN x.args |-> g[x.args[i]]], values)
  <2>1. \A x \in Expressions : g[x] = came(x)
    BY <1>1 DEF Evaluates
  <2> HIDE DEF came
  <2>2. g = [x \in Expressions |-> came(x)]
    BY <1>1, <2>1
  <2> QED BY <2>2 DEF came
<1>3. ev = [x \in Expressions |-> Came(x, [i \in DOMAIN x.args |-> ev[x.args[i]]], values)]
  BY <1>2
<1>4. \A x : Eval(x, values) = ev[x]
  BY DEF Eval
<1> HIDE DEF ev
<1>5. ev[e] = Came(e, [i \in DOMAIN e.args |-> ev[e.args[i]]], values)
  BY <1>3
<1> QED BY <1>4, <1>5

\* The names of an expression, told the names of its parts.
NamesFrom(x, parts) == IF x.op = "name" THEN {x.name} ELSE UNION {parts[i] : i \in DOMAIN x.args}
Names(g, S) == \A x \in S : g[x] = NamesFrom(x, [i \in DOMAIN x.args |-> g[x.args[i]]])

LEMMA NamesExist ==
    \E g : DOMAIN g = Expressions /\ g = [x \in Expressions |-> g[x]]
                  /\ Names(g, Expressions)
<1> DEFINE fine(n) == \E g : /\ g = [x \in UpTo(n) |-> g[x]]
                             /\ Names(g, UpTo(n))
           bad == {n \in 0 .. Len(Layers) : ~fine(n)}
<1>1. fine(0)
  <2>1. UpTo(0) = {}
    BY LayersInOrder
  <2> DEFINE g == [x \in UpTo(0) |-> x]
  <2>2. g = [x \in UpTo(0) |-> g[x]]
    OBVIOUS
  <2>3. Names(g, UpTo(0))
    BY <2>1 DEF Names
  <2> HIDE DEF g
  <2> QED BY <2>2, <2>3
<1>2. ASSUME NEW n \in 0 .. Len(Layers) - 1, fine(n) PROVE fine(n + 1)
  <2>1. PICK g : g = [x \in UpTo(n) |-> g[x]] /\ Names(g, UpTo(n))
    BY <1>2
  <2> DEFINE came(x) == NamesFrom(x, [i \in DOMAIN x.args |-> g[x.args[i]]])
             h == [x \in UpTo(n + 1) |-> IF x \in UpTo(n) THEN g[x] ELSE came(x)]
  <2>2. UpTo(n) \subseteq UpTo(n + 1)
        /\ \A x \in UpTo(n + 1) : \A i \in DOMAIN x.args : x.args[i] \in UpTo(n)
    BY LayersInOrder
  <2>3. \A x \in UpTo(n) : g[x] = came(x)
    BY <2>1 DEF Names
  <2>4. h = [x \in UpTo(n + 1) |-> h[x]]
        /\ (\A x \in UpTo(n) : h[x] = g[x])
        /\ \A x \in UpTo(n + 1) : h[x] = IF x \in UpTo(n) THEN g[x] ELSE came(x)
    BY <2>2
  <2>5. \A x \in UpTo(n + 1) : h[x] = came(x)
    <3> HIDE DEF came, h
    <3> QED BY <2>3, <2>4
  <2> HIDE DEF h
  <2>6. ASSUME NEW x \in UpTo(n + 1)
        PROVE  h[x] = NamesFrom(x, [i \in DOMAIN x.args |-> h[x.args[i]]])
    <3>1. [i \in DOMAIN x.args |-> h[x.args[i]]] = [i \in DOMAIN x.args |-> g[x.args[i]]]
      BY <2>2, <2>4
    <3> QED BY <3>1, <2>5
  <2>7. Names(h, UpTo(n + 1))
    BY <2>6 DEF Names
  <2> QED BY <2>4, <2>7
<1> HIDE DEF fine
<1>3. bad = {}
  <2> SUFFICES ASSUME bad # {} PROVE FALSE
    OBVIOUS
  <2>1. PICK m \in bad : \A k \in bad : m <= k
    <3>1. bad \in SUBSET Nat
      BY LayersInOrder
    <3> HIDE DEF bad
    <3> QED BY <3>1, Smallest
  <2>2. m \in 0 .. Len(Layers) /\ ~fine(m) /\ m # 0
    BY <2>1, <1>1
  <2>3. m - 1 \in 0 .. Len(Layers) - 1 /\ m - 1 \notin bad /\ (m - 1) + 1 = m
    BY <2>1, <2>2, LayersInOrder
  <2>4. fine(m - 1)
    BY <2>3, LayersInOrder
  <2>5. fine((m - 1) + 1)
    BY <2>3, <2>4, <1>2
  <2> QED BY <2>2, <2>3, <2>5
<1>4. fine(Len(Layers))
  BY <1>3, LayersInOrder
<1>5. PICK g : g = [x \in UpTo(Len(Layers)) |-> g[x]] /\ Names(g, UpTo(Len(Layers)))
  BY <1>4 DEF fine
<1> QED BY <1>5, LayersInOrder

LEMMA NamesFacts ==
    ASSUME NEW e \in Expressions
    PROVE  /\ e.op = "name" => ReferencedNames(e) = {e.name}
           /\ e.op # "name" => \A i \in DOMAIN e.args : ReferencedNames(e.args[i]) \subseteq ReferencedNames(e)
<1> DEFINE nm == CHOOSE g : g = [x \in Expressions |->
                     IF x.op = "name" THEN {x.name} ELSE UNION {g[x.args[i]] : i \in DOMAIN x.args}]
           of(g, x) == IF x.op = "name" THEN {x.name} ELSE UNION {g[x.args[i]] : i \in DOMAIN x.args}
<1>1. PICK g : g = [x \in Expressions |-> g[x]] /\ Names(g, Expressions)
  BY NamesExist
<1>2. g = [x \in Expressions |-> of(g, x)]
  <2>1. ASSUME NEW x \in Expressions PROVE g[x] = of(g, x)
    <3> DEFINE parts == [i \in DOMAIN x.args |-> g[x.args[i]]]
    <3>1. g[x] = NamesFrom(x, parts)
      BY <1>1 DEF Names
    <3>2. {parts[i] : i \in DOMAIN x.args} = {g[x.args[i]] : i \in DOMAIN x.args}
      OBVIOUS
    <3> HIDE DEF parts
    <3> QED BY <3>1, <3>2 DEF NamesFrom
  <2> HIDE DEF of
  <2> QED BY <1>1, <2>1
<1>3. nm = [x \in Expressions |-> of(nm, x)]
  BY <1>2, ZenonT(60)
<1>4. \A x : ReferencedNames(x) = nm[x]
  BY DEF ReferencedNames
<1> HIDE DEF nm
<1>5. nm[e] = of(nm, e)
  BY <1>3
<1> QED BY <1>4, <1>5

\* A failure is passed on: where the whole has a value, every part has one.
LEMMA FailurePassedOn ==
    ASSUME NEW parts, DOMAIN parts \subseteq Nat, NEW otherwise,
           ~Failed(FirstFailure(parts, otherwise))
    PROVE  /\ \A i \in DOMAIN parts : ~Failed(parts[i])
           /\ FirstFailure(parts, otherwise) = otherwise
<1> DEFINE bad == {i \in DOMAIN parts : Failed(parts[i])}
<1>1. bad = {}
  <2> SUFFICES ASSUME bad # {} PROVE FALSE
    OBVIOUS
  <2>1. \E m \in bad : \A k \in bad : m <= k
    <3>1. bad \in SUBSET Nat
      OBVIOUS
    <3> HIDE DEF bad
    <3> QED BY <3>1, Smallest
  <2> DEFINE first == CHOOSE i \in bad : \A k \in bad : i <= k
  <2>2. first \in bad
    <3> HIDE DEF bad
    <3> QED BY <2>1
  <2>3. FirstFailure(parts, otherwise) = parts[first]
    BY DEF FirstFailure
  <2> HIDE DEF first
  <2> QED BY <2>2, <2>3
<1>2. FirstFailure(parts, otherwise) = otherwise
  BY <1>1 DEF FirstFailure
<1> QED BY <1>1, <1>2

LEMMA LinkOfTwo ==
    ASSUME NEW a, NEW b, NEW otherwise, ~Failed(FirstFailure(<<a, b>>, otherwise))
    PROVE  ~Failed(a) /\ ~Failed(b)
<1> DEFINE two == <<a, b>>
<1>1. DOMAIN two = {1, 2} /\ two[1] = a /\ two[2] = b
  OBVIOUS
<1>2. ~Failed(FirstFailure(two, otherwise))
  OBVIOUS
<1> HIDE DEF two
<1>3. DOMAIN two \subseteq Nat
  BY <1>1
<1>4. \A i \in DOMAIN two : ~Failed(two[i])
  BY <1>2, <1>3, FailurePassedOn
<1> QED BY <1>1, <1>4

\* The first of a set of natural numbers is one.
LEMMA FirstIsFirst ==
    ASSUME NEW S \in SUBSET Nat, NEW m \in S, \A k \in S : m <= k
    PROVE  m = CHOOSE i \in S : \A k \in S : i <= k
<1> DEFINE c == CHOOSE i \in S : \A k \in S : i <= k
<1>1. c \in S /\ \A k \in S : c <= k
  OBVIOUS
<1> HIDE DEF c
<1>2. m <= c /\ c <= m /\ m \in Nat /\ c \in Nat
  BY <1>1
<1>3. m = c
  BY <1>2
<1> QED BY <1>3 DEF c

LEMMA TruthIsNoFailure == ~Failed(Truth(TRUE))
BY DEF Failed, Truth, Value

\* Parts that have a value in the one have the same in the other; so has the whole.
LEMMA CameTheSame ==
    ASSUME NEW e \in Expressions, NEW p, NEW q, NEW V, NEW W,
           p = [i \in DOMAIN e.args |-> p[i]], q = [i \in DOMAIN e.args |-> q[i]],
           \A i \in DOMAIN e.args : ~Failed(p[i]) => q[i] = p[i],
           e.op = "name" => (Known(e.name, V) => Known(e.name, W) /\ W[e.name] = V[e.name]),
           ~Failed(Came(e, p, V))
    PROVE  Came(e, q, W) = Came(e, p, V)
<1>1. /\ IsSeq(e.args) /\ DOMAIN e.args = 1 .. Len(e.args) /\ Len(e.args) \in Nat
      /\ DOMAIN p = DOMAIN e.args /\ DOMAIN q = DOMAIN e.args /\ DOMAIN p \subseteq Nat
  <2>1. IsSeq(e.args)
    BY LayersAssumption
  <2>2. DOMAIN e.args = 1 .. Len(e.args) /\ Len(e.args) \in Nat
    BY <2>1, SeqIn
  <2> QED BY <2>1, <2>2
<1>2. ASSUME \A i \in DOMAIN p : ~Failed(p[i]) PROVE q = p
  BY <1>1, <1>2
<1>3. CASE e.op = "constant"
  BY <1>3, Zenon DEF Came
<1>4. CASE e.op = "name"
  <2>1. Came(e, p, V) = Named(e.name, V) /\ Came(e, q, W) = Named(e.name, W)
    BY <1>4 DEF Came
  <2>2. Known(e.name, V)
    BY <2>1 DEF Named, Failed, NoValue, Value
  <2>3. Known(e.name, W) /\ W[e.name] = V[e.name]
    BY <1>4, <2>2
  <2> QED BY <2>1, <2>2, <2>3 DEF Named
<1>5. CASE e.op \in {"+", "-", "//", "neg"}
  <2> DEFINE n(r) == [i \in DOMAIN r |-> AsNumber(r[i])]
  <2>1. /\ Came(e, p, V) = FirstFailure(n(p), Arithmetic(e.op, n(p)))
        /\ Came(e, q, W) = FirstFailure(n(q), Arithmetic(e.op, n(q)))
    BY <1>5 DEF Came
  <2>2. DOMAIN n(p) = DOMAIN p /\ \A i \in DOMAIN p : n(p)[i] = AsNumber(p[i])
    OBVIOUS
  <2> HIDE DEF n
  <2>3. \A i \in DOMAIN p : ~Failed(AsNumber(p[i]))
    <3> DEFINE N == n(p)
    <3>1. DOMAIN N \subseteq Nat /\ DOMAIN N = DOMAIN p /\ \A i \in DOMAIN p : N[i] = AsNumber(p[i])
      BY <1>1, <2>2
    <3>2. ~Failed(FirstFailure(N, Arithmetic(e.op, N)))
      BY <2>1
    <3> HIDE DEF N
    <3>3. \A i \in DOMAIN N : ~Failed(N[i])
      BY <3>1, <3>2, FailurePassedOn
    <3> QED BY <3>1, <3>3
  <2>4. \A i \in DOMAIN p : ~Failed(p[i])
    BY <2>3 DEF AsNumber
  <2> QED BY <1>2, <2>1, <2>4
<1>6. CASE e.op \in {"and", "or", "abs", "min"}
  <2>1. PICK otherwise : Came(e, p, V) = FirstFailure(p, otherwise)
    BY <1>6 DEF Came
  <2>2. \A i \in DOMAIN p : ~Failed(p[i])
    BY <1>1, <2>1, FailurePassedOn
  <2>3. q = p
    BY <1>2, <2>2
  <2>4. Came(e, p, W) = Came(e, p, V)
    BY <1>6 DEF Came
  <2> QED BY <2>3, <2>4
<1>7. CASE e.op = "not"
  <2>1. Came(e, p, V) = Invalid
    BY <1>7 DEF Came
  <2> QED BY <2>1 DEF Failed, Invalid, Value
<1>8. CASE e.op = "compare"
  <2> DEFINE link(r, i) == FirstFailure(<<r[i], r[i + 1]>>, CompareTwo(e.ops[i], r[i], r[i + 1]))
             ends(r) == {i \in DOMAIN e.ops : link(r, i) # Truth(TRUE)}
             first(S) == CHOOSE i \in S : \A k \in S : i <= k
             which(r) == IF ends(r) = {} THEN Truth(TRUE) ELSE link(r, first(ends(r)))
  <2>1. Came(e, p, V) = which(p) /\ Came(e, q, W) = which(q)
    BY <1>8 DEF Came
  <2>2. /\ DOMAIN e.ops = 1 .. Len(e.ops) /\ Len(e.ops) \in Nat
        /\ \A i \in DOMAIN e.ops : i \in DOMAIN p /\ i + 1 \in DOMAIN p
    <3>1. IsSeq(e.ops) /\ Len(e.args) = Len(e.ops) + 1
      BY <1>8, LayersAssumption
    <3>2. DOMAIN e.ops = 1 .. Len(e.ops) /\ Len(e.ops) \in Nat
      BY <3>1, SeqIn
    <3> QED BY <1>1, <3>1, <3>2
  <2>3. ASSUME NEW i \in DOMAIN e.ops, ~Failed(link(p, i)) PROVE link(q, i) = link(p, i)
    <3>1. ~Failed(p[i]) /\ ~Failed(p[i + 1])
      BY <2>3, LinkOfTwo
    <3>2. q[i] = p[i] /\ q[i + 1] = p[i + 1]
      BY <3>1, <2>2, <1>1
    <3> QED BY <3>2
  <2> HIDE DEF link
  <2>4. \A i \in DOMAIN e.ops : link(p, i) = Truth(TRUE) => link(q, i) = Truth(TRUE)
    BY <2>3, TruthIsNoFailure
  <2>5. ends(q) \subseteq ends(p) /\ ends(p) \in SUBSET Nat /\ ends(q) \in SUBSET Nat
    <3>1. ends(q) \subseteq ends(p)
      BY <2>4
    <3>2. ends(p) \subseteq DOMAIN e.ops /\ ends(q) \subseteq DOMAIN e.ops
      OBVIOUS
    <3>3. DOMAIN e.ops \subseteq Nat
      BY <2>2
    <3> HIDE DEF ends
    <3> QED BY <3>1, <3>2, <3>3
  <2>6. CASE ends(p) = {}
    BY <2>1, <2>5, <2>6
  <2>7. CASE ends(p) # {}
    <3>1. PICK m \in ends(p) : \A k \in ends(p) : m <= k
      <4> HIDE DEF ends
      <4> QED BY <2>5, <2>7, Smallest
    <3>2. m = first(ends(p))
      <4> HIDE DEF ends
      <4> QED BY <2>5, <3>1, FirstIsFirst
    <3>3. Came(e, p, V) = link(p, m)
      <4> HIDE DEF ends, first
      <4> QED BY <2>1, <2>7, <3>2
    <3>4. m \in DOMAIN e.ops /\ link(p, m) # Truth(TRUE) /\ link(q, m) = link(p, m)
      BY <3>1, <3>3, <2>3
    <3>5. m \in ends(q) /\ \A k \in ends(q) : m <= k
      BY <3>1, <3>4, <2>5
    <3>6. m = first(ends(q))
      <4> HIDE DEF ends
      <4> QED BY <2>5, <3>5, FirstIsFirst
    <3>7. Came(e, q, W) = link(q, m)
      <4> HIDE DEF ends, first
      <4> QED BY <2>1, <3>5, <3>6
    <3> QED BY <3>3, <3>4, <3>7
  <2> QED BY <2>6, <2>7
<1>9. e.op \in {"constant", "name", "+", "-", "//", "neg", "compare", "and", "or", "abs", "min", "not"}
  BY LayersAssumption
<1> QED BY <1>3, <1>4, <1>5, <1>6, <1>7, <1>8, <1>9

\* An expression that has a value keeps it whatever is put where nothing was found.
LEMMA EvalKeeps ==
    ASSUME NEW V, NEW W, NEW R, \A n \in R : Known(n, V) => Known(n, W) /\ W[n] = V[n],
           NEW e \in Expressions, ReferencedNames(e) \subseteq R, ~Failed(Eval(e, V))
    PROVE  Eval(e, W) = Eval(e, V)
<1> DEFINE good(x) == ReferencedNames(x) \subseteq R /\ ~Failed(Eval(x, V)) => Eval(x, W) = Eval(x, V)
           bad == {n \in 0 .. Len(Layers) : \E x \in UpTo(n) : ~good(x)}
<1>1. ASSUME NEW x \in Expressions, \A i \in DOMAIN x.args : good(x.args[i]) PROVE good(x)
  <2> SUFFICES ASSUME ReferencedNames(x) \subseteq R, ~Failed(Eval(x, V))
               PROVE  Eval(x, W) = Eval(x, V)
    OBVIOUS
  <2> DEFINE p == [i \in DOMAIN x.args |-> Eval(x.args[i], V)]
             q == [i \in DOMAIN x.args |-> Eval(x.args[i], W)]
  <2>1. Eval(x, V) = Came(x, p, V) /\ Eval(x, W) = Came(x, q, W)
    BY EvalFacts
  <2>2. CASE x.op = "name"
    <3>1. x.name \in R
      BY <2>2, NamesFacts
    <3>2. x.op = "name" => (Known(x.name, V) => Known(x.name, W) /\ W[x.name] = V[x.name])
      BY <3>1
    <3>3. Came(x, p, V) = Named(x.name, V) /\ Came(x, q, W) = Named(x.name, W)
      BY <2>2 DEF Came
    <3>4. Known(x.name, V)
      BY <2>1, <3>3 DEF Named, Failed, NoValue, Value
    <3> QED BY <2>1, <2>2, <3>2, <3>3, <3>4 DEF Named
  <2>3. CASE x.op # "name"
    <3>1. \A i \in DOMAIN x.args : ReferencedNames(x.args[i]) \subseteq R
      BY <2>3, NamesFacts
    <3>2. \A i \in DOMAIN x.args : ~Failed(p[i]) => q[i] = p[i]
      BY <1>1, <3>1
    <3>3. p = [i \in DOMAIN x.args |-> p[i]] /\ q = [i \in DOMAIN x.args |-> q[i]]
      OBVIOUS
    <3> HIDE DEF p, q
    <3> QED BY <2>1, <2>3, <3>2, <3>3, CameTheSame
  <2> QED BY <2>2, <2>3
<1> HIDE DEF good
<1>2. bad = {}
  <2> SUFFICES ASSUME bad # {} PROVE FALSE
    OBVIOUS
  <2>1. PICK m \in bad : \A k \in bad : m <= k
    <3>1. bad \in SUBSET Nat
      BY LayersInOrder
    <3> HIDE DEF bad
    <3> QED BY <3>1, Smallest
  <2>2. PICK x \in UpTo(m) : ~good(x)
    BY <2>1
  <2>3. m \in 0 .. Len(Layers) /\ m # 0
    BY <2>1, LayersInOrder
  <2>4. m - 1 \in 0 .. Len(Layers) - 1 /\ m - 1 \notin bad /\ (m - 1) + 1 = m
    BY <2>1, <2>3, LayersInOrder
  <2>5. \A y \in UpTo(m - 1) : good(y)
    BY <2>4, LayersInOrder
  <2>6. \A i \in DOMAIN x.args : x.args[i] \in UpTo(m - 1)
    BY <2>4, LayersInOrder
  <2>7. x \in Expressions
    BY <2>3, LayersInOrder
  <2> QED BY <1>1, <2>2, <2>5, <2>6, <2>7
<1>3. good(e)
  BY <1>2, LayersInOrder
<1> QED BY <1>3 DEF good

LEMMA PassedHoldsAnyway ==
    ASSUME NEW e \in Expressions, EvaluateCheck(e, given.values) = "passed"
    PROVE  HoldsAnyway(e)
<1> DEFINE R == ReferencedNames(e)
           missing == {n \in R : ~Known(n, given.values)}
<1> SUFFICES ASSUME NEW filling \in [missing -> {Value("number", k) : k \in -1 .. 3}]
             PROVE  EvaluateCheck(e, [n \in R |-> IF n \in missing THEN filling[n]
                                                  ELSE given.values[n]]) = "passed"
  BY DEF HoldsAnyway
<1> DEFINE W == [n \in R |-> IF n \in missing THEN filling[n] ELSE given.values[n]]
<1>1. \A n \in R : Known(n, given.values) => Known(n, W) /\ W[n] = given.values[n]
  BY DEF Known
<1>2. ~Failed(Eval(e, given.values)) /\ Truthy(Eval(e, given.values))
  BY DEF EvaluateCheck, Failed
<1> HIDE DEF W
<1>3. Eval(e, W) = Eval(e, given.values)
  BY <1>1, <1>2, EvalKeeps DEF R
<1>4. EvaluateCheck(e, W) = "passed"
  BY <1>2, <1>3 DEF EvaluateCheck
<1> QED BY <1>4 DEF W

----------------------------------------------------------------------------
(* What should hold *)

\* Every item of the stages was dealt with, where they ended.
LEMMA WhenDone ==
    ASSUME OpinionsIInv, phase = "done", NEW item, Occurs(item, Items(given))
    PROVE  /\ given \in Orders /\ OfTheStages(given, item)
           /\ \E a : /\ Noted(given, item, a, heard, notices, suggested)
                     /\ \A f : Occurs(f, Brings(given, item, a)) =>
                            \E i \in DOMAIN findings : Kin(findings[i], f)
<1>1. given \in Orders
  BY DEF OpinionsIInv, OpinionsTyped
<1>2. OfTheStages(given, item)
  BY <1>1, ItemsFacts
<1>3. PICK j \in DOMAIN Items(given) : Items(given)[j] = item
  BY DEF Occurs
<1>4. Dealt(given, item, findings, heard, notices, suggested)
  BY <1>3 DEF OpinionsIInv, NothingSkipped
<1>5. PICK a : /\ Noted(given, item, a, heard, notices, suggested)
               /\ \A k \in DOMAIN Brings(given, item, a) : \E i \in DOMAIN findings :
                      Kin(findings[i], Brings(given, item, a)[k])
  BY <1>4 DEF Dealt
<1>6. \A f : Occurs(f, Brings(given, item, a)) => \E i \in DOMAIN findings : Kin(findings[i], f)
  BY <1>5 DEF Occurs
<1> QED BY <1>1, <1>2, <1>5, <1>6

LEMMA SoftenedNotErasedInv == OpinionsIInv => SoftenedNotErased
<1> SUFFICES ASSUME OpinionsIInv, phase = "done", NEW b \in InCodeAlone[given]
             PROVE  \/ \E i \in DOMAIN findings :
                           /\ findings[i].about = b.about
                           /\ findings[i].type = b.type \/ b.about[1] = "compliance"
                           /\ findings[i].severity \in {b.severity, "review", "high"}
                    \/ b.about[1] = "programme" /\ b.severity = "review" /\ suggested
  BY DEF SoftenedNotErased
<1>1. given \in Orders
  BY DEF OpinionsIInv, OpinionsTyped
<1>2. PICK j \in DOMAIN Items(given) : b \in ToSet(Raised(given, Items(given)[j]))
  BY <1>1 DEF InCodeAlone
<1> DEFINE item == Items(given)[j]
<1>3. Occurs(item, Items(given)) /\ Occurs(b, Raised(given, item))
  BY <1>2, OccursInSet DEF Occurs
<1> HIDE DEF item
<1>4. PICK a : /\ Noted(given, item, a, heard, notices, suggested)
               /\ \A f : Occurs(f, Brings(given, item, a)) =>
                      \E i \in DOMAIN findings : Kin(findings[i], f)
  BY <1>3, WhenDone
<1>5. CASE \E f : /\ Occurs(f, Brings(given, item, a)) /\ f.about = b.about
                  /\ f.type = b.type \/ b.about[1] = "compliance"
                  /\ f.severity \in {b.severity, "review", "high"}
  <2>1. PICK f : /\ Occurs(f, Brings(given, item, a)) /\ f.about = b.about
                 /\ f.type = b.type \/ b.about[1] = "compliance"
                 /\ f.severity \in {b.severity, "review", "high"}
    BY <1>5
  <2>2. PICK i \in DOMAIN findings : Kin(findings[i], f)
    BY <1>4, <2>1
  <2> QED BY <2>1, <2>2 DEF Kin
<1>6. CASE /\ item.step = "programme" /\ Agrees(given, a)
           /\ b.about[1] = "programme" /\ b.severity = "review"
  <2>1. suggested
    BY <1>4, <1>6, Zenon DEF Noted
  <2> QED BY <1>6, <2>1
<1>7. OfTheStages(given, item)
  BY <1>3, WhenDone
<1> QED BY <1>1, <1>3, <1>5, <1>6, <1>7, SoftenedNotDropped

LEMMA UnreadIsToldInv == OpinionsIInv => UnreadIsTold
<1> SUFFICES ASSUME OpinionsIInv, phase = "done" PROVE UnreadIsTold
  BY DEF UnreadIsTold
<1>1. \A i \in DOMAIN findings :
          High(i) => \/ <<"off", "">> \in notices
                     \/ i \in unread /\ <<"unread", "">> \in notices
  BY DEF OpinionsIInv, HighOnesLeft
<1>2. ASSUME NEW h \in heard, h[2] = Silent
      PROVE  /\ h[1].step = "rules" => <<"rules", "">> \in notices
             /\ h[1].step = "gaps" => Unresolved(given) = {} \/ <<"gaps", "">> \in notices
             /\ h[1].step = "check" =>
                    LET check == given.checks[h[1].n]
                    IN  MayJudge(given, check) => <<"judgment", check.ref>> \in notices
  <2>1. /\ Noted(given, h[1], Silent, heard, notices, suggested)
        /\ h[1].step = "check" => given.checks[h[1].n].kind = "judgment"
    BY <1>2 DEF OpinionsIInv, AnswersNoted
  <2> QED BY <2>1 DEF Noted
<1> QED BY <1>1, <1>2 DEF UnreadIsTold

LEMMA EveryPartIsJudgedInv == OpinionsIInv => EveryPartIsJudged
<1> SUFFICES ASSUME OpinionsIInv, phase = "done", NEW c \in ToSet(given.derived),
                    NEW p \in DOMAIN c.says, c.says[p].verdict = "failed"
             PROVE  \E i \in DOMAIN findings, v \in DOMAIN Views(given) :
                        /\ findings[i].about = <<"derived", c.rule, v>>
                        /\ findings[i].type = "report_violates_rule"
                        /\ PartIn(Views(given)[v], c.reads) = p
  BY DEF EveryPartIsJudged
<1>1. given \in Orders
  BY DEF OpinionsIInv, OpinionsTyped
<1>2. PICK n \in DOMAIN given.derived : given.derived[n] = c
  BY DEF ToSet
<1> DEFINE item == Item("derived", n)
<1>3. Occurs(item, Items(given))
  BY <1>1, ItemsFacts
<1>4. \A a : Brings(given, item, a) = DerivedAll(given, c)
  BY <1>2, ItemFacts DEF Brings
<1> HIDE DEF item
<1>5. \A f : Occurs(f, DerivedAll(given, c)) => \E i \in DOMAIN findings : Kin(findings[i], f)
  BY <1>3, <1>4, WhenDone
<1>6. c.reads \in DOMAIN given.reports /\ DOMAIN c.says = DOMAIN given.reports[c.reads].parts
  BY <1>1, OrdersAssumption
<1>7. PICK v \in DOMAIN Views(given) : PartIn(Views(given)[v], c.reads) = p
  BY <1>1, <1>6, ViewsCoverTheParts
<1>8. PICK f : /\ Occurs(f, DerivedFindings(given, c, v))
               /\ f.about = <<"derived", c.rule, v>> /\ f.type = "report_violates_rule"
  BY <1>1, <1>7, DerivedOfAView
<1>9. Occurs(f, DerivedAll(given, c))
  BY <1>1, <1>8, DerivedOfAll
<1>10. PICK i \in DOMAIN findings : Kin(findings[i], f)
  BY <1>5, <1>9
<1> QED BY <1>7, <1>8, <1>10 DEF Kin

\* Of a rule of which nothing is said, nothing was found.
LEMMA SilentRuleBringsNothing ==
    ASSUME OpinionsIInv, phase = "done", NEW rule, ~Spoken(rule),
           NEW item, Occurs(item, Items(given)),
           NEW a, \A f : Occurs(f, Brings(given, item, a)) =>
                      \E i \in DOMAIN findings : Kin(findings[i], f)
    PROVE  \A f : Occurs(f, Brings(given, item, a)) => f.about[2] # rule.ref
<1> SUFFICES ASSUME NEW f, Occurs(f, Brings(given, item, a)), f.about[2] = rule.ref PROVE FALSE
  OBVIOUS
<1>1. PICK i \in DOMAIN findings : Kin(findings[i], f)
  OBVIOUS
<1>2. findings[i].about[2] = rule.ref
  BY <1>1 DEF Kin
<1> QED BY <1>2 DEF Spoken

LEMMA SecondOfThree == \A x, y, z : <<x, y, z>>[2] = y
OBVIOUS

LEMMA SilentControl ==
    ASSUME OpinionsIInv, phase = "done", NEW n \in Silently(given.compliance)
    PROVE  LET r == given.compliance[n]
           IN  \E b \in given.blocks, path \in {r.path} \cup r.alternates :
                   path # <<>> /\ (Last(path) \in ToSet(b.path) \cup b.keys
                                   \/ <<path, b.path>> \in Within)
<1> DEFINE r == given.compliance[n]
           item == Item("compliance", n)
<1>1. n \in DOMAIN given.compliance /\ AppliesTo(r, given.run) /\ ~Spoken(r) /\ given \in Orders
  BY DEF Silently, OpinionsIInv, OpinionsTyped
<1>2. Occurs(item, Items(given))
  BY <1>1, ItemsFacts
<1>3. PICK a : \A f : Occurs(f, Brings(given, item, a)) =>
                   \E i \in DOMAIN findings : Kin(findings[i], f)
  BY <1>2, WhenDone
<1>4. \A f : Occurs(f, Brings(given, item, a)) => f.about[2] # r.ref
  BY <1>1, <1>2, <1>3, SilentRuleBringsNothing
<1>5. Brings(given, item, a) = ComplianceFindings(given, r, a)
  BY ItemFacts DEF Brings
<1> HIDE DEF item
<1>6. ControlState(r, given.blocks) = "present"
  <2> SUFFICES ASSUME ControlState(r, given.blocks) # "present" PROVE FALSE
    OBVIOUS
  <2>1. PICK f : Occurs(f, ComplianceFindings(given, r, a))
    BY <1>1, ComplianceBrings
  <2>2. f.about = <<"compliance", r.ref, 0>>
    BY <1>1, <2>1, ComplianceBrings
  <2>3. f.about[2] = r.ref
    BY <2>2, SecondOfThree
  <2> QED BY <1>4, <1>5, <2>1, <2>3
<1>7. Implementing(r, given.blocks) # {}
  BY <1>6 DEF ControlState
<1>8. PICK b \in given.blocks, wanted \in ({r.path} \cup r.alternates) \ {<<>>} :
          \/ <<wanted, b.path>> \in Within
          \/ InOrder(wanted, b.path)
          \/ Last(wanted) \in b.keys /\ InOrder(Front(wanted), b.path)
  BY <1>7 DEF Implementing
<1>9. IsSeq(wanted) /\ wanted # <<>>
  BY <1>1, <1>8, OrdersAssumption DEF ToSet
<1>10. ASSUME InOrder(wanted, b.path) PROVE Last(wanted) \in ToSet(b.path)
  <2>1. PICK at \in [DOMAIN wanted -> DOMAIN b.path] : \A i \in DOMAIN wanted : b.path[at[i]] = wanted[i]
    BY <1>10 DEF InOrder
  <2>2. Len(wanted) \in DOMAIN wanted
    <3>1. DOMAIN wanted = 1 .. Len(wanted) /\ Len(wanted) \in Nat /\ 1 \in DOMAIN wanted
      BY <1>9, SeqIn, RestOfSeq
    <3> QED BY <3>1
  <2>3. at[Len(wanted)] \in DOMAIN b.path /\ b.path[at[Len(wanted)]] = Last(wanted)
    BY <2>1, <2>2 DEF Last
  <2> QED BY <2>3 DEF ToSet
<1> QED BY <1>8, <1>9, <1>10

LEMMA SilentCheck ==
    ASSUME OpinionsIInv, phase = "done", NEW n \in Silently(given.checks)
    PROVE  IF given.checks[n].kind = "expression" THEN HoldsAnyway(given.checks[n].expression)
           ELSE <<Item("check", n), Answer("pass", <<>>, TRUE)>> \in heard
<1> DEFINE c == given.checks[n]
           item == Item("check", n)
<1>1. n \in DOMAIN given.checks /\ AppliesTo(c, given.run) /\ ~Spoken(c) /\ given \in Orders
  BY DEF Silently, OpinionsIInv, OpinionsTyped
<1>2. Occurs(item, Items(given))
  BY <1>1, ItemsFacts
<1>3. PICK a : /\ Noted(given, item, a, heard, notices, suggested)
               /\ \A f : Occurs(f, Brings(given, item, a)) =>
                      \E i \in DOMAIN findings : Kin(findings[i], f)
  BY <1>2, WhenDone
<1>4. \A f : Occurs(f, Brings(given, item, a)) => f.about[2] # c.ref
  BY <1>1, <1>2, <1>3, SilentRuleBringsNothing
<1>5. /\ Brings(given, item, a) = IF c.kind = "judgment" THEN JudgmentFindings(given, c, a)
                                  ELSE ExpressionFindings(given, c)
      /\ item.step = "check" /\ item.n = n
  BY ItemFacts DEF Brings
<1> HIDE DEF item
<1>6. \A f : ~Occurs(f, Brings(given, item, a))
  <2> SUFFICES ASSUME NEW f, Occurs(f, Brings(given, item, a)) PROVE FALSE
    OBVIOUS
  <2>1. f.about = <<"check", c.ref, 0>>
    <3>1. Occurs(f, ExpressionFindings(given, c)) \/ Occurs(f, JudgmentFindings(given, c, a))
      BY <1>5
    <3> HIDE DEF c
    <3> QED BY <1>1, <3>1, CheckBrings
  <2>2. f.about[2] = c.ref
    BY <2>1, SecondOfThree
  <2> QED BY <1>4, <2>2
<1>7. c.kind \in {"expression", "judgment"} /\ c.expression \in Expressions
  BY <1>1, OrdersAssumption
<1>8. CASE c.kind = "expression"
  <2>1. ~(EvaluateCheck(c.expression, given.values) = "raises")
    BY <1>1, <1>3, <1>5, <1>8 DEF Noted
  <2>2. EvaluateCheck(c.expression, given.values) = "passed"
    BY <1>1, <1>5, <1>6, <1>8, <2>1, CheckBrings
  <2>3. HoldsAnyway(c.expression)
    BY <1>7, <2>2, PassedHoldsAnyway
  <2> QED BY <1>8, <2>3
<1>9. CASE c.kind = "judgment"
  <2>1. /\ <<item, a>> \in heard
        /\ MayJudge(given, c) => a \in Judgments
        /\ MayJudge(given, c) /\ a = Silent => <<"judgment", c.ref>> \in notices
    BY <1>3, <1>5, <1>9 DEF Noted
  <2>2. MayJudge(given, c)
    BY <1>1, <1>5, <1>6, <1>9, CheckBrings
  <2>3. a # Silent
    <3>1. <<"judgment", c.ref>> \notin notices
      <4>1. <<"judgment", c.ref>>[2] = c.ref
        OBVIOUS
      <4> QED BY <1>1, <4>1 DEF Spoken
    <3> QED BY <2>1, <2>2, <3>1
  <2>4. a.verdict = "none" \/ (a.verdict = "pass" /\ a.sure)
    BY <1>1, <1>5, <1>6, <1>9, <2>2, CheckBrings
  <2>5. a = Answer("pass", <<>>, TRUE)
    <3>1. PICK v \in {"pass", "fail", "review"}, sure \in BOOLEAN : a = Answer(v, <<>>, sure)
      BY <2>1, <2>2, <2>3 DEF Judgments
    <3>2. v = "pass" /\ sure = TRUE
      BY <2>4, <3>1 DEF Answer
    <3> QED BY <3>1, <3>2
  <2> QED BY <1>9, <2>1, <2>5 DEF item
<1> QED BY <1>7, <1>8, <1>9

LEMMA SilentConstraint ==
    ASSUME OpinionsIInv, phase = "done", NEW n \in DOMAIN given.constraints,
           ConstraintApplies(given.constraints[n], given.run), ~Spoken(given.constraints[n])
    PROVE  LET columns == ColumnsOf(given.constraints[n], FirstOfEach(given))
           IN  columns # <<>> /\ \A i \in DOMAIN columns : columns[i] # <<>>
<1> DEFINE s == given.constraints[n]
           item == Item("constraint", n)
           columns == ColumnsOf(s, FirstOfEach(given))
<1>1. given \in Orders
  BY DEF OpinionsIInv, OpinionsTyped
<1>2. Occurs(item, Items(given))
  BY <1>1, ItemsFacts
<1>3. PICK a : \A f : Occurs(f, Brings(given, item, a)) =>
                   \E i \in DOMAIN findings : Kin(findings[i], f)
  BY <1>2, WhenDone
<1>4. \A f : Occurs(f, Brings(given, item, a)) => f.about[2] # s.ref
  BY <1>2, <1>3, SilentRuleBringsNothing
<1>5. Brings(given, item, a) = ConstraintFindings(given, s)
  BY ItemFacts DEF Brings
<1>6. columns = <<>> \/ (\E i \in DOMAIN columns : columns[i] = <<>>) =>
          \E f : Occurs(f, ConstraintFindings(given, s)) /\ f.about[2] = s.ref
  BY <1>1, ConstraintBrings
<1> HIDE DEF columns
<1>7. columns # <<>> /\ \A i \in DOMAIN columns : columns[i] # <<>>
  BY <1>4, <1>5, <1>6
<1> QED BY <1>7 DEF columns

LEMMA SilenceIsAPassInv == OpinionsIInv => SilenceIsAPass
<1> SUFFICES ASSUME OpinionsIInv, phase = "done" PROVE SilenceIsAPass
  BY DEF SilenceIsAPass
<1> QED BY SilentControl, SilentCheck, SilentConstraint DEF SilenceIsAPass

\* Whatever the model answers, and whether it answers, a finding that code makes by itself
\* reaches a person (pipeline/s6_reverse.py, s7_reports.py): at its severity or a higher one,
\* or as a question.
THEOREM NothingIsErased == OpinionsSpec => []SoftenedNotErased
BY OpinionsInvariance, SoftenedNotErasedInv, PTL

\* What no model read is told: every high finding without a second opinion, every judgment,
\* every reading of the rules and of the gaps that got no answer has a notice (s7_reports.py,
\* s8_verify.py).
THEOREM NothingUnreadIsHidden == OpinionsSpec => []UnreadIsTold
BY OpinionsInvariance, UnreadIsToldInv, PTL

\* A part of a report on which a derived check fails is a finding about that part, whichever
\* of several reports has several parts (s7_reports.py).
THEOREM EveryPartHasItsVerdict == OpinionsSpec => []EveryPartIsJudged
BY OpinionsInvariance, EveryPartIsJudgedInv, PTL

\* Where nothing is said of an administrator's rule that applies, the control is there, the
\* expression holds whatever is put where a value was not found, the judgment was a sure one
\* and the columns of the constraint have cells (checks/, s7_reports.py).
THEOREM SilencePasses == OpinionsSpec => []SilenceIsAPass
BY OpinionsInvariance, SilenceIsAPassInv, PTL
=============================================================================
