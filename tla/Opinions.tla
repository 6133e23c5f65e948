---------------------------- MODULE Opinions ----------------------------
(***************************************************************************)
(* What stages 6, 7 and 8 find in one delivery (pipeline/s6_reverse.py,    *)
(* s7_reports.py, s8_verify.py): code decides, and where it cannot, the    *)
(* model is asked and may say anything, be unsure, or not answer.  The     *)
(* names stage 7 resolves are Evidence's and the comparisons Criteria's:   *)
(* here a derived check comes with what it says of every part.             *)
(***************************************************************************)
EXTENDS AdminChecks

CONSTANTS
    Orders,       \* deliveries, with the rules administrators wrote
    Titles,       \* what a lens may propose beside its answer
    NoTitle,
    NoLabel,      \* no cell is labelled as the credit date
    HitFloor      \* how many words of another programme make the delivery read like it

Severities == {"high", "medium", "low", "review"}

\* What administrators write and what is uploaded is in order, and what an order says of a
\* derived check it says of every part of the report the check reads.
ASSUME OrdersAssumption ==
    \A d \in Orders :
        /\ IsSeq(d.elements) /\ IsSeq(d.compliance) /\ IsSeq(d.reports) /\ IsSeq(d.derived)
        /\ IsSeq(d.constraints) /\ IsSeq(d.checks) /\ IsSeq(d.rules)
        /\ d.cap \in Nat /\ IsFiniteSet(d.lenses)
        /\ \A r \in ToSet(d.compliance) : \A path \in {r.path} \cup r.alternates : IsSeq(path)
        /\ \A r \in ToSet(d.reports) :
               IsSeq(r.parts) /\ r.parts # <<>> /\ \A sheets \in ToSet(r.parts) : IsSeq(sheets)
        /\ \A c \in ToSet(d.derived) :
               /\ c.reads \in DOMAIN d.reports
               /\ DOMAIN c.says = DOMAIN d.reports[c.reads].parts
               /\ \A p \in DOMAIN c.says : c.says[p].verdict \in {"passed", "unknown", "failed"}
        /\ \A n \in DOMAIN d.constraints :
               /\ d.constraints[n].constraint \in {"not_blank", "fill_rate_min", "allowed_values",
                                                  "forbidden_values", "range", "format"}
               /\ d.constraints[n].severity \in Severities
        /\ \A n \in DOMAIN d.checks :
               /\ d.checks[n].kind \in {"expression", "judgment"}
               /\ d.checks[n].expression \in Expressions
               /\ d.checks[n].severity \in Severities
        /\ \A r \in ToSet(d.rules) : r.strictness \in {"must", "should", "advisory"}

VARIABLES
    given,        \* the delivery
    todo,         \* what is left of the stages: [step, n]
    heard,        \* what the model answered, per question
    findings,     \* in the order they were raised
    notices,
    suggested,    \* whether words were suggested for the declared programme
    lensCalls,
    unread,       \* findings no lens answered for, by number
    proposals,    \* what lenses proposed: [title, from]
    phase         \* "stages", "lenses", "done", or "raised" by an expression

opinionVars == <<given, todo, heard, findings, notices, suggested, lensCalls, unread,
                 proposals, phase>>

----------------------------------------------------------------------------
(* Findings, and answers *)

Finding(step, of, n, type, severity, shadow, engine) ==
    [about |-> <<step, of, n>>, type |-> type, severity |-> severity, shadow |-> shadow,
     engine |-> engine, verified |-> FALSE]
Built(step, of, n, type, severity) == Finding(step, of, n, type, severity, FALSE, "code")
OfRule(step, rule, n, type, severity, engine) ==
    Finding(step, rule.ref, n, type, severity, rule.state = "shadow", engine)

\* sure: the model's confidence reaches the floor of the question.
Answer(verdict, named, sure) == [verdict |-> verdict, named |-> named, sure |-> sure]
Silent == Answer("none", <<>>, FALSE)
AnswersAbout(verdict, names) ==
    {Silent} \cup {Answer(verdict, m, sure) : m \in names \cup {<<"invented">>}, sure \in BOOLEAN}
             \cup {Answer("nothing", <<>>, TRUE)}
Heeded(answer, verdict, names) ==
    answer.verdict = verdict /\ answer.named \in names /\ answer.sure

----------------------------------------------------------------------------
(* Stage 6 *)

\* A configured element nobody required, in a category that is looked at.
ReverseFindings(d) ==
    LET extra == Kept(d.elements, {e \in ToSet(d.elements) :
                                      ~e.technical /\ ~e.traced /\ e.kind \in d.categories})
    IN  [i \in DOMAIN extra |->
            Built("reverse", extra[i].id, 0, "extra_rule_in_config", "medium")]

Paths(d) == {b.path : b \in d.blocks}

\* Mutant of ComplianceFindings: a control the model located is there.
LocatedIsPresent(d, rule, answer) ==
    IF ~AppliesTo(rule, d.run) \/ Heeded(answer, "found", Paths(d)) THEN <<>>
    ELSE IF ControlState(rule, d.blocks) = "absent"
         THEN <<OfRule("compliance", rule, 0, "rule_missing_in_config", "high", "code")>>
         ELSE <<>>

\* A control nothing implements, unless the model shows where it may be; or one that
\* is set to something else.
ComplianceFindings(d, rule, answer) ==
    LET found(type, severity, engine) ==
            <<OfRule("compliance", rule, 0, type, severity, engine)>>
        state == ControlState(rule, d.blocks)
    IN  IF ~AppliesTo(rule, d.run) \/ state = "present" THEN <<>>
        ELSE IF state = "different" THEN found("value_mismatch", "high", "code")
        ELSE IF Heeded(answer, "found", Paths(d))
             THEN found("could_not_evaluate", "review", "model")
             ELSE found("rule_missing_in_config", "high", "code")

MayLocate(d, rule) ==
    AppliesTo(rule, d.run) /\ ControlState(rule, d.blocks) = "absent" /\ d.blocks # {}

----------------------------------------------------------------------------
(* Stage 7, in code *)

\* The sets of documents the derived checks are evaluated against: a part of one report
\* with the first parts of the others.
View(report, part) == [report |-> report, part |-> part]
PartIn(view, report) == IF view.report = report THEN view.part ELSE 1
Several(d) == {i \in DOMAIN d.reports : Len(d.reports[i].parts) > 1}

\* Mutant of Views: only the first parts.
FirstParts(d) == <<View(1, 1)>>
Views(d) ==
    IF Several(d) = {} THEN <<View(1, 1)>>
    ELSE FlattenSeq([i \in DOMAIN d.reports |->
             IF i \in Several(d) THEN [p \in DOMAIN d.reports[i].parts |-> View(i, p)] ELSE <<>>])

\* What one derived check says of one view.
DerivedFindings(d, check, v) ==
    LET says == check.says[PartIn(Views(d)[v], check.reads)]
        found(type, severity) == <<Built("derived", check.rule, v, type, severity)>>
    IN  (IF says.unresolved THEN found("attribute_not_resolved", "review") ELSE <<>>)
        \o CASE says.verdict = "passed" -> <<>>
             [] says.verdict = "unknown" -> found("could_not_evaluate", "review")
             [] says.verdict = "failed" -> found("report_violates_rule", "high")

\* Attributes no product code of the order lists, when a code says what it lists.
BeyondFindings(d) ==
    IF d.listed # {} /\ d.delivered \ d.listed # {}
    THEN <<Built("beyond", "", 0, "attributes_beyond_product_code", "low")>> ELSE <<>>

\* A cell that is labelled decides; without one the date is looked for anywhere.  How a
\* label's date reads is the first of the formats it fits.
CreditFindings(d) ==
    LET credit == d.credit
        found(type, severity) == <<Built("credit", "", 0, type, severity)>>
    IN  CASE credit.date = 0 -> <<>>
          [] credit.date # 0 /\ credit.labelled # NoLabel ->
               IF credit.labelled # <<>> /\ Head(credit.labelled) = credit.date THEN <<>>
               ELSE found("credit_date_mismatch", "medium")
          [] OTHER ->
               IF "reports" \in credit.spelled THEN <<>>
               ELSE found("credit_date_missing", IF credit.spelled # {} THEN "low" ELSE "medium")

Uploaded(d) == FoldLeft(LAMBDA n, r : n + Len(r.parts), 0, d.reports)

CountFindings(d) ==
    LET covered == IF d.count.validated # 0 THEN d.count.validated ELSE d.count.declared
    IN  IF d.count.declared # 0 /\ Uploaded(d) < covered
        THEN <<Built("count", "", 0, "deliverables_missing", "high")>> ELSE <<>>

\* The reports an administrator's constraints and named values are read from.
FirstOfEach(d) ==
    [i \in DOMAIN d.reports |-> [kind |-> d.reports[i].kind, sheets |-> d.reports[i].parts[1]]]

ConstraintFindings(d, spec) ==
    LET verdicts == ConstraintVerdicts(spec, FirstOfEach(d))
        of(i) == CASE verdicts[i] = "passed" -> <<>>
                   [] verdicts[i] = "unread" ->
                        <<OfRule("constraint", spec, i, "could_not_evaluate", "review", "code")>>
                   [] verdicts[i] = "failed" ->
                        <<OfRule("constraint", spec, i, "report_violates_rule", spec.severity, "code")>>
    IN  IF ConstraintApplies(spec, d.run) THEN FlattenSeq([i \in DOMAIN verdicts |-> of(i)])
        ELSE <<>>

\* An administrator's expression.  An exception nobody expects ends the stage.
ExpressionFindings(d, check) ==
    LET came == EvaluateCheck(check.expression, d.values)
        found(type, severity) == <<OfRule("check", check, 0, type, severity, "code")>>
    IN  IF ~AppliesTo(check, d.run) \/ came \in {"passed", "raises"} THEN <<>>
        ELSE IF came = "failed" THEN found("cross_report_disagreement", check.severity)
        ELSE found("could_not_evaluate", "review")

----------------------------------------------------------------------------
(* Stage 7, with the model *)

\* A judgment is asked for when every value it names is defined, found or not.
MayJudge(d, check) ==
    AppliesTo(check, d.run) /\ check.names # {} /\ check.names \subseteq DOMAIN d.values

JudgmentFindings(d, check, answer) ==
    LET found(type, severity, engine) ==
            <<OfRule("check", check, 0, type, severity, engine)>>
    IN  IF ~AppliesTo(check, d.run) THEN <<>>
        ELSE IF ~MayJudge(d, check) THEN found("could_not_evaluate", "review", "code")
        ELSE IF answer.verdict = "none" \/ (answer.verdict = "pass" /\ answer.sure) THEN <<>>
        ELSE found("judgment_failed",
                   IF answer.verdict = "fail" /\ answer.sure THEN check.severity
                   ELSE "review", "model")

Judgments == {Silent} \cup {Answer(v, <<>>, sure) : v \in {"pass", "fail", "review"}, sure \in BOOLEAN}

WithWords(d) == {c \in DOMAIN d.keywords : d.keywords[c] # {}}
WordHits(d, code) == Cardinality(Hits(Discriminating(code, d.keywords), d.text))

\* The programme whose own words the delivery has more of than any other's.
LooksLike(d) ==
    LET others == WithWords(d) \ {d.run.programme}
    IN  {c \in others : WordHits(d, c) >= HitFloor
                        /\ \A o \in others \ {c} : WordHits(d, c) > WordHits(d, o)}

\* None of the declared programme's words is in the delivery.
WordsMissing(d) ==
    d.run.programme \in WithWords(d) /\ Hits(d.keywords[d.run.programme], d.text) = {}

MayRead(d) == WordsMissing(d) /\ Cardinality(WithWords(d)) >= 2 /\ d.text # <<>>
ReadsLike(d, answer, codes) == Heeded(answer, "reads_like", {<<c>> : c \in codes})
Agrees(d, answer) == WordsMissing(d) /\ ReadsLike(d, answer, {d.run.programme})

\* An agreeing reading leaves nothing to ask where no other programme's words are found.
ProgrammeFindings(d, answer) ==
    LET found(severity, engine) ==
            <<Finding("programme", "", 0, "programme_mismatch", severity, FALSE, engine)>>
    IN  CASE ~WordsMissing(d) -> <<>>
          [] WordsMissing(d) /\ Agrees(d, answer) ->
               IF LooksLike(d) = {} THEN <<>> ELSE found("review", "model")
          [] WordsMissing(d) /\ ReadsLike(d, answer, WithWords(d) \ {d.run.programme}) ->
               found("high", "model")
          [] WordsMissing(d) /\ answer.verdict = "nothing" -> found("review", "code")
          [] OTHER -> found(IF LooksLike(d) = {} THEN "review" ELSE "high", "code")

\* The aggregates of the delivery, read for what is odd in them.
ShapeFindings(d, answer) ==
    IF Heeded(answer, "unusual", {<<a>> : a \in d.shape})
    THEN <<Finding("shape", answer.named[1], 0, "profile_anomaly", "review", FALSE, "model")>>
    ELSE <<>>

----------------------------------------------------------------------------
(* Stage 8, before the second opinion *)

RuleSeverity(rule, answer) ==
    IF ~answer.sure THEN "review"
    ELSE CASE rule.strictness = "must" -> "high"
           [] rule.strictness = "should" -> "medium"
           [] rule.strictness = "advisory" -> "low"

\* The rules of the programme the model says the delivery breaks.
BreachFindings(d, answer) ==
    LET breached == Kept(d.rules, {r \in ToSet(d.rules) :
                                      answer.verdict = "breach" /\ answer.named = <<r.ref>>})
    IN  [i \in DOMAIN breached |->
            OfRule("rules", breached[i], 0, "programme_rule_violation",
                   RuleSeverity(breached[i], answer), "code")]

\* Requirements that nothing in the delivery was compared with.
Unresolved(d) ==
    {r \in d.requirements :
        LET says(c, v) == c.says[PartIn(Views(d)[v], c.reads)].verdict
            verdicts == UNION {{says(c, v) : v \in DOMAIN Views(d)} :
                                   c \in {k \in ToSet(d.derived) : k.rule = r.id}}
        IN  verdicts \subseteq {"unknown"} /\ (r.other \/ verdicts # {} \/ r.traced)}

GapFindings(d, answer) ==
    IF Heeded(answer, "gap", {<<r.id>> : r \in Unresolved(d)})
    THEN <<Built("gaps", answer.named[1], 0, "coverage_gap", "review")>> ELSE <<>>

----------------------------------------------------------------------------
(* One run *)

Item(step, n) == [step |-> step, n |-> n]
Once(step, asked) == IF asked THEN <<Item(step, 0)>> ELSE <<>>
Each(step, of) == [n \in DOMAIN of |-> Item(step, n)]

Items(d) ==
    Once("reverse", TRUE) \o Each("compliance", d.compliance)
    \o Each("derived", d.derived) \o Once("beyond", TRUE) \o Once("programme", TRUE)
    \o Once("credit", TRUE) \o Once("count", TRUE)
    \o Each("constraint", d.constraints) \o Each("check", d.checks)
    \o Once("shape", d.shape # {})
    \o Once("rules", d.rules # <<>>) \o Once("gaps", d.lenses # {})

DerivedAll(d, check) ==
    FlattenSeq([v \in DOMAIN Views(d) |-> DerivedFindings(d, check, v)])

OpinionsInit ==
    /\ given \in Orders
    /\ todo = Items(given)
    /\ heard = {} /\ findings = <<>> /\ notices = {} /\ suggested = FALSE
    /\ lensCalls = 0 /\ unread = {} /\ proposals = <<>>
    /\ phase = "stages"

Doing(step) == phase = "stages" /\ todo # <<>> /\ Head(todo).step = step
Turn == Head(todo).n

Raise(found) == findings' = findings \o found /\ todo' = Tail(todo)
Hear(answer) == heard' = heard \cup {<<Head(todo), answer>>}
Told(kind, of) == notices' = notices \cup {<<kind, of>>}

InCode(found) ==
    /\ Raise(found)
    /\ UNCHANGED <<given, heard, notices, suggested, lensCalls, unread, proposals, phase>>

ReversePass == Doing("reverse") /\ InCode(ReverseFindings(given))
DerivedCheck == Doing("derived") /\ InCode(DerivedAll(given, given.derived[Turn]))
BeyondTheProductCodes == Doing("beyond") /\ InCode(BeyondFindings(given))
CheckCreditDate == Doing("credit") /\ InCode(CreditFindings(given))
DeliverableCount == Doing("count") /\ InCode(CountFindings(given))
FieldConstraint == Doing("constraint") /\ InCode(ConstraintFindings(given, given.constraints[Turn]))

IsJudgment == given.checks[Turn].kind = "judgment"

RaisesNow ==
    /\ AppliesTo(given.checks[Turn], given.run)
    /\ EvaluateCheck(given.checks[Turn].expression, given.values) = "raises"

RunExpression ==
    /\ Doing("check") /\ ~IsJudgment /\ ~RaisesNow
    /\ InCode(ExpressionFindings(given, given.checks[Turn]))

\* The exception leaves the stage, and the run fails with it.
ExpressionRaises ==
    /\ Doing("check") /\ ~IsJudgment /\ RaisesNow
    /\ phase' = "raised" /\ todo' = <<>>
    /\ UNCHANGED <<given, heard, findings, notices, suggested, lensCalls, unread, proposals>>

Asked(answer, found) ==
    /\ Raise(found) /\ Hear(answer)
    /\ UNCHANGED <<given, lensCalls, unread, proposals, phase>>

CheckCompliance ==
    /\ Doing("compliance")
    /\ LET rule == given.compliance[Turn]
       IN  \E a \in IF MayLocate(given, rule) THEN AnswersAbout("found", Paths(given)) ELSE {Silent} :
               Asked(a, ComplianceFindings(given, rule, a))
    /\ UNCHANGED <<notices, suggested>>

CheckProgramme ==
    /\ Doing("programme")
    /\ \E a \in IF MayRead(given) THEN AnswersAbout("reads_like", {<<c>> : c \in WithWords(given)})
                ELSE {Silent} :
          /\ Asked(a, ProgrammeFindings(given, a))
          /\ suggested' = (suggested \/ Agrees(given, a))
    /\ UNCHANGED notices

RunJudgment ==
    /\ Doing("check") /\ IsJudgment
    /\ LET check == given.checks[Turn]
       IN  \E a \in IF MayJudge(given, check) THEN Judgments ELSE {Silent} :
               /\ Asked(a, JudgmentFindings(given, check, a))
               /\ IF a = Silent /\ MayJudge(given, check) THEN Told("judgment", check.ref)
                  ELSE UNCHANGED notices
    /\ UNCHANGED suggested

ReadShape ==
    /\ Doing("shape")
    /\ \E a \in AnswersAbout("unusual", {<<x>> : x \in given.shape}) :
          Asked(a, ShapeFindings(given, a))
    /\ UNCHANGED <<notices, suggested>>

ReadProgrammeRules ==
    /\ Doing("rules")
    /\ \E a \in AnswersAbout("breach", {<<r.ref>> : r \in ToSet(given.rules)}) :
          /\ Asked(a, BreachFindings(given, a))
          /\ IF a = Silent THEN Told("rules", "") ELSE UNCHANGED notices
    /\ UNCHANGED suggested

ReadCoverageGaps ==
    /\ Doing("gaps")
    /\ \E a \in IF Unresolved(given) = {} THEN {Silent}
                ELSE AnswersAbout("gap", {<<r.id>> : r \in Unresolved(given)}) :
          /\ Asked(a, GapFindings(given, a))
          /\ IF a = Silent /\ Unresolved(given) # {} THEN Told("gaps", "")
             ELSE UNCHANGED notices
    /\ UNCHANGED suggested

High(i) == findings[i].severity = "high" /\ ~findings[i].verified

\* The second opinion on every high finding; or, switched off, a notice that there is none.
StartLenses ==
    /\ phase = "stages" /\ todo = <<>>
    /\ phase' = IF given.lenses = {} THEN "done" ELSE "lenses"
    /\ todo' = IF given.lenses = {} THEN <<>>
               ELSE Kept(Each("lens", findings),
                         {Item("lens", i) : i \in {k \in DOMAIN findings : High(k)}})
    /\ IF given.lenses = {} /\ \E i \in DOMAIN findings : High(i)
       THEN Told("off", "") ELSE UNCHANGED notices
    /\ UNCHANGED <<given, heard, findings, suggested, lensCalls, unread, proposals>>

Reading == phase = "lenses" /\ todo # <<>>

Allowed == lensCalls + Cardinality(given.lenses) <= given.cap

\* What the lenses' answers make of a finding: one that disagrees sends it to a person.
Judged(f, opinions) ==
    CASE \A l \in DOMAIN opinions : opinions[l] = "silent" -> f
      [] \E l \in DOMAIN opinions : opinions[l] = "disagrees" ->
           [f EXCEPT !.verified = TRUE, !.severity = "review"]
      [] OTHER -> [f EXCEPT !.verified = TRUE]

SecondOpinion ==
    /\ Reading /\ Allowed
    /\ \E opinions \in [given.lenses -> {"silent", "agrees", "disagrees"}],
          title \in Titles \cup {NoTitle} :
          LET answered == {l \in given.lenses : opinions[l] # "silent"}
          IN  /\ title # NoTitle => answered # {}
              /\ findings' = [findings EXCEPT ![Turn] = Judged(@, opinions)]
              /\ unread' = IF answered = {} THEN unread \cup {Turn} ELSE unread
              /\ proposals' = IF title = NoTitle THEN proposals
                              ELSE Append(proposals, [title |-> title, from |-> Turn])
    /\ lensCalls' = lensCalls + Cardinality(given.lenses)
    /\ todo' = Tail(todo)
    /\ UNCHANGED <<given, heard, notices, suggested, phase>>

\* Mutant of PastTheCap: what is not read is not counted as unread.
PastTheCapUncounted == UNCHANGED unread
PastTheCap == unread' = unread \cup {Turn}

NoOpinion ==
    /\ Reading /\ ~Allowed
    /\ PastTheCap /\ Told("capped", "") /\ todo' = Tail(todo)
    /\ UNCHANGED <<given, heard, findings, suggested, lensCalls, proposals, phase>>

\* The same proposal is raised once, by the finding it was first made about.
Proposed ==
    LET first == Kept([i \in DOMAIN proposals |-> i],
                      {i \in DOMAIN proposals :
                          \A k \in 1 .. i - 1 : proposals[k].title # proposals[i].title})
    IN  [i \in DOMAIN first |->
            Finding("proposal", proposals[first[i]].title, proposals[first[i]].from,
                    "lens_proposed", "review", FALSE, "model")]

EndLenses ==
    /\ phase = "lenses" /\ todo = <<>>
    /\ findings' = findings \o Proposed
    /\ IF unread # {} THEN Told("unread", "") ELSE UNCHANGED notices
    /\ phase' = "done"
    /\ UNCHANGED <<given, todo, heard, suggested, lensCalls, unread, proposals>>

OpinionsNext ==
    \/ ReversePass \/ CheckCompliance
    \/ DerivedCheck \/ BeyondTheProductCodes \/ CheckProgramme \/ CheckCreditDate
    \/ DeliverableCount \/ FieldConstraint
    \/ RunExpression \/ ExpressionRaises \/ RunJudgment \/ ReadShape
    \/ ReadProgrammeRules \/ ReadCoverageGaps
    \/ StartLenses \/ SecondOpinion \/ NoOpinion \/ EndLenses

OpinionsSpec == OpinionsInit /\ [][OpinionsNext]_opinionVars

----------------------------------------------------------------------------
(* What should hold *)

\* The state's types, and the cap on the lenses' calls.
OpinionsTypeOK ==
    /\ given \in Orders
    /\ phase \in {"stages", "lenses", "done", "raised"}
    /\ lensCalls \in 0 .. given.cap
    /\ unread \subseteq DOMAIN findings
    /\ \A i \in DOMAIN findings :
           findings[i].severity \in Severities

\* What code finds where the model never answers.
Raised(d, item) ==
    CASE item.step = "reverse" -> ReverseFindings(d)
      [] item.step = "compliance" -> ComplianceFindings(d, d.compliance[item.n], Silent)
      [] item.step = "derived" -> DerivedAll(d, d.derived[item.n])
      [] item.step = "beyond" -> BeyondFindings(d)
      [] item.step = "programme" -> ProgrammeFindings(d, Silent)
      [] item.step = "credit" -> CreditFindings(d)
      [] item.step = "count" -> CountFindings(d)
      [] item.step = "constraint" -> ConstraintFindings(d, d.constraints[item.n])
      [] item.step = "check" -> IF d.checks[item.n].kind = "judgment" THEN <<>>
                                ELSE ExpressionFindings(d, d.checks[item.n])
      [] OTHER -> <<>>
InCodeAlone ==
    [d \in Orders |-> UNION {ToSet(Raised(d, Items(d)[i])) : i \in DOMAIN Items(d)}]

\* Whatever the model says, a finding code makes without it reaches a person: at its
\* severity or a higher one, or as a question.  A control the model located is a question of
\* another type, and an agreement with the declared programme leaves words suggested.
SoftenedNotErased ==
    phase = "done" =>
        \A b \in InCodeAlone[given] :
            \/ \E i \in DOMAIN findings :
                   /\ findings[i].about = b.about
                   /\ findings[i].type = b.type \/ b.about[1] = "compliance"
                   /\ findings[i].severity \in {b.severity, "review", "high"}
            \/ b.about[1] = "programme" /\ b.severity = "review" /\ suggested

\* Nobody is left to think that something was read which was not: a high finding without a
\* second opinion, a judgment, the programme's rules and the gaps that got no answer each
\* come with a notice.
UnreadIsTold ==
    phase = "done" =>
        /\ \A i \in DOMAIN findings :
               High(i) => \/ <<"off", "">> \in notices
                          \/ i \in unread /\ <<"unread", "">> \in notices
        /\ \A h \in heard :
               h[2] = Silent =>
                   CASE h[1].step = "rules" -> <<"rules", "">> \in notices
                     [] h[1].step = "gaps" -> Unresolved(given) = {} \/ <<"gaps", "">> \in notices
                     [] h[1].step = "check" ->
                          LET check == given.checks[h[1].n]
                          IN  MayJudge(given, check) => <<"judgment", check.ref>> \in notices
                     [] OTHER -> TRUE

\* Every part of a report is judged by the derived checks: one that fails on a part is a
\* finding about that part.
EveryPartIsJudged ==
    phase = "done" =>
        \A c \in ToSet(given.derived) : \A p \in DOMAIN c.says :
            c.says[p].verdict = "failed" =>
                \E i \in DOMAIN findings, v \in DOMAIN Views(given) :
                    /\ findings[i].about = <<"derived", c.rule, v>>
                    /\ findings[i].type = "report_violates_rule"
                    /\ PartIn(Views(given)[v], c.reads) = p

Spoken(rule) ==
    \/ \E i \in DOMAIN findings : findings[i].about[2] = rule.ref
    \/ \E told \in notices : told[2] = rule.ref
Silently(rules) == {n \in DOMAIN rules : AppliesTo(rules[n], given.run) /\ ~Spoken(rules[n])}

\* Whatever the values nobody found would have been, the expression holds.
HoldsAnyway(e) ==
    LET missing == {n \in ReferencedNames(e) : ~Known(n, given.values)}
    IN  \A filling \in [missing -> {Value("number", k) : k \in -1 .. 3}] :
            EvaluateCheck(e, [n \in ReferencedNames(e) |->
                IF n \in missing THEN filling[n] ELSE given.values[n]]) = "passed"

\* Silence is a pass.  Where nothing is said of an administrator's rule that applies, the
\* control is somewhere in the configuration, the expression holds whatever is missing, the
\* judgment was a sure one, and every column the constraint is about has cells.
SilenceIsAPass ==
    phase = "done" =>
        /\ \A n \in Silently(given.compliance) :
               LET r == given.compliance[n]
               IN  \E b \in given.blocks, path \in {r.path} \cup r.alternates :
                       path # <<>> /\ (Last(path) \in ToSet(b.path) \cup b.keys
                                       \/ <<path, b.path>> \in Within)
        /\ \A n \in Silently(given.checks) :
               IF given.checks[n].kind = "expression" THEN HoldsAnyway(given.checks[n].expression)
               ELSE <<Item("check", n), Answer("pass", <<>>, TRUE)>> \in heard
        /\ \A n \in DOMAIN given.constraints :
               LET s == given.constraints[n]
                   columns == ColumnsOf(s, FirstOfEach(given))
               IN  ConstraintApplies(s, given.run) /\ ~Spoken(s) =>
                       columns # <<>> /\ \A i \in DOMAIN columns : columns[i] # <<>>

\* docs/phase-6.1.md: an administrator's check is evaluated for each part, and a part that
\* fails is a finding.
EveryPartIsConstrained ==
    phase = "done" =>
        \A n \in DOMAIN given.constraints, i \in DOMAIN given.reports :
            ConstraintApplies(given.constraints[n], given.run) =>
                \A p \in DOMAIN given.reports[i].parts :
                    LET s == given.constraints[n]
                        part == [kind |-> given.reports[i].kind, sheets |-> given.reports[i].parts[p]]
                    IN  "failed" \in ToSet(ConstraintVerdicts(s, <<part>>)) =>
                            \E f \in ToSet(findings) :
                                f.about[2] = s.ref /\ f.type = "report_violates_rule"
=============================================================================
