----------------------------- MODULE MCStages -----------------------------
(***************************************************************************)
(* Small instances of Pipeline, Opinions, Settings, Intake and Chat, side  *)
(* by side: `part` says which of them moves.  The deliveries of Opinions each *)
(* put one of its questions in the way of the others.                      *)
(***************************************************************************)
EXTENDS Pipeline, Opinions, Settings, Intake, Chat, TLC

Number(k) == Value("number", k)
Text(k) == Value("text", k)
None == [x \in {} |-> NoValue]

Constant(v) == [op |-> "constant", value |-> v, args |-> <<>>]
Name(n) == [op |-> "name", name |-> n, args |-> <<>>]
Op(op, args) == [op |-> op, args |-> args]
Chain(ops, args) == [op |-> "compare", ops |-> ops, args |-> args]

Order ==
    [run |-> [customer |-> "acme", programme |-> "p1", configuration |-> "c7"],
     elements |-> <<>>, categories |-> {"filters"}, blocks |-> {}, compliance |-> <<>>,
     reports |-> <<>>, derived |-> <<>>, requirements |-> {}, listed |-> {}, delivered |-> {},
     keywords |-> None, text |-> <<>>, credit |-> [date |-> 0, labelled |-> NoLabel, spelled |-> {}],
     count |-> [declared |-> 0, validated |-> 0], constraints |-> <<>>, checks |-> <<>>,
     values |-> None, shape |-> {}, rules |-> <<>>, lenses |-> {"single"}, cap |-> 2]

(* The configuration: controls that are there under another spelling, deeper, as a key of *)
(* a structure, set to something else, or nowhere.                                        *)

Scoped(kind, name) == [kind |-> kind, name |-> name]
Control(ref, path, alternates, expected, scope, state) ==
    [ref |-> ref, path |-> path, alternates |-> alternates, expected |-> expected,
     scope |-> scope, state |-> state]
Block(path, content, keys) == [path |-> path, content |-> content, keys |-> keys]

Blocks == {Block(<<"filters", "inner", "optout">>, Value("truth", 1), {}),
           Block(<<"suppressions">>, Value("structure", 0), {"deceased"}),
           Block(<<"limits", "age">>, Number(3), {})}
MCWithin == {<<<<"opt", "out">>, <<"filters", "inner", "optout">>>>}

Compliance ==
    [Order EXCEPT
       !.blocks = Blocks,
       !.elements = <<[id |-> "e1", kind |-> "filters", technical |-> FALSE, traced |-> FALSE],
                      [id |-> "e2", kind |-> "retry", technical |-> FALSE, traced |-> FALSE]>>,
       !.compliance =
         <<Control("k1", <<"opt", "out">>, {}, Value("truth", 1), Everywhere, "active"),
           Control("k2", <<"suppressions", "deceased">>, {}, NoValue, Scoped("programme", "p1"), "active"),
           Control("k3", <<"age">>, {}, Number(2), Scoped("customer", "acme"), "active"),
           Control("k4", <<"minors">>, {<<"limits", "young">>}, NoValue, Everywhere, "shadow"),
           Control("k5", <<"minors">>, {}, NoValue, Scoped("configuration", "c7"), "active"),
           Control("k6", <<"minors">>, {}, NoValue, Scoped("customer", ""), "active")>>]

(* The programme: none of its own words, and the words of another or of nobody. *)

Words == "p1" :> {<<"open">>} @@ "p2" :> {<<"offer">>, <<"by", "mail">>, <<"letter">>}
         @@ "p3" :> {<<"letter">>} @@ "p4" :> {}
Programme(text) == [Order EXCEPT !.keywords = Words, !.text = text]
ProgrammeOrders ==
    {Programme(<<"mail", "sent", "by", "offer">>), Programme(<<"letter", "offer">>),
     Programme(<<"an", "open", "offer">>),
     [Programme(<<"offer", "by", "mail">>) EXCEPT !.lenses = {}]}

(* Reports in parts, and what code says of each. *)

Says(verdict, unresolved) == [verdict |-> verdict, unresolved |-> unresolved]
Derived(rule, reads, says) == [rule |-> rule, reads |-> reads, says |-> says]
Needed(id, other, traced) == [id |-> id, other |-> other, traced |-> traced]
Spec1(ref, field, constraint, value, scope) ==
    [ref |-> ref, field |-> field, kinds |-> {"billing"}, constraint |-> constraint,
     value |-> value, severity |-> "high", scope |-> scope, state |-> "active"]
Sheet(cells) == "age" :> cells @@ "name" :> <<Text(1), Blank>>

Reports ==
    [Order EXCEPT
       !.reports = <<[kind |-> "billing",
                      parts |-> <<<<Sheet(<<Number(1), Number(2)>>), None>>, <<Sheet(<<Number(9)>>)>>>>],
                     [kind |-> "counts", parts |-> <<<<Sheet(<<>>)>>>>]>>,
       !.derived = <<Derived("r1", 1, <<Says("passed", FALSE), Says("failed", FALSE)>>),
                     Derived("r2", 2, <<Says("unknown", TRUE)>>)>>,
       !.requirements = {Needed("r1", FALSE, TRUE), Needed("r2", FALSE, TRUE),
                         Needed("r3", FALSE, FALSE)},
       !.listed = {"age"}, !.delivered = {"age", "name"},
       !.count = [declared |-> 4, validated |-> 0],
       !.credit = [date |-> 2, labelled |-> <<3, 2>>, spelled |-> {}]]

Constraints ==
    [Order EXCEPT
       !.reports = Reports.reports,
       !.constraints =
         <<Spec1("s1", "age", "range", <<1, 5>>, Scoped("configuration", "c7")),
           Spec1("s2", "name", "fill_rate_min", 60, Everywhere),
           Spec1("s3", "name", "not_blank", Unbounded, Everywhere),
           Spec1("s4", "name", "format", Unusable, Everywhere),
           Spec1("s5", "age", "allowed_values", {}, Everywhere),
           Spec1("s6", "zip", "forbidden_values", {Text(1)}, Everywhere),
           [Spec1("s7", "age", "forbidden_values", {Number(9)}, Everywhere) EXCEPT !.kinds = {"counts"}],
           Spec1("s8", "name", "allowed_values", {Text(1)}, Everywhere)>>,
       !.credit = [date |-> 2, labelled |-> NoLabel, spelled |-> {"elsewhere"}]]

(* Administrators' checks over values of which one is missing. *)

Check(ref, kind, expression, names, state) ==
    [ref |-> ref, kind |-> kind, expression |-> expression, names |-> names,
     severity |-> "high", scope |-> Everywhere, state |-> state]
Found3 == "a" :> Number(1) @@ "b" :> Number(2) @@ "t" :> Text(1) @@ "gone" :> NoValue
A == Name("a")  B == Name("b")  G == Name("gone")  T == Name("t")

Written ==
    <<Chain(<<"<=">>, <<A, B>>), Chain(<<"<", "<">>, <<B, A, G>>), Chain(<<"<=">>, <<G, B>>),
      Op("or", <<A, G>>), Chain(<<"==">>, <<Op("//", <<B, Op("-", <<A, A>>)>>), A>>),
      Chain(<<"!=">>, <<A, T>>), Chain(<<"<">>, <<A, T>>), Op("not", <<A>>),
      Chain(<<"<=">>, <<Op("min", <<A, B>>), Op("abs", <<Op("neg", <<A>>)>>)>>),
      Op("and", <<A, Chain(<<"==">>, <<Op("+", <<A, A>>), B>>)>>)>>
Checks ==
    [Order EXCEPT !.values = Found3, !.cap = 3,
       !.checks = [i \in DOMAIN Written |->
                     Check(ToString(i), "expression", Written[i], {}, "active")]]
Raising ==
    [Order EXCEPT !.values = Found3,
       !.checks = <<Check("c1", "expression", Op("abs", <<T>>), {}, "shadow")>>]
JudgmentOrder ==
    [Order EXCEPT !.values = Found3, !.cap = 0,
       !.checks = <<Check("j1", "judgment", A, {"a"}, "active"),
                    Check("j2", "judgment", A, {"a", "nowhere"}, "active"),
                    Check("j3", "judgment", A, {}, "disabled"),
                    Check("j4", "judgment", A, {"b"}, "shadow")>>]

\* The expressions of the checks and their parts, by height.
RECURSIVE PartsOf(_)
PartsOf(e) == {e} \cup UNION {PartsOf(e.args[i]) : i \in DOMAIN e.args}
RECURSIVE Height(_)
Height(e) == IF e.args = <<>> THEN 1
             ELSE 1 + Max({Height(e.args[i]) : i \in DOMAIN e.args})
MCLayers ==
    LET all == UNION {UNION {PartsOf(d.checks[i].expression) : i \in DOMAIN d.checks} :
                         d \in {Checks, Raising, JudgmentOrder}}
    IN  [n \in 1..4 |-> {e \in all : Height(e) = n}]

(* What is only read. *)

OnlyRead ==
    [Order EXCEPT
       !.requirements = {Needed("r1", TRUE, FALSE), Needed("r2", FALSE, TRUE)},
       !.shape = {"age"}, !.cap = 1,
       !.rules = <<[ref |-> "g1", strictness |-> "must", state |-> "shadow"],
                   [ref |-> "g2", strictness |-> "advisory", state |-> "active"]>>,
       !.credit = [date |-> 2, labelled |-> NoLabel, spelled |-> {"reports"}]]

(* More high findings than the lenses may read. *)
Capped ==
    [Reports EXCEPT !.lenses = {"first", "second"}, !.cap = 3, !.credit.labelled = <<2>>]
LensesOff == [Reports EXCEPT !.lenses = {}, !.credit.date = 0]

MCOrders == {Compliance, Reports, Constraints, Checks, Raising, JudgmentOrder, OnlyRead, Capped,
             LensesOff} \cup ProgrammeOrders

(* One setting, a secret whose row may be sealed with a lost key; two threads of one process. *)

CONSTANTS key, mine, shipped, t1, t2, p1

MCUsable == key :> {mine}
MCEnvironment == key :> Unset
MCDefault == key :> shipped
MCProcessOf == t1 :> p1 @@ t2 :> p1

(* Report types with no, one or two samples, some with a lost file; uploads that are a copy *)
(* of one, of two, or of none of them.                                                      *)

SampleOf(names, sheets) == [stored |-> names, sheets |-> sheets]
Small == {{"dirt", "mean", "min"}}
Two == {{"dirt", "mean"}, {"states", "code", "count"}}
Long == {"counts", "step", "kept", "lost", "in", "out", "all", "date"}

MCWorkbooks == {Small, Two, {Long}, {{"nobody"}}, {{}}}
MCShelves ==
    {"dirt" :> dirt @@ "state" :> state @@ "counts" :> counts :
       dirt \in {{}, {SampleOf({"dirt"}, Small)},
                 {SampleOf({"dirt"}, Small), SampleOf({"dirt", "states"}, Two)}},
       state \in {{}, {SampleOf({"states"}, {})}, {SampleOf({"dirt", "states"}, Two)},
                  {SampleOf({"dirt"}, {{"dirt", "mean", "min", "max"}})}},
       counts \in {{}, {SampleOf({"counts"}, {Long})}, {SampleOf({"counts"}, {Long \cup {"more"}})}}}

(* Submissions: what was typed against what is declared and what the reports carry. *)

Same(values) == [x \in values |-> x]
MCFolded ==
    [configuration_id |-> "C7" :> "C7" @@ "c-7" :> "C7" @@ "c8" :> "c8",
     customer |-> "acme" :> "acme" @@ "Acme Inc" :> "acme",
     credit_date |-> Same({"d1", "d2"})]
MCSubmissions ==
    [readable : BOOLEAN,
     typed : [configuration_id : {"C7"}, customer : {"acme"}, credit_date : {"d1", NoValueGiven}],
     declared : [configuration_id : {"C7", "c-7", "c8", NoValueGiven},
                 customer : {"acme", "Acme Inc", NoValueGiven}],
     reports : {<<>>, <<NoValueGiven, "d2", "d1">>, <<"d1">>}]

(* Chats: short and long runs and answers by one who may ask, and a short run by all the     *)
(* others. Lines of several lengths, at a cap, one over it, and longer than any cap.         *)

MCMarker == <<"<", "<", ">">>
ChatRule(id, state, scope, length) == [id |-> id, state |-> state, scope |-> scope, length |-> length]
ChatRow(id, length) == [id |-> id, length |-> length]
ChatFinding(id, severity, shadow, length) ==
    [id |-> id, severity |-> severity, shadow |-> shadow, length |-> length]
ChatRun(customer, finalized, raised) ==
    [customer |-> customer, configuration |-> "c7", finalized |-> finalized, findings |-> raised,
     length |-> 60]

ShortRun ==
    [frozen |-> TRUE, programme |-> "", customer |-> "acme", configuration |-> "c7",
     rules |-> <<>>, guidance |-> <<>>, findings |-> <<ChatFinding("F1", "low", FALSE, 90)>>,
     coverage |-> <<>>, remarks |-> <<40>>, told |-> <<70>>, earlier |-> <<>>,
     artifacts |-> <<ChatRow("A1", 60)>>, figures |-> <<>>, report |-> 0]

Full == [i \in 1..10 |-> 397]
Over == [i \in 1..11 |-> 397]
LineUps == {Full, Over, <<3998>>, <<30>>}
HalfLineUps == {<<1997>>, [i \in 1..21 |-> 97], <<5000, 30>>}
ChatFindings(lines) ==
    [i \in DOMAIN lines |->
        ChatFinding(IF i = 1 THEN "R1" ELSE "F1", IF i = 1 THEN "high" ELSE "low", FALSE, lines[i])]
    \o <<ChatFinding("F9", "high", TRUE, 4000)>>
LongRun(raised, others, halves, printed) ==
    [ShortRun EXCEPT
       !.programme = "AM", !.findings = ChatFindings(raised),
       !.coverage = <<ChatRow("R1", 97), ChatRow("", 4000)>>, !.remarks = others,
       !.rules = [i \in DOMAIN others |-> ChatRule("C1", "active", "everywhere", others[i])]
                 \o <<ChatRule("C2", "active", "customer", 4000),
                      ChatRule("C3", "shadow", "everywhere", 4000)>>,
       !.guidance = [i \in DOMAIN halves |-> ChatRule("P1", "active", "AM", halves[i])]
                    \o <<ChatRule("P2", "active", "BM", 2000)>>,
       !.told = halves, !.artifacts = [i \in DOMAIN halves |-> ChatRow("A1", halves[i])],
       !.figures = others, !.report = printed,
       !.earlier = <<ChatRun("acme", TRUE, ChatFindings(<<500>>)), ChatRun("acme", TRUE, ChatFindings(others)),
                     ChatRun("acme", FALSE, ChatFindings(others)), ChatRun("other", TRUE, ChatFindings(others)),
                     ChatRun("acme", TRUE, ChatFindings(halves)), ChatRun("acme", TRUE, <<>>)>>]

Permitted == [enabled |-> TRUE, perDay |-> 2, perRun |-> 1, maxTurns |-> 1, aggregates |-> TRUE]
Talk(run, settings, says) ==
    [run |-> run, settings |-> settings, says |-> says, known |-> TRUE, here |-> 0, today |-> 0, turns |-> 2]

ProseTexts == UNION {[1..n -> {"a", " ", "<", ">"}] : n \in 0..5}
Tails == {<<>>, <<" ">>, <<"NONE">>, <<" ", "NONE", "F1">>, <<"F1">>, <<" ", "F1", ",", "R1", ",", "F1">>,
          <<"F1", "R1">>, <<"X", ",", ",", "A1">>, <<"X">>, <<",">>, <<"<", "<", ">", "F1">>}
MCConversations ==
    {Talk(ShortRun, Permitted, text) : text \in ProseTexts}
    \cup {Talk(ShortRun, Permitted, text \o MCMarker \o tail) :
             text \in {<<>>, <<" ", "a">>, <<"a", "<">>}, tail \in Tails}
    \cup {Talk(LongRun(f, o, h, r), [Permitted EXCEPT !.aggregates = a], <<>>) :
             f \in {Over, <<3998>>}, o \in LineUps, h \in HalfLineUps, r \in {0, 1500, 20000},
             a \in BOOLEAN}
    \cup {[Talk([ShortRun EXCEPT !.frozen = f],
                [Permitted EXCEPT !.enabled = on, !.perDay = d], <<>>) EXCEPT
              !.known = k, !.here = h, !.today = t] :
             f \in BOOLEAN, on \in BOOLEAN, d \in {0, 2}, k \in BOOLEAN, h \in 0..1, t \in 1..2}
IdleTalk == Talk(ShortRun, Permitted, <<>>)

VARIABLE part
stagesVars == <<vars, opinionVars, settingsVars, intakeVars, chatVars, part>>

Idle == CHOOSE d \in Deliveries : TRUE
IdleShelf == CHOOSE s \in Shelves : TRUE

StagesInit ==
    /\ part \in {"pipeline", "opinions", "settings", "intake", "chat"}
    /\ IF part = "pipeline" THEN delivery \in Deliveries ELSE delivery = Idle
    /\ IF part = "opinions" THEN given \in Orders ELSE given = Raising
    /\ IF part = "settings" THEN TRUE ELSE override = MCEnvironment
    /\ IF part = "intake" THEN shelf \in Shelves ELSE shelf = IdleShelf
    /\ IF part = "chat" THEN ChatInit ELSE conversation = IdleTalk /\ NothingAsked
    /\ Init /\ OpinionsInit /\ SettingsInit /\ IntakeInit

PipelinePart ==
    part = "pipeline" /\ Next /\ UNCHANGED <<part, opinionVars, settingsVars, intakeVars, chatVars>>
OpinionsPart ==
    part = "opinions" /\ OpinionsNext /\ UNCHANGED <<part, vars, settingsVars, intakeVars, chatVars>>
SettingsPart ==
    part = "settings" /\ SettingsNext /\ UNCHANGED <<part, vars, opinionVars, intakeVars, chatVars>>
IntakePart ==
    part = "intake" /\ IntakeNext /\ UNCHANGED <<part, vars, opinionVars, settingsVars, chatVars>>
ChatPart ==
    part = "chat" /\ ChatNext /\ UNCHANGED <<part, vars, opinionVars, settingsVars, intakeVars>>
StagesNext == PipelinePart \/ OpinionsPart \/ SettingsPart \/ IntakePart \/ ChatPart
StagesSpec == StagesInit /\ [][StagesNext]_stagesVars
=============================================================================
