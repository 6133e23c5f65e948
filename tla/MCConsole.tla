---- MODULE MCConsole ----
(***************************************************************************)
(* Small instances of the console's parts, and of the queue with workers   *)
(* that stall, side by side: `part` says which of them moves, and nothing  *)
(* a part does concerns another.                                           *)
(***************************************************************************)
EXTENDS JobQueue, LearnedRules, Meaning, Versions, Accounts, ModelCalls, Extraction, TLC

CONSTANTS ca, cb, ax, ay, az, three, word

MCBackoff == <<1, 2>>
MCYields == ca :> {"check", "compliance_rule"} @@ cb :> {"check"}

(* Requirements and configured rules to compare: two bounds with room below,
   between and above them; two conditions where one of them is of few. *)
MCAliases == ax :> ax @@ ay :> ax

Condition(fields, operators, values) ==
    [field : fields, operator : operators, value : values]
Conditions ==
    UNION {Condition(Attributes, {"<", "<=", ">", ">=", "=", "!="}, {<<1>>, <<3>>}),
           Condition(Attributes, {"between"}, {<<1, 1>>, <<1, 3>>, <<3, 3>>}),
           Condition(Attributes, {"in", "not_in"}, {<<1>>, <<1, 3>>}),
           Condition(Attributes, {"is_null", "not_null"}, {<<>>})}
FewConditions ==
    Condition({ax, az}, {">="}, {<<1>>}) \cup Condition({ax, az}, {"<", "="}, {<<3>>})

CriteriaRules(actions, logics, conditions) ==
    [type : {"criteria"}, action : actions, logic : logics, conditions : conditions]
SetRules == [type : {"set"}, mode : {"include", "exclude"}, values : SUBSET Members \ {{}}]
WaterfallRules ==
    [type : {"waterfall"},
     steps : {s \in UNION {[1..n -> {"a", "b", "c"}] : n \in 2..3} : IsInjective(s)}]

\* A requirement alone, to judge deliveries by; and pairs, to compare.
OneCondition == {<<c>> : c \in Conditions}
Alone ==
    CriteriaRules({"accept", "reject", "tag"}, {"AND"}, OneCondition)
    \cup CriteriaRules({"accept", "reject"}, {"AND", "OR"}, Conditions \X FewConditions)
    \cup SetRules \cup WaterfallRules
OneOrTwo == CriteriaRules({"accept"}, {"AND"}, OneCondition \cup FewConditions \X FewConditions)
MCReadings ==
    Alone \X {NoElement} \cup OneOrTwo \X OneOrTwo
    \cup (SetRules \cup WaterfallRules) \X (SetRules \cup WaterfallRules)
IdleReading == CHOOSE r \in MCReadings : r[1].type = "waterfall" /\ r[2] = NoElement

(* Answers of the model: one requirement in several spellings, with what does not fit;
   answers that name more than one, or none, or keep to no schema. *)
MCNumeral == three :> 3
Said(type) ==
    [form |-> "schema", type |-> type, conditions |-> <<>>, values |-> <<>>, codes |-> <<>>,
     mode |-> NoMode, steps |-> <<>>, quantity |-> {}, action |-> "accept", confident |-> TRUE]
SaidCondition(field, operator, shape, value) ==
    [field |-> field, operator |-> operator, shape |-> shape, value |-> value]
Single(field, operator, value) == SaidCondition(field, operator, "one", <<value>>)
Listed(field, operator, values) == SaidCondition(field, operator, "list", values)
Null(field) == SaidCondition(field, "is_null", "nothing", <<>>)

SaidCriteria(conditions) == [Said("criteria") EXCEPT !.conditions = conditions]
SaidSet(type, values, mode) == [Said(type) EXCEPT !.values = values, !.mode = mode]
SaidSteps(steps) == [Said("waterfall") EXCEPT !.steps = steps]

Both ==
    {SaidCriteria(<<Single(f, o, 3)>>) : f \in {ax, az}, o \in {"<", ">="}}
    \cup {SaidCriteria(<<Single(ay, ">=", three)>>), SaidCriteria(<<Single(ax, ">=", 1)>>),
          SaidCriteria(<<Listed(ax, "between", <<three, 3>>)>>), SaidCriteria(<<Single(ax, "=", 3)>>),
          SaidCriteria(<<Single(ax, ">=", 1), Single(az, "<", three), Single(az, "between", 1)>>),
          SaidSet("geography", <<"IL", "AZ">>, NoMode), SaidSet("geography", <<"Illinois">>, NoMode),
          SaidSet("geography", <<"IL">>, "exclude"),
          SaidSet("geography", <<"Arizona", "IL", "IL">>, "include"),
          SaidSet("attributes", <<ax, az>>, NoMode), SaidSet("attributes", <<az>>, NoMode),
          SaidSteps(<<"a", "b">>), SaidSteps(<<"b", "c", "a">>), SaidSteps(<<"a">>),
          [Said("quantity") EXCEPT !.quantity = {2}]}
MCAnswers ==
    {<<r>> : r \in Both}
    \cup {<<[SaidSet("attributes", <<>>, NoMode) EXCEPT !.codes = <<"k", "new">>]>>,
          <<SaidCriteria(<<Single(ax, "in", 3), Null(az), Listed(ax, "not_in", <<1, 3>>)>>)>>,
          <<SaidCriteria(<<Single(ax, "=", word)>>)>>,
          <<[SaidCriteria(<<Single(ax, "<", 3)>>) EXCEPT !.action = "reject", !.confident = FALSE]>>,
          <<[Said("quantity") EXCEPT !.quantity = {1}], SaidSet("geography", <<>>, NoMode),
            SaidSet("geography", <<"AZ", "IL">>, "include")>>,
          <<SaidSet("value_set", <<"x", NoValueText>>, "include")>>,
          <<SaidSet("value_set", <<"Illinois">>, "include")>>, <<Said("other")>>, <<>>,
          <<[SaidCriteria(<<Single(ax, "gte", 3)>>) EXCEPT !.form = "flat"]>>,
          <<[SaidSet("exclusion", <<"x">>, "exclude") EXCEPT
               !.form = "flat", !.conditions = <<SaidCondition(ax, "unsaid", "nothing", <<>>)>>]>>,
          <<SaidCriteria(<<Single(ax, "roughly", 3)>>)>>}
Item(here, technical, r) == [here |-> here, technical |-> technical, is |-> r]
MCBlockAnswers ==
    {<<Item(TRUE, FALSE, r)>> : r \in Both}
    \cup {<<Item(FALSE, FALSE, SaidCriteria(<<Single(ax, "<", 1)>>)),
            Item(TRUE, FALSE, [Said("quantity") EXCEPT !.quantity = {1}])>>,
          <<Item(FALSE, FALSE, SaidSteps(<<"c", "a", "b">>))>>,
          <<Item(FALSE, FALSE, Said("other")), Item(FALSE, FALSE, Said("other"))>>,
          <<Item(TRUE, TRUE, Said("none"))>>, <<>>,
          <<Item(TRUE, FALSE, SaidSet("value_set", <<"x">>, "include"))>>,
          <<Item(TRUE, FALSE, SaidSet("value_set", <<"IL">>, "include"))>>,
          <<Item(TRUE, FALSE, Said("threshold"))>>}
MCStateCodes == "Illinois" :> "IL" @@ "Arizona" :> "AZ"
MCProducts == "k" :> {ax, az}
MCPlumbing == <<FALSE, TRUE, FALSE>>

VARIABLE part

parts == <<vars, rulesVars, meaningVars, versionsVars, accountsVars, callsVars, criteriaVars, extractionVars, part>>

ConsoleInit ==
    /\ Init /\ RulesInit /\ MeaningInit /\ VersionsInit /\ AccountsInit /\ CallsInit
    /\ ExtractionInit
    /\ part \in {"queue", "rules", "meaning", "versions", "accounts", "calls", "criteria", "extraction"}
    /\ part # "meaning" => readable
    /\ IF part = "criteria" THEN CriteriaInit
                            ELSE asked = IdleReading[1] /\ element = IdleReading[2]

QueuePart ==
    /\ part = "queue" /\ Next
    /\ UNCHANGED <<part, criteriaVars, extractionVars, rulesVars, meaningVars, versionsVars, accountsVars, callsVars>>

RulesPart ==
    /\ part = "rules" /\ RulesNext
    /\ UNCHANGED <<part, criteriaVars, extractionVars, vars, meaningVars, versionsVars, accountsVars, callsVars>>

MeaningPart ==
    /\ part = "meaning" /\ MeaningNext
    /\ UNCHANGED <<part, criteriaVars, extractionVars, vars, rulesVars, versionsVars, accountsVars, callsVars>>

VersionsPart ==
    /\ part = "versions" /\ VersionsNext
    /\ UNCHANGED <<part, criteriaVars, extractionVars, vars, rulesVars, meaningVars, accountsVars, callsVars>>

AccountsPart ==
    /\ part = "accounts" /\ AccountsNext
    /\ UNCHANGED <<part, criteriaVars, extractionVars, vars, rulesVars, meaningVars, versionsVars, callsVars>>

CallsPart ==
    /\ part = "calls" /\ CallsNext
    /\ UNCHANGED <<part, criteriaVars, extractionVars, vars, rulesVars, meaningVars, versionsVars, accountsVars>>

ExtractionPart ==
    /\ part = "extraction" /\ ExtractionNext
    /\ UNCHANGED <<part, criteriaVars, vars, rulesVars, meaningVars, versionsVars, accountsVars,
                   callsVars>>

ConsoleNext == QueuePart \/ RulesPart \/ MeaningPart
               \/ VersionsPart \/ AccountsPart \/ CallsPart \/ ExtractionPart

\* The fairness of JobQueue, in the behaviours in which the queue moves.
QueueFairness ==
    /\ WF_vars(part = "queue" /\ Tick)
    /\ \A w \in Workers :
          WF_vars(part = "queue" /\ Step(w)) /\ WF_vars(part = "queue" /\ Heartbeat(w))

ConsoleSpec == ConsoleInit /\ [][ConsoleNext]_parts /\ QueueFairness

(* Bounds. Rules: one rule table per behaviour, and one rule touched by hand,
   in behaviours that withdraw and reject nothing; drafting ends before a rule exists. *)
KindsInUse ==
    ({rule[r].kind : r \in Rules} \cup {candidate[c].kind : c \in Candidates}) \ {"none"}
RulesBound ==
    /\ Cardinality(KindsInUse) <= 1
    /\ Cardinality(byHand) <= 1
    /\ (\E q \in Teachers : teacher[q] # NotAsking /\ teacher[q].doing = "synthesize")
           => \A r \in Rules : rule[r].state = "none"
    /\ byHand # {} =>
           /\ \A o \in Statements : statement[o] \notin {"withdrawn", "rejected"}
           /\ \A c \in Candidates : candidate[c].status # "rejected"

(* Meaning: the entries or the guide, not both in one behaviour, and one
   compiled row brought back by the Rules screen. *)
MeaningBound ==
    /\ Cardinality(byScreen) <= 1
    /\ \/ \A e \in Entries : entry[e] = Absent /\ compiled[e]["check"].state = "none"
       \/ \A g \in Guides : entry[g] = Absent /\ compiled[g]["check"].state = "none"

ConsoleBound == RulesBound /\ MeaningBound
====
