---- MODULE Extraction ----
(***************************************************************************)
(* Stages 2 to 5 for one section of the requirement document and the       *)
(* blocks of one configuration: what the model answers is checked against  *)
(* the schema, folded, turned into rules (pipeline/s2_extract.py,          *)
(* s3_describe.py), linked (s4_trace.py) and compared (s5_compare.py, in   *)
(* Criteria).  The model may answer anything among Answers.                *)
(*                                                                         *)
(* `form` is how an answer spells its keys: as the schema has them, with   *)
(* the synonyms the fold knows, or with its one condition written on the   *)
(* requirement itself.  `shape` is what a condition carries: nothing, one  *)
(* value or a list.  A quantity is the set of the number, if there is one. *)
(* The quirks of reading a number out of a sentence are in Numeral.        *)
(***************************************************************************)
EXTENDS Criteria

CONSTANTS
    Answers,          \* what the model may say of the section: sequences of requirements
    BlockAnswers,     \* what it may say of a block
    Plumbing,         \* for each block in order: code knows it for technical
    StateCodes,       \* names of states -> their codes
    Catalogue,        \* product codes in force -> their attributes
    NoMode, NoValueText,
    MaxRetries        \* MAX_RETRIES

ReqTypes ==
    {"criteria", "geography", "value_set", "attributes", "waterfall", "quantity", "other"}
SET_TYPES == {"geography", "value_set", "attributes"}

\* Words a model uses for these, some of each.
TypeAliases ==
    [word \in {"threshold", "exclusion", "states", "count"} |->
        CASE word = "threshold" -> "criteria" [] word = "exclusion" -> "value_set"
          [] word = "states" -> "geography"   [] word = "count" -> "quantity"]
OperatorAliases ==
    [word \in {"gte", "at_most", "==", "not in", "null"} |->
        CASE word = "gte" -> ">=" [] word = "at_most" -> "<=" [] word = "==" -> "="
          [] word = "not in" -> "not_in" [] word = "null" -> "is_null"]

ASSUME ExtractionAssumption ==
    MaxRetries \in Nat /\ Plumbing \in Seq(BOOLEAN)

\* A text is no number, and a value is in the shape its condition says. Left out: a list
\* for an operator that takes one value, which no range is read from.
IsSaid(r) ==
    /\ IsSeq(r.conditions) /\ IsSeq(r.steps)
    /\ \A c \in Range(r.conditions) :
          /\ c = [field |-> c.field, operator |-> c.operator, shape |-> c.shape, value |-> c.value]
          /\ IsSeq(c.value) /\ (c.shape = "one" => Len(c.value) = 1)
          /\ c.shape = "list" /\ c.operator \in Operators =>
                 c.operator \in ListOperators \cup {"between"}

ASSUME AnswersAssumption ==
    /\ DOMAIN Numeral \cap Values = {}
    /\ \A answer \in Answers : IsSeq(answer) /\ \A r \in Range(answer) : IsSaid(r)
    /\ \A answer \in BlockAnswers : IsSeq(answer) /\ \A d \in Range(answer) : IsSaid(d.is)

VARIABLES
    stage,      \* "extract", "describe", "trace", "compare", "read", "refused"
    retries,    \* how often the question at hand was asked again
    said,       \* the requirements of the section, as the accepted answer has them
    rules,      \* context.rules, each with the place of what it was made of
    elements,   \* context.elements: for each block what it was described as, and its rule
    traces,     \* for each rule the block it is linked to, or 0
    found       \* for each rule the kinds of its findings

extractionVars == <<stage, retries, said, rules, elements, traces, found>>

ExtractionInit ==
    /\ stage = "extract" /\ retries = 0 /\ said = <<>>
    /\ rules = <<>> /\ elements = <<>> /\ traces = <<>> /\ found = <<>>

(***************************************************************************)
(* An answer.  The client checks it against the schema, which knows no     *)
(* other key, type or operator; only what passes is folded.                *)
(***************************************************************************)
KeepsToSchema(r) ==
    r.form = "schema" /\ \A c \in Range(r.conditions) : c.operator \in Operators

Validates(r) == KeepsToSchema(r) /\ r.type \in ReqTypes

FoldedType(word) ==
    LET type == IF word \in DOMAIN TypeAliases THEN TypeAliases[word] ELSE word
    IN  IF type \in ReqTypes THEN type ELSE "other"

FoldedCondition(c) ==
    LET operator == IF c.operator \in DOMAIN OperatorAliases
                    THEN OperatorAliases[c.operator] ELSE c.operator
    IN  [field |-> c.field, shape |-> c.shape, value |-> c.value,
         operator |-> IF operator \in Operators THEN operator ELSE "="]

\* A flat field with an operator is a condition; with values, a set on that field.
FoldedConditions(r) ==
    LET flat == r.conditions[1]
        members == [field |-> flat.field, shape |-> "list", value |-> r.values,
                    operator |-> IF r.mode = "exclude" THEN "not_in" ELSE "in"]
    IN  IF r.form # "flat" THEN [i \in DOMAIN r.conditions |-> FoldedCondition(r.conditions[i])]
        ELSE IF flat.operator # "unsaid" THEN <<FoldedCondition(flat)>>
        ELSE IF FoldedType(r.type) = "value_set" THEN <<members>> ELSE <<>>

AsSchema(r, codes, action) ==
    [form |-> "schema", type |-> FoldedType(r.type), conditions |-> FoldedConditions(r),
     values |-> r.values, codes |-> codes, mode |-> r.mode, steps |-> r.steps,
     quantity |-> r.quantity, action |-> action, confident |-> r.confident]

Folded(r) ==
    AsSchema(r, IF FoldedType(r.type) = "attributes" THEN r.codes ELSE <<>>, r.action)

(***************************************************************************)
(* A rule.  Conditions that do not fit their operator are dropped, and so  *)
(* is a rule whose payload does not fit its type.                          *)
(***************************************************************************)
Usable(c) ==
    IF c.operator \in NullOperators THEN c.shape = "nothing"
    ELSE /\ c.shape # "nothing"
         /\ c.operator = "between" => c.shape = "list" /\ Len(c.value) = 2
         /\ c.operator \in ListOperators => c.shape = "list"

\* Numbers are read where one value stands; a list is left as it is.
ReadCondition(c) ==
    [field |-> c.field, operator |-> c.operator,
     value |-> IF c.shape = "one" THEN <<ParseNumber(c.value[1])>> ELSE c.value]

ReadConditions(r) ==
    LET usable == Kept(r.conditions, {c \in Range(r.conditions) : Usable(c)})
    IN  [i \in DOMAIN usable |-> ReadCondition(usable[i])]

NormalizeState(v) == IF v \in DOMAIN StateCodes THEN StateCodes[v] ELSE v

\* A blank is nothing, except among states, where it is a state nobody recognises.
ReadValues(r) ==
    CASE r.type = "geography"           -> {NormalizeState(v) : v \in Range(r.values)}
      [] r.type \in SET_TYPES \ {"geography"} -> Range(r.values) \ {NoValueText}
      [] OTHER                          -> {}

PayloadFits(rule) ==
    CASE rule.family = "attributes" -> rule.values # {} \/ rule.codes # {}
      [] rule.family \in SET_TYPES  -> rule.values # {}
      [] rule.family = "criteria"   -> rule.conditions # <<>>
      [] rule.family = "waterfall"  -> Len(rule.steps) >= 2
      [] rule.family = "quantity"   -> rule.quantity # {}
      [] rule.family = "other"      -> TRUE

\* Faulty variant: every list is a list of what is allowed.
RuleOfAllowed(r) ==
    [type |-> IF r.type \in SET_TYPES THEN "set" ELSE r.type, family |-> r.type,
     conditions |-> ReadConditions(r), values |-> ReadValues(r), codes |-> Range(r.codes),
     mode |-> IF r.type \in SET_TYPES THEN "include" ELSE r.mode,
     steps |-> r.steps, quantity |-> r.quantity, action |-> r.action, logic |-> "AND",
     confident |-> r.confident]

RuleOf(r) ==
    [type |-> IF r.type \in SET_TYPES THEN "set" ELSE r.type, family |-> r.type,
     conditions |-> ReadConditions(r), values |-> ReadValues(r), codes |-> Range(r.codes),
     mode |-> IF r.mode = NoMode /\ r.type \in SET_TYPES THEN "include" ELSE r.mode,
     steps |-> r.steps, quantity |-> r.quantity, action |-> r.action, logic |-> "AND",
     confident |-> r.confident]

ToRule(r) == {rule \in {RuleOf(r)} : PayloadFits(rule)}

\* The attributes of the codes a rule names join its values; an unknown code adds none.
ExpandProductCodes(rule) ==
    IF rule.family # "attributes" THEN rule
    ELSE [rule EXCEPT !.values = @ \cup UNION {Catalogue[k] : k \in rule.codes \cap DOMAIN Catalogue}]

(***************************************************************************)
(* Stage 2.  A question that is answered against the schema is asked again *)
(* and then fails its stage.                                               *)
(***************************************************************************)
RulesOf(answer) ==
    LET fits == {i \in DOMAIN answer : ToRule(Folded(answer[i])) # {}}
        kept == Kept([i \in DOMAIN answer |-> i], fits)
    IN  [k \in DOMAIN kept |->
            [of |-> kept[k], is |-> ExpandProductCodes(RuleOf(Folded(answer[kept[k]])))]]

AskAgain ==
    /\ IF retries < MaxRetries THEN retries' = retries + 1 /\ UNCHANGED stage
                               ELSE stage' = "refused" /\ UNCHANGED retries
    /\ UNCHANGED <<said, rules, elements, traces, found>>

Extract ==
    /\ stage = "extract"
    /\ \E answer \in Answers :
          IF \A r \in Range(answer) : Validates(r)
          THEN /\ said' = answer /\ rules' = RulesOf(answer)
               /\ stage' = "describe" /\ retries' = 0
               /\ UNCHANGED <<elements, traces, found>>
          ELSE AskAgain

(***************************************************************************)
(* Stage 3, block by block.  Of an answer about several blocks the one     *)
(* that was asked about counts; of one about a single block, that one.     *)
(***************************************************************************)
ValidatesBlock(d) == KeepsToSchema(d.is) /\ (d.technical \/ d.is.type \in ReqTypes)

ForPath(answer) ==
    LET here == {i \in DOMAIN answer : answer[i].here}
    IN  IF here # {} THEN {answer[Min(here)]}
        ELSE IF Len(answer) = 1 THEN {answer[1]} ELSE {}

\* A block that is described names no product codes and has no action of its own.
Described(d) == AsSchema(d.is, <<>>, "accept")
ElementOf(answer) ==
    LET described == {Described(d) : d \in {e \in ForPath(answer) : ~ e.technical}}
    IN  [said |-> described, rule |-> UNION {ToRule(r) : r \in described}]
Technical == [said |-> {}, rule |-> {}]

NextBlock == Len(elements) + 1
DescribedAs(element0) ==
    /\ elements' = Append(elements, element0)
    /\ stage' = IF NextBlock = Len(Plumbing) THEN "trace" ELSE stage
    /\ retries' = 0
    /\ UNCHANGED <<said, rules, traces, found>>

Describe ==
    /\ stage = "describe"
    /\ \/ Plumbing[NextBlock] /\ DescribedAs(Technical)
       \/ /\ ~ Plumbing[NextBlock]
          /\ \E answer \in BlockAnswers :
                IF \A d \in Range(answer) : ValidatesBlock(d)
                THEN DescribedAs(ElementOf(answer)) ELSE AskAgain

(***************************************************************************)
(* Stage 4.  An exact match is linked by code; otherwise the model judges  *)
(* the blocks of the shortlist in order, and the first it is sure of, or   *)
(* failing that the first it does not turn down, is taken.                 *)
(***************************************************************************)
FieldsOf(rule) ==
    {Resolve(c.field) : c \in Range(rule.conditions)}
    \cup (IF rule.family = "attributes" THEN {Resolve(v) : v \in rule.values} ELSE {})

Shortlist(rule) ==
    LET same == {b \in DOMAIN elements : \E other \in elements[b].rule : other.family = rule.family}
        near == {b \in same : \E other \in elements[b].rule :
                                 FieldsOf(rule) \cap FieldsOf(other) # {}}
    IN  IF near # {} THEN near ELSE same

ConditionsKey(rule) ==
    {<<Resolve(c.field), c.operator, c.value>> : c \in Range(rule.conditions)}

ExactMatch(rule, other) ==
    CASE rule.type = "set"       -> rule.values = other.values /\ rule.mode = other.mode
      [] rule.type = "waterfall" -> rule.steps = other.steps
      [] rule.type = "quantity"  -> rule.quantity = other.quantity
      [] rule.type = "criteria"  -> ConditionsKey(rule) = ConditionsKey(other)
      [] OTHER                   -> FALSE

TraceVerdict == {"not_related", "unsure", "implemented"}

Linked(rule, verdicts) ==
    LET listed == Shortlist(rule)
        exact == {b \in listed : \E other \in elements[b].rule : ExactMatch(rule, other)}
        sure == {b \in listed : verdicts[b] = "implemented"}
        unsure == {b \in listed : verdicts[b] = "unsure"}
    IN  IF exact # {} THEN Min(exact) ELSE IF sure # {} THEN Min(sure)
        ELSE IF unsure # {} THEN Min(unsure) ELSE 0

LinkRules ==
    /\ stage = "trace"
    /\ \E verdicts \in [DOMAIN rules -> [DOMAIN elements -> TraceVerdict]] :
          traces' = [i \in DOMAIN rules |-> Linked(rules[i].is, verdicts[i])]
    /\ stage' = "compare"
    /\ UNCHANGED <<retries, said, rules, elements, found>>

(***************************************************************************)
(* Stage 5.                                                                *)
(***************************************************************************)
CompareQuantity(rule, other) ==
    IF rule.quantity = other.quantity THEN {} ELSE {"value_mismatch"}

FoundFor(rule, block) ==
    (IF rule.confident THEN {} ELSE {"low_confidence_extraction"})
    \cup IF block = 0 THEN {"rule_missing_in_config"}
         ELSE UNION {CASE rule.type = "quantity" -> CompareQuantity(rule, other)
                       [] rule.type = "other"    -> {}
                       [] OTHER                  -> CompareWith(rule, other)
                     : other \in elements[block].rule}

CompareRules ==
    /\ stage = "compare" /\ stage' = "read"
    /\ found' = [i \in DOMAIN rules |-> FoundFor(rules[i].is, traces[i])]
    /\ UNCHANGED <<retries, said, rules, elements, traces>>

ExtractionNext == Extract \/ Describe \/ LinkRules \/ CompareRules
ExtractionSpec == ExtractionInit /\ [][ExtractionNext]_extractionVars

(***************************************************************************)
(* What the two answers said, read without the code: the reference.        *)
(***************************************************************************)
Spelled(r, v) == IF r.type = "geography" THEN NormalizeState(v) ELSE v
MeantValues(r) ==
    {Spelled(r, v) : v \in Range(r.values) \ {NoValueText}}
    \cup {v \in UNION {Catalogue[k] : k \in Range(r.codes) \cap DOMAIN Catalogue} :
             r.type = "attributes"}
MeantMode(r) == IF r.mode = NoMode THEN "include" ELSE r.mode

MeantConditions(r) ==
    LET usable == Kept(r.conditions, {c \in Range(r.conditions) : Usable(c)})
    IN  [i \in DOMAIN usable |->
            [field |-> usable[i].field, operator |-> usable[i].operator,
             value |-> [k \in DOMAIN usable[i].value |-> ParseNumber(usable[i].value[k])]]]

AsMeant(r) ==
    [type |-> r.type, conditions |-> MeantConditions(r), steps |-> r.steps]

\* A block has no action of its own, so what is done with a record is not compared.
SaysTheSame(a, b) ==
    CASE a.type \in SET_TYPES -> MeantValues(a) = MeantValues(b) /\ MeantMode(a) = MeantMode(b)
      [] a.type = "quantity"  -> a.quantity = b.quantity
      [] OTHER                -> KeepsTheSame(AsMeant(a), AsMeant(b))

\* What stage 5 can be asked about: Criteria has why other conditions are left out.
CanBeCompared(r) ==
    /\ r.type # "other"
    /\ r.type = "geography" => NoValueText \notin Range(r.values)
    /\ Comparable(AsMeant(r))

(***************************************************************************)
(* A requirement linked to a block is found to differ from it exactly when *)
(* what the model said of the one is not what it said of the other,        *)
(* however each was spelled: names or codes, numbers or texts, lists in    *)
(* any order, product codes or the attributes they stand for, one way of   *)
(* writing a list or another.                                              *)
(* Hazard: a value, a condition or a mode lost between the answer and the  *)
(* comparison makes two rules agree, or differ, that do not.               *)
(***************************************************************************)
ComparedAsSaid ==
    stage = "read" =>
        \A i \in DOMAIN rules : traces[i] # 0 =>
            \A b \in elements[traces[i]].said :
                LET a == said[rules[i].of]
                IN  CanBeCompared(a) /\ CanBeCompared(b) =>
                        (found[i] \subseteq {"low_confidence_extraction"} <=> SaysTheSame(a, b))

(***************************************************************************)
(* "The gap shows up as an untraced requirement" (to_rule), which is not   *)
(* so: every requirement of an accepted answer is a rule.                  *)
(***************************************************************************)
EveryRequirementIsARule ==
    \A k \in DOMAIN said : \E i \in DOMAIN rules : rules[i].of = k
====
