---- MODULE Criteria ----
(***************************************************************************)
(* What the code decides about values, and never asks the model: how a     *)
(* requirement compares with the configuration that implements it (stage   *)
(* 5), what it implies the reports must show (rules/derive.py) and whether *)
(* they do (checks/reports.py).  Pure functions: a state is a pair of      *)
(* rules, and nothing moves.                                               *)
(*                                                                         *)
(* A rule is a criterion, a set (a geography or a value set) or a          *)
(* waterfall.  A delivery is a set of records without nulls, the DIRT the  *)
(* smallest and largest value of each attribute and a distribution the     *)
(* values that occur.  Both come from outside, complete and under known    *)
(* names.                                                                  *)
(***************************************************************************)
EXTENDS Integers, FiniteSets, Subsequences, Functions

CONSTANTS
    Attributes,  \* names of attributes, as documents write them
    Aliases,     \* the alias table: names it has heard of -> canonical names
    Values,      \* what an attribute of a record may be
    Bounds,      \* the numbers conditions are compared on
    Numeral,     \* texts a number is read out of -> the number
    Members,     \* states, or the values of a value set
    Readings,    \* the pairs <<requirement, configured rule>> that are looked at
    NoElement    \* nothing implements the requirement

ASSUME CriteriaAssumption ==
    /\ DOMAIN Aliases \subseteq Attributes /\ Aliases \in [DOMAIN Aliases -> Attributes]
    /\ Values \subseteq Int /\ Values # {} /\ Numeral \in [DOMAIN Numeral -> Values]

\* Numbers have no gaps: there are some between two bounds, and beyond each. Integers give
\* them their order and nothing else.
ASSUME BoundsAssumption ==
    /\ Bounds \subseteq Values
    /\ \A a \in Bounds : (\E v \in Values : v < a) /\ (\E v \in Values : a < v)
    /\ \A a, b \in Bounds : a < b => \E v \in Values : a < v /\ v < b

VARIABLES asked, element

criteriaVars == <<asked, element>>

CriteriaInit == \E r \in Readings : asked = r[1] /\ element = r[2]

CriteriaSpec == CriteriaInit /\ [][FALSE]_criteriaVars

(***************************************************************************)
(* Conditions.  A value is a sequence: one number or text, the two bounds  *)
(* of "between", the members of "in", nothing for the null tests.          *)
(***************************************************************************)
Knows(name) == name \in DOMAIN Aliases
Resolve(name) == IF Knows(name) THEN Aliases[name] ELSE name

ParseNumber(v) == IF v \in DOMAIN Numeral THEN Numeral[v] ELSE v

\* A bound is the set of the number, or {} where the range is open to that side.
RangeOperators == {"<", "<=", ">", ">=", "=", "between"}
HasInterval(operator, value) ==
    /\ operator \in RangeOperators /\ value # <<>>
    /\ \A i \in DOMAIN value : ParseNumber(value[i]) \in Values

IntervalOf(operator, value) ==
    [lower   |-> IF operator \in {">", ">=", "=", "between"} THEN {ParseNumber(value[1])} ELSE {},
     upper   |-> IF operator \in {"<", "<=", "="} THEN {ParseNumber(value[1])}
                 ELSE IF operator = "between" THEN {ParseNumber(value[2])} ELSE {},
     lowerIn |-> operator # ">",
     upperIn |-> operator # "<"]

NullOperators == {"is_null", "not_null"}
ListOperators == {"in", "not_in"}
Operators == RangeOperators \cup {"!="} \cup ListOperators \cup NullOperators

\* A condition with the values its operator takes, and what a requirement is made of.
IsCondition(c) ==
    /\ c.field \in Attributes /\ c.operator \in Operators
    /\ c.operator \in {"<", "<=", ">", ">=", "=", "!="} => DOMAIN c.value = 1 .. 1
    /\ c.operator = "between" => DOMAIN c.value = 1 .. 2

IsRequirement(rule) ==
    \/ /\ rule.type = "criteria" /\ rule.logic \in {"AND", "OR"}
       /\ rule.conditions \in Seq(Range(rule.conditions))
       /\ \A c \in Range(rule.conditions) : IsCondition(c)
    \/ rule.type = "set" /\ rule.mode \in {"include", "exclude"} /\ rule.values \subseteq Members
    \/ rule.type = "waterfall" /\ IsSeq(rule.steps)

ASSUME ReadingsAssumption ==
    \A r \in Readings : IsRequirement(r[1]) /\ (r[2] = NoElement \/ IsRequirement(r[2]))

SameBounds(a, b) == a.lower = b.lower /\ a.upper = b.upper

(***************************************************************************)
(* Stage 5: the kinds of the findings a comparison adds.                   *)
(***************************************************************************)
ConditionsOf(rule) == IF rule.type = "criteria" THEN rule.conditions ELSE <<>>
ValuesOf(rule) == IF rule.type = "set" THEN rule.values ELSE {}
StepsOf(rule) == IF rule.type = "waterfall" THEN rule.steps ELSE <<>>

CompareSets(rule, other) ==
    IF other.type = "set" /\ rule.mode # other.mode
    THEN {"operator_mismatch"}
    ELSE {k \in {"rule_missing_in_config", "extra_rule_in_config"} :
             IF k = "rule_missing_in_config"
             THEN ~ rule.values \subseteq ValuesOf(other)
             ELSE ~ ValuesOf(other) \subseteq rule.values}

\* The configured conditions on the attribute of c: the last one wins, and where each
\* side has one condition and the table never heard of the name, the only one there is.
Counterpart(rule, other, c) ==
    LET theirs == ConditionsOf(other)
        same == {i \in DOMAIN theirs : Resolve(theirs[i].field) = Resolve(c.field)}
        single == Len(rule.conditions) = 1 /\ Len(theirs) = 1
    IN  IF same # {} THEN {theirs[CHOOSE i \in same : \A j \in same : j <= i]}
        ELSE IF single /\ ~ Knows(c.field) THEN {theirs[1]} ELSE {}

\* Faulty variant: bounds that agree are an agreement, whatever the operators.
ComparedBounds(c, d) ==
    IF HasInterval(c.operator, c.value) /\ HasInterval(d.operator, d.value)
    THEN IF SameBounds(IntervalOf(c.operator, c.value), IntervalOf(d.operator, d.value))
         THEN {} ELSE {"value_mismatch"}
    ELSE IF c.operator # d.operator THEN {"operator_mismatch"} ELSE {}

CompareConditions(c, d) ==
    IF HasInterval(c.operator, c.value) /\ HasInterval(d.operator, d.value)
    THEN LET wanted == IntervalOf(c.operator, c.value)
             got == IntervalOf(d.operator, d.value)
         IN  IF ~ SameBounds(wanted, got) THEN {"value_mismatch"}
             ELSE IF wanted.lowerIn # got.lowerIn \/ wanted.upperIn # got.upperIn
                  THEN {"operator_mismatch"} ELSE {}
    ELSE IF c.operator # d.operator THEN {"operator_mismatch"} ELSE {}

CompareCriteria(rule, other) ==
    UNION {LET theirs == Counterpart(rule, other, c)
           IN  IF theirs = {} THEN {"rule_missing_in_config"}
               ELSE UNION {CompareConditions(c, d) : d \in theirs}
           : c \in Range(rule.conditions)}

\* Steps the configuration adds are no concern of the order.
CompareSteps(rule, other) ==
    LET got == StepsOf(other)
        shared(steps, with) == Kept(steps, Range(with))
    IN  {k \in {"rule_missing_in_config", "waterfall_order_mismatch"} :
            IF k = "rule_missing_in_config"
            THEN ~ Range(rule.steps) \subseteq Range(got)
            ELSE shared(rule.steps, got) # shared(got, rule.steps)}

CompareWith(rule, other) ==
    CASE rule.type = "set"         -> CompareSets(rule, other)
      [] rule.type = "criteria"    -> CompareCriteria(rule, other)
      [] rule.type = "waterfall"   -> CompareSteps(rule, other)

Compare(rule, other) ==
    IF other = NoElement THEN {"rule_missing_in_config"} ELSE CompareWith(rule, other)

(***************************************************************************)
(* The checks a requirement implies, and what the reports answer.          *)
(***************************************************************************)
\* A rejection turned into what the accepted records must show.
InverseOperators == {"<", "<=", ">", ">=", "=", "!=", "in", "not_in"}
\* Faulty variant: the boundary itself stays on the side it was on.
MirroredOperator ==
    [o \in InverseOperators |->
        CASE o = "<" -> ">" [] o = "<=" -> ">=" [] o = ">" -> "<" [] o = ">=" -> "<="
          [] o = "=" -> "!=" [] o = "!=" -> "=" [] o = "in" -> "not_in"
          [] o = "not_in" -> "in"]

INVERSE_OPERATOR ==
    [o \in InverseOperators |->
        CASE o = "<" -> ">=" [] o = "<=" -> ">" [] o = ">" -> "<=" [] o = ">=" -> "<"
          [] o = "=" -> "!=" [] o = "!=" -> "=" [] o = "in" -> "not_in"
          [] o = "not_in" -> "in"]

\* The operator that must hold for what is delivered; none where a rejection has no inverse.
Expected(rule, c) ==
    IF rule.action # "reject" THEN {c.operator}
    ELSE IF c.operator \in InverseOperators THEN {INVERSE_OPERATOR[c.operator]} ELSE {}

ChecksFromInterval(interval, field) ==
    {[kind |-> IF interval.lowerIn THEN "min_at_least" ELSE "min_greater_than",
      field |-> field, value |-> b] : b \in interval.lower}
    \cup {[kind |-> IF interval.upperIn THEN "max_at_most" ELSE "max_less_than",
           field |-> field, value |-> b] : b \in interval.upper}

CriteriaChecks(rule) ==
    IF rule.logic = "OR" /\ Len(rule.conditions) > 1 THEN {}
    ELSE UNION {UNION {ChecksFromInterval(IntervalOf(o, c.value), c.field)
                         : o \in {e \in Expected(rule, c) : HasInterval(e, c.value)}}
                : c \in Range(rule.conditions)}

SetChecks(rule) ==
    {[kind |-> IF rule.mode = "exclude" THEN "value_set_excludes" ELSE "value_set_subset",
      values |-> rule.values]}

\* The smallest or the largest delivered value against the bound; no record, no answer.
CheckBound(check, delivery) ==
    LET seen == {record[Resolve(check.field)] : record \in delivery}
        least == CHOOSE v \in seen : \A u \in seen : v <= u
        most == CHOOSE v \in seen : \A u \in seen : v >= u
    IN  IF seen = {} THEN "could_not_evaluate"
        ELSE IF CASE check.kind = "min_at_least"     -> least >= check.value
                  [] check.kind = "min_greater_than" -> least > check.value
                  [] check.kind = "max_at_most"      -> most <= check.value
                  [] check.kind = "max_less_than"    -> most < check.value
             THEN "passed" ELSE "failed"

CheckValueSet(check, present) ==
    IF IF check.kind = "value_set_excludes" THEN present \cap check.values = {}
                                            ELSE present \subseteq check.values
    THEN "passed" ELSE "failed"

(***************************************************************************)
(* What rules mean, record by record: the reference.                       *)
(***************************************************************************)
Holds(c, v) ==
    CASE c.operator = "<"        -> v < ParseNumber(c.value[1])
      [] c.operator = "<="       -> v <= ParseNumber(c.value[1])
      [] c.operator = ">"        -> v > ParseNumber(c.value[1])
      [] c.operator = ">="       -> v >= ParseNumber(c.value[1])
      [] c.operator = "="        -> v = ParseNumber(c.value[1])
      [] c.operator = "!="       -> v # ParseNumber(c.value[1])
      [] c.operator = "in"       -> v \in Range(c.value)
      [] c.operator = "not_in"   -> v \notin Range(c.value)
      [] c.operator = "between"  -> ParseNumber(c.value[1]) <= v /\ v <= ParseNumber(c.value[2])
      [] c.operator = "is_null"  -> FALSE
      [] c.operator = "not_null" -> TRUE

Accepted(c) == {v \in Values : Holds(c, v)}

Records == [{Resolve(a) : a \in Attributes} -> Values]

Matches(rule, record) ==
    LET holds == {c \in Range(rule.conditions) : Holds(c, record[Resolve(c.field)])}
    IN  IF rule.logic = "AND" THEN holds = Range(rule.conditions) ELSE holds # {}

Obeys(rule, record) == Matches(rule, record) <=> rule.action = "accept"

\* The least and the greatest of one attribute are those of two records.
Deliveries == {{}} \cup {{a, b} : a \in Records, b \in Records}

Allowed(rule) == IF rule.mode = "include" THEN rule.values ELSE Members \ rule.values

(***************************************************************************)
(* A derived check that fails names a record that breaks the requirement,  *)
(* and where every condition has become a check, checks that pass leave no *)
(* record that breaks it.  Rejections on several conditions at once are    *)
(* left out: there the code's check accuses deliveries that are right.     *)
(* Hazard: a boundary lost, or moved, where a rejection is turned round.   *)
(***************************************************************************)
EveryConditionIsChecked(rule) ==
    /\ rule.logic = "AND" \/ Len(rule.conditions) = 1
    /\ \A c \in Range(rule.conditions) : \E o \in Expected(rule, c) : HasInterval(o, c.value)

JudgesRecords(rule) ==
    rule.action = "accept" \/ (rule.action = "reject" /\ Len(rule.conditions) = 1)

ChecksJudgeTheRecords ==
    /\ asked.type = "criteria" /\ element = NoElement /\ JudgesRecords(asked) =>
          \A delivery \in Deliveries :
              LET answers == {CheckBound(k, delivery) : k \in CriteriaChecks(asked)}
                  obeyed == \A record \in delivery : Obeys(asked, record)
              IN  /\ "failed" \in answers => ~ obeyed
                  /\ EveryConditionIsChecked(asked) /\ answers \subseteq {"passed"} => obeyed
    /\ asked.type = "set" =>
          \A present \in SUBSET Members :
              \A k \in SetChecks(asked) :
                  CheckValueSet(k, present) = "passed" <=> present \subseteq Allowed(asked)

(***************************************************************************)
(* Stage 5 has nothing to say about a pair exactly when the configuration  *)
(* keeps what the requirement keeps: the same sets, for each condition the *)
(* same values of its attribute, the steps in the required order.  For     *)
(* conditions that are ranges, none of which is empty, and, as the         *)
(* comparison goes by attribute, one condition for each; for steps that do *)
(* not repeat.                                                             *)
(* Hazard: a pair that differs only at a boundary, or only in one bound,   *)
(* or in what one side has and the other has not.                          *)
(***************************************************************************)
OnePerAttribute(rule) ==
    \A c, d \in Range(rule.conditions) : Resolve(c.field) = Resolve(d.field) => c = d

IsRange(c) ==
    /\ HasInterval(c.operator, c.value) /\ Accepted(c) # {}
    /\ \A i \in DOMAIN c.value : ParseNumber(c.value[i]) \in Bounds

Comparable(rule) ==
    /\ rule.type = "criteria" =>
           OnePerAttribute(rule) /\ \A c \in Range(rule.conditions) : IsRange(c)
    /\ rule.type = "waterfall" => IsInjective(rule.steps)

\* One attribute under two names the table does not link, one condition a side.
MeansTheSameAttribute(rule, other, c, d) ==
    \/ Resolve(c.field) = Resolve(d.field)
    \/ /\ Len(rule.conditions) = 1 /\ Len(other.conditions) = 1
       /\ ~ Knows(c.field)

KeepsTheSame(rule, other) ==
    CASE rule.type = "set"       -> Allowed(rule) = Allowed(other) /\ rule.mode = other.mode
      [] rule.type = "criteria"  ->
            \A c \in Range(rule.conditions) : \E d \in Range(other.conditions) :
                MeansTheSameAttribute(rule, other, c, d) /\ Accepted(c) = Accepted(d)
      [] rule.type = "waterfall" ->
            \E f \in [DOMAIN rule.steps -> DOMAIN other.steps] :
                /\ \A i \in DOMAIN rule.steps : rule.steps[i] = other.steps[f[i]]
                /\ \A i, j \in DOMAIN rule.steps : i < j => f[i] < f[j]

FindingsAreDifferences ==
    element # NoElement /\ asked.type = element.type /\ Comparable(asked) /\ Comparable(element)
        => (Compare(asked, element) = {} <=> KeepsTheSame(asked, element))
====
