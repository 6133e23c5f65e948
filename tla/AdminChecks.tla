---------------------------- MODULE AdminChecks ----------------------------
(***************************************************************************)
(* What administrators write for code to check, as functions: expressions  *)
(* over named values (checks/expressions.py), constraints on a column      *)
(* (checks/field_constraints.py), controls a configuration must have       *)
(* (checks/compliance_match.py), the words of a programme                  *)
(* (checks/programme_match.py) and whom a rule applies to                  *)
(* (checks/definitions.py).                                                *)
(***************************************************************************)
EXTENDS Integers, FiniteSets, Subsequences

CONSTANTS
    Layers,     \* expressions: a layer is made of expressions of the layers before it
    Within,     \* pairs: the first path's letters occur in a row in the second's
    Apart,      \* how many words may lie between the words of a keyword
    Unbounded,  \* no bound on one side of a range
    Unusable    \* a fill rate or a pattern nobody can read

----------------------------------------------------------------------------
(* Whom a rule applies to.  A run has a customer, a programme and a          *)
(* configuration; a scope is a kind and a name.                              *)

Everywhere == [kind |-> "everywhere", name |-> ""]

\* Scope.covers, told the customer, the programme and the configuration.
ScopeCovers(scope, customer, programme, configuration) ==
    \/ scope.kind = "everywhere"
    \/ scope.name # "" /\ scope.name = CASE scope.kind = "programme" -> programme
                                         [] scope.kind = "configuration" -> configuration
                                         [] scope.kind = "customer" -> customer

Runs(rule) == rule.state \in {"active", "shadow"}

\* CheckDefinition.applies_to and ComplianceRule.applies_to are told no configuration.
AppliesTo(rule, run) == Runs(rule) /\ ScopeCovers(rule.scope, run.customer, run.programme, "")

\* The constraints a run is given.
ConstraintApplies(rule, run) ==
    Runs(rule) /\ ScopeCovers(rule.scope, run.customer, run.programme, run.configuration)

----------------------------------------------------------------------------
(* Expressions: a tree of constants, names, arithmetic, comparisons in a     *)
(* chain, connectives and functions.  What a part comes to is a value or     *)
(* why there is none; "raises" is an exception nobody expects.               *)

Value(is, v) == [is |-> is, v |-> v]
NoValue == Value("unresolved", 0)
Invalid == Value("invalid", 0)
Raises == Value("raises", 0)
Failed(x) == x.is \in {"unresolved", "invalid", "raises"}

Truth(b) == Value("truth", IF b THEN 1 ELSE 0)
IsNumber(x) == x.is \in {"number", "truth"}

\* bool() of a value.
Truthy(x) == x.v # 0

\* _as_number, of what an operand came to.
AsNumber(x) == IF Failed(x) \/ x.is = "number" THEN x ELSE Invalid

\* The first part that failed, in the order of evaluation; else what `otherwise` says.
FirstFailure(parts, otherwise) ==
    LET bad == {i \in DOMAIN parts : Failed(parts[i])}
    IN  IF bad = {} THEN otherwise ELSE parts[CHOOSE i \in bad : \A k \in bad : i <= k]

Arithmetic(op, n) ==
    CASE op = "+" -> Value("number", n[1].v + n[2].v)
      [] op = "-" -> Value("number", n[1].v - n[2].v)
      [] op = "//" -> IF n[2].v = 0 THEN Invalid ELSE Value("number", n[1].v \div n[2].v)
      [] op = "neg" -> Value("number", -n[1].v)

\* One comparison.  Values of different kinds are unequal and have no order.
CompareTwo(op, a, b) ==
    LET alike == IsNumber(a) = IsNumber(b)
    IN  CASE op = "==" -> Truth(alike /\ a.v = b.v)
          [] op = "!=" -> Truth(~(alike /\ a.v = b.v))
          [] op = "<" -> IF alike THEN Truth(a.v < b.v) ELSE Invalid
          [] op = "<=" -> IF alike THEN Truth(a.v <= b.v) ELSE Invalid

\* abs and min, as Python has them: a text is an exception, and so is one argument too few.
Apply(op, args) ==
    CASE op = "abs" ->
           IF Len(args) = 1 /\ IsNumber(args[1])
           THEN Value("number", IF args[1].v < 0 THEN -args[1].v ELSE args[1].v) ELSE Raises
      [] op = "min" ->
           IF Len(args) = 2 /\ IsNumber(args[1]) = IsNumber(args[2])
           THEN (IF args[2].v < args[1].v THEN args[2] ELSE args[1]) ELSE Raises

\* Mutant of Named: a value that was not found counts as nothing.
Known(name, values) == name \in DOMAIN values /\ values[name] # NoValue
NamedOrZero(name, values) == IF Known(name, values) THEN values[name] ELSE Value("number", 0)
Named(name, values) == IF Known(name, values) THEN values[name] ELSE NoValue

Expressions == UNION {Layers[n] : n \in DOMAIN Layers}

\* A tree: no expression is a part of itself.
ASSUME LayersAssumption ==
    /\ IsSeq(Layers)
    /\ \A e \in Expressions : IsSeq(e.args)
    /\ \A n \in DOMAIN Layers : \A e \in Layers[n] : \A i \in DOMAIN e.args :
           \E m \in 1 .. n - 1 : e.args[i] \in Layers[m]
    /\ \A e \in Expressions :
           /\ e.op \in {"constant", "name", "+", "-", "//", "neg", "compare", "and", "or",
                        "abs", "min", "not"}
           /\ e.op = "compare" => IsSeq(e.ops) /\ Len(e.args) = Len(e.ops) + 1

\* What an expression comes to, told what its parts come to.
Came(e, parts, values) ==
    LET \* A chain ends at the first comparison that does not hold.
        link(i) == FirstFailure(<<parts[i], parts[i + 1]>>,
                                CompareTwo(e.ops[i], parts[i], parts[i + 1]))
        ends == {i \in DOMAIN e.ops : link(i) # Truth(TRUE)}
    IN  CASE e.op = "constant" -> e.value
          [] e.op = "name" -> Named(e.name, values)
          [] e.op \in {"+", "-", "//", "neg"} ->
               LET numbers == [i \in DOMAIN parts |-> AsNumber(parts[i])]
               IN  FirstFailure(numbers, Arithmetic(e.op, numbers))
          [] e.op = "compare" ->
               IF ends = {} THEN Truth(TRUE)
               ELSE link(CHOOSE i \in ends : \A k \in ends : i <= k)
          [] e.op = "and" -> FirstFailure(parts, Truth(\A i \in DOMAIN parts : Truthy(parts[i])))
          [] e.op = "or" -> FirstFailure(parts, Truth(\E i \in DOMAIN parts : Truthy(parts[i])))
          [] e.op \in {"abs", "min"} -> FirstFailure(parts, Apply(e.op, parts))
          [] e.op = "not" -> Invalid

Eval(e, values) ==
    LET eval[x \in Expressions] ==
            Came(x, [i \in DOMAIN x.args |-> eval[x.args[i]]], values)
    IN  eval[e]

\* "passed", "failed", "unresolved", "invalid", "raises".
EvaluateCheck(expression, values) ==
    LET x == Eval(expression, values)
    IN  IF Failed(x) THEN x.is ELSE IF Truthy(x) THEN "passed" ELSE "failed"

ReferencedNames(e) ==
    LET names[x \in Expressions] ==
            IF x.op = "name" THEN {x.name}
            ELSE UNION {names[x.args[i]] : i \in DOMAIN x.args}
    IN  names[e]

----------------------------------------------------------------------------
(* Constraints on a column.  A cell is blank, a number or a text.            *)

Blank == Value("blank", 0)
InRange(cell, low, high) ==
    /\ cell.is = "number"
    /\ low # Unbounded => low <= cell.v
    /\ high # Unbounded => cell.v <= high

\* _check_values: what one column says of one constraint.  A format is the texts that
\* have it.
CheckValues(spec, cells) ==
    LET present == ToSet(cells) \ {Blank}
        filled == Cardinality({i \in DOMAIN cells : cells[i] # Blank})
        verdict(holds) == IF holds THEN "passed" ELSE "failed"
    IN  IF cells = <<>> \/ spec.value = Unusable THEN "unread"
        ELSE
        CASE spec.constraint = "not_blank" -> verdict(filled = Len(cells))
          [] spec.constraint = "fill_rate_min" -> verdict(filled * 100 >= spec.value * Len(cells))
          [] spec.constraint = "allowed_values" ->
               IF spec.value = {} THEN "unread" ELSE verdict(present \subseteq spec.value)
          [] spec.constraint = "forbidden_values" -> verdict(present \cap spec.value = {})
          [] spec.constraint = "range" ->
               verdict(\A c \in present : InRange(c, spec.value[1], spec.value[2]))
          [] spec.constraint = "format" -> verdict(present \subseteq spec.value)

\* The columns a field has, sheet by sheet, in the reports the constraint names.
ColumnsOf(spec, reports) ==
    FlattenSeq([i \in DOMAIN reports |->
        IF spec.kinds # {} /\ reports[i].kind \notin spec.kinds THEN <<>>
        ELSE LET carrying == Kept(reports[i].sheets,
                                  {s \in ToSet(reports[i].sheets) : spec.field \in DOMAIN s})
             IN  [k \in DOMAIN carrying |-> carrying[k][spec.field]]])

\* evaluate: a verdict for every column, and one that says there is none.
ConstraintVerdicts(spec, reports) ==
    LET columns == ColumnsOf(spec, reports)
    IN  IF columns = <<>> THEN <<"unread">>
        ELSE [i \in DOMAIN columns |-> CheckValues(spec, columns[i])]

----------------------------------------------------------------------------
(* Controls.  A path is a sequence of segments; a block of the configuration *)
(* is a path and what is there: a value, or a structure and its keys.        *)

\* _covers: the wanted segments occur in this order.
InOrder(wanted, actual) ==
    wanted # <<>> /\ \E at \in [DOMAIN wanted -> DOMAIN actual] :
        \A i \in DOMAIN wanted :
            actual[at[i]] = wanted[i] /\ \A k \in 1 .. i - 1 : at[k] < at[i]

\* matches: the blocks that implement a control, under any path that counts for it.
Implementing(rule, blocks) ==
    {b \in blocks : \E wanted \in ({rule.path} \cup rule.alternates) \ {<<>>} :
        \/ <<wanted, b.path>> \in Within
        \/ InOrder(wanted, b.path)
        \/ Last(wanted) \in b.keys /\ InOrder(Front(wanted), b.path)}

\* _same_value: a rule that expects nothing in particular expects the control to be there.
SameValue(actual, expected) ==
    \/ expected = NoValue
    \/ (actual.is = "truth") = (expected.is = "truth") /\ actual.v = expected.v

\* "absent"; "different" when every value there is differs; else "present".
ControlState(rule, blocks) ==
    LET found == Implementing(rule, blocks)
        scalars == {b \in found : b.content.is # "structure"}
    IN  IF found = {} THEN "absent"
        ELSE IF scalars # {} /\ \A b \in scalars : ~SameValue(b.content, rule.expected)
             THEN "different" ELSE "present"

----------------------------------------------------------------------------
(* The words of a programme: a keyword is a sequence of words, with plurals  *)
(* and hyphens folded away.                                                  *)

WordAt(word, text) == {i \in DOMAIN text : text[i] = word}

\* found: the words in a row, or all of them near one place where the first stands.
FoundWords(keyword, text) ==
    \/ keyword # <<>> /\ \E i \in 0 .. Len(text) - Len(keyword) :
           SubSeq(text, i + 1, i + Len(keyword)) = keyword
    \/ Len(keyword) >= 2 /\ \E i \in WordAt(keyword[1], text) :
           \A w \in ToSet(Tail(keyword)) :
               \E k \in WordAt(w, text) : k - i \in -Apart .. Apart

\* hits
Hits(words, text) == {keyword \in words : FoundWords(keyword, text)}

\* discriminating: the keywords no other programme has.
Discriminating(code, keywords) ==
    keywords[code] \ UNION {keywords[other] : other \in DOMAIN keywords \ {code}}
=============================================================================
