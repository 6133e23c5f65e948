---- MODULE Evidence ----
(***************************************************************************)
(* Stage 7 over one delivery: which attributes the order asks for are in   *)
(* the reports, by which name, who said so, and what that leaves for a     *)
(* person to look at before the run can be frozen.  The dictionary is      *)
(* loaded when the run starts and edited while it runs.                    *)
(***************************************************************************)
EXTENDS Dictionary

CONSTANTS
    Resembles,   \* pairs: the second name has enough of the first to be worth naming
    SameWords,   \* pairs: the second has the words of the first
    MaxNear,     \* how many resembling names are looked at
    MaxCalls,    \* how often a run may ask for a column
    MaxRuns,     \* how many runs there are
    Deliveries,
    Forms,       \* what the term editor sends: [canonical, spellings]
    NewAliases,  \* the aliases administrators add
    Catalogue,   \* product code -> the attributes it stands for
    NoName,
    NoDelivery

VARIABLES
    stage,       \* "idle", "checks", "late", "done"
    delivery,
    loaded,      \* the run's dictionary
    legacy,      \* the run's alias table
    todo,        \* names still to be looked up, in order
    heard,       \* what each look-up came to
    calls, capped, reasoned,
    findings,
    offers,      \* what runs propose to record
    runs

runVars == <<stage, delivery, loaded, legacy, todo, heard, calls, capped, reasoned, findings>>
evidenceVars == <<dictionaryVars, runVars, offers, runs>>

----------------------------------------------------------------------------
(* What is looked for.  A requirement has an id, a type, names, codes, and  *)
(* says whether a configured element implements it.  A delivery has the     *)
(* names in its DIRT and in its record layout (none: no such artifact), its *)
(* requirements, the columns whose numbers break the bounds asked for or    *)
(* are blank, and the headings code does not find.  "Min" stands for both   *)
(* bounds' columns.                                                         *)

Heading(h) == [kind |-> "column", wanted |-> h, artifact |-> ""]
Attribute(n, a) == [kind |-> "attribute", wanted |-> n, artifact |-> a]

\* A code lists a shared attribute once; an unknown code lists nothing.
Expanded(r) ==
    r.names \cup UNION {Catalogue[c] : c \in r.codes \cap DOMAIN Catalogue}
\* Mutant of UnknownCodes: a code nobody defined expands to nothing.
NoCodeIsUnknown(r) == {}
UnknownCodes(r) == r.codes \ DOMAIN Catalogue

\* What a requirement for attributes asks of a delivery: nothing of codes nobody knows.
AttributeChecks(r) ==
    (IF r.codes = {} \/ Expanded(r) # {}
     THEN {[kind |-> "fields_present", names |-> Expanded(r)]} ELSE {})
    \cup {[kind |-> "unknown_product_code", names |-> {c}] : c \in UnknownCodes(r)}

\* derive_checks, for the requirements that look names up, and free text.
Checks(r) ==
    CASE r.type = "attributes" -> AttributeChecks(r)
      [] r.type = "criteria" -> {[kind |-> "bound", names |-> {n}] : n \in r.names}
      [] r.type = "other" -> {}

Rules(d) == ToSet(d.rules)

\* A delivery is in order, and only a requirement for attributes names codes.
ASSUME DeliveriesAssumption ==
    /\ MaxNear \in Nat
    /\ \A d \in Deliveries :
           /\ IsSeq(d.dirt) /\ IsSeq(d.layout) /\ IsSeq(d.rules)
           /\ \A r \in Rules(d) :
                  /\ r.type \in {"attributes", "criteria", "other"}
                  /\ r.type = "criteria" => r.codes = {}
                  /\ r.names \subseteq Name

\* So are the catalogue and what the term editor sends.
ASSUME EditorAssumption ==
    /\ \A c \in DOMAIN Catalogue : Catalogue[c] \subseteq Name
    /\ \A form \in Forms : form.canonical \in Name /\ form.spellings \in Seq(Spelling)
    /\ NoName \notin Name

AllChecks(d) == UNION {{<<r, c>> : c \in Checks(r)} : r \in Rules(d)}

\* The names a requirement's checks look up: the headings of the attribute sheet first.
LooksOf(d, r) ==
    LET checks == {c \in Checks(r) : c.kind # "unknown_product_code"}
        names == Kept(Order, UNION {c.names : c \in checks})
        both(n) == IF d.layout = <<>> \/ r.type = "criteria"
                   THEN <<Attribute(n, "dirt")>>
                   ELSE <<Attribute(n, "dirt"), Attribute(n, "record_layout")>>
    IN  IF checks = {} THEN <<>>
        ELSE (IF d.dirt = <<>> THEN <<>> ELSE <<Heading("Attribute"), Heading("Min")>>)
             \o FlattenSeq([i \in DOMAIN names |-> both(names[i])])

\* A list without what it repeats.
Once(s) ==
    LET first == {i \in DOMAIN s : \A j \in DOMAIN s : j < i => s[j] # s[i]}
        places == Kept([i \in DOMAIN s |-> i], first)
    IN  [n \in DOMAIN places |-> s[places[n]]]

\* In the order of the requirements, a name in an artifact once: the resolver
\* keeps what it came to.
EarlyLooks ==
    [d \in Deliveries |->
        Once(FlattenSeq([i \in DOMAIN d.rules |-> LooksOf(d, d.rules[i])]))]

\* The profile's columns and the waterfall's are read after the findings are written.
LateLooks ==
    LET fresh(l) == IF l \in DOMAIN heard THEN <<>> ELSE <<l>>
    IN  (IF delivery.dirt = <<>> THEN <<>>
         ELSE fresh(Heading("Attribute")) \o fresh(Heading("Mean"))) \o fresh(Heading("Step"))

----------------------------------------------------------------------------
(* The ladder *)

Only(names) == IF Cardinality(ToSet(names)) = 1 THEN names[1] ELSE NoName

\* Rungs 1 to 4: the name, the same words, a spelling somebody wrote down.
Climb(wanted, candidates, alternates) ==
    LET sameWords == Kept(candidates, {c \in Name : <<wanted, c>> \in SameWords})
        spelled == SelectInSeq(alternates, LAMBDA a : Contains(candidates, a))
    IN  IF Contains(candidates, wanted) THEN wanted
        ELSE IF Only(sameWords) # NoName THEN Only(sameWords)
        ELSE IF spelled # 0 THEN alternates[spelled] ELSE NoName

Near(wanted, candidates) ==
    LET close == Kept(candidates, {c \in Name : <<wanted, c>> \in Resembles})
    IN  SubSeq(close, 1, IF Len(close) < MaxNear THEN Len(close) ELSE MaxNear)

\* The alias table first, on both sides; then the ladder over all the names; then,
\* with the dictionary, over those that resemble the one wanted.
InCode(wanted, candidates, table, dictionary, artifact) ==
    LET aliased == Kept(candidates, {c \in Name : table[c] = table[wanted]})
        climbed == Climb(wanted, candidates, <<>>)
    IN  IF aliased # <<>> THEN aliased[1]
        ELSE IF climbed # NoName THEN climbed
        ELSE Climb(wanted, Near(wanted, candidates), Alternates(dictionary, wanted, artifact))

\* The DIRT's rows, by canonical name: the last row takes the first one's place.
StatNames(d, table) ==
    LET same(i) == {k \in DOMAIN d.dirt : table[d.dirt[k]] = table[d.dirt[i]]}
    IN  FlattenSeq([i \in DOMAIN d.dirt |->
                       IF i = Min(same(i)) THEN <<d.dirt[Max(same(i))]>> ELSE <<>>])

NamesOfArtifact(d, table, artifact) ==
    IF artifact = "dirt" THEN StatNames(d, table) ELSE d.layout

----------------------------------------------------------------------------
(* A run *)

Match(found, near, by) == [found |-> found, near |-> near, by |-> by]
Unread == Match(NoName, <<>>, "unread")

EvidenceInit ==
    /\ DictionaryInit
    /\ stage = "idle" /\ delivery = NoDelivery
    /\ loaded = <<>> /\ legacy = <<>>
    /\ todo = <<>> /\ heard = <<>>
    /\ calls = 0 /\ capped = {} /\ reasoned = {}
    /\ findings = {} /\ offers = {} /\ runs = 0

Finding(type, rule, about) == [type |-> type, rule |-> rule, about |-> about]
NoCheck == [kind |-> "requirement", names |-> {}]
Untraced(d) == {r \in Rules(d) : ~r.traced}

\* Everything the run uses of the tables is read here; stage 5 has spoken before.
StartRun(d) ==
    /\ stage = "idle"
    /\ runs < MaxRuns /\ runs' = runs + 1
    /\ stage' = "checks" /\ delivery' = d
    /\ loaded' = LoadedDictionary /\ legacy' = LoadedAliases
    /\ todo' = EarlyLooks[d]
    /\ findings' = {Finding("rule_missing_in_config", r.id, NoCheck) : r \in Untraced(d)}
    /\ UNCHANGED <<dictionaryVars, heard, calls, capped, reasoned, offers>>

Found(look) == look \in DOMAIN heard /\ heard[look].found # NoName
SheetRead == delivery.dirt # <<>> /\ Found(Heading("Attribute"))

Heard(match) ==
    /\ heard' = [l \in DOMAIN heard \cup {Head(todo)} |->
                    IF l = Head(todo) THEN match ELSE heard[l]]
    /\ todo' = Tail(todo)
    /\ UNCHANGED <<dictionaryVars, stage, delivery, loaded, legacy, findings, offers, runs>>

Reading(look, name) == [look |-> look, found |-> name]

\* A heading: found in code, or the model is shown the headings there are.
LookUpHeading ==
    /\ todo # <<>> /\ Head(todo).kind = "column"
    /\ Head(todo) \in {Heading("Min"), Heading("Mean")} => SheetRead
    /\ LET h == Head(todo).wanted
       IN  \/ /\ h \notin delivery.drifted
              /\ Heard(Match(h, <<>>, "code"))
              /\ UNCHANGED reasoned
           \/ /\ h \in delivery.drifted
              /\ Heard(Match(h, <<>>, "model"))
              /\ reasoned' = reasoned \cup {Reading(Head(todo), h)}
           \/ /\ h \in delivery.drifted
              /\ Heard(Match(NoName, <<>>, "model"))
              /\ UNCHANGED reasoned
    /\ UNCHANGED <<calls, capped>>

\* Without the attribute sheet there is nothing to look in.
SkipLookUp ==
    /\ todo # <<>> /\ ~SheetRead
    /\ Head(todo).artifact = "dirt" \/ Head(todo) \in {Heading("Min"), Heading("Mean")}
    /\ Heard(Unread)
    /\ UNCHANGED <<calls, capped, reasoned>>

\* The model is shown what resembles the name and is not known to be another's; what
\* it answers counts only if it was shown.
Answered(wanted, near, said) ==
    /\ said \in ToSet(Shortlist(loaded, wanted, near)) \cup {NoName}
    /\ calls' = calls + 1
    /\ reasoned' = IF said = NoName THEN reasoned
                   ELSE reasoned \cup {Reading(Head(todo), said)}
    /\ Heard(Match(said, near, "model"))
    /\ UNCHANGED capped

AskModel(wanted, near, said) == calls < MaxCalls /\ Answered(wanted, near, said)

LookUpAttribute ==
    /\ todo # <<>> /\ Head(todo).kind = "attribute"
    /\ Head(todo).artifact = "dirt" => SheetRead
    /\ LET wanted == Head(todo).wanted
           candidates == NamesOfArtifact(delivery, legacy, Head(todo).artifact)
           near == Near(wanted, candidates)
           code == InCode(wanted, candidates, legacy, loaded, Head(todo).artifact)
       IN  \/ /\ code # NoName \/ near = <<>>
              /\ Heard(Match(code, near, "code"))
              /\ UNCHANGED <<calls, capped, reasoned>>
           \/ /\ code = NoName /\ near # <<>>
              /\ \E said \in Name \cup {NoName} : AskModel(wanted, near, said)
           \/ /\ code = NoName /\ near # <<>>
              /\ calls >= MaxCalls
              /\ capped' = capped \cup {wanted}
              /\ Heard(Match(NoName, near, "code"))
              /\ UNCHANGED <<calls, reasoned>>

----------------------------------------------------------------------------
(* What the look-ups come to *)

Present(n, a) == Found(Attribute(n, a))
Plausible(n, a) ==
    LET look == Attribute(n, a)
    IN  look \in DOMAIN heard /\ ~Found(look) /\ heard[look].near # <<>>

NoLayout == delivery.layout = <<>>
Delivered(n) ==
    IF SheetRead THEN Present(n, "dirt") /\ (NoLayout \/ Present(n, "record_layout"))
    ELSE Present(n, "record_layout")

\* "Could not tell" beats "is not there", in either artifact.
Unresolved(c) ==
    CASE c.kind = "fields_present" ->
           {n \in c.names : ~Delivered(n) /\ \E a \in Artifact : Plausible(n, a)}
      [] c.kind = "bound" -> {n \in c.names : Plausible(n, "dirt")}
      [] OTHER -> {}

\* What only the DIRT carries is the layout being behind, and fails nothing.
PresenceVerdict(c) ==
    IF ~SheetRead /\ NoLayout THEN "unknown"
    ELSE IF \E n \in c.names \ Unresolved(c) : ~Delivered(n) /\ ~Present(n, "dirt") THEN "failed"
    ELSE IF Unresolved(c) # {} THEN "unknown" ELSE "passed"

BoundVerdict(n) ==
    IF ~Present(n, "dirt") \/ ~Found(Heading("Min")) THEN "unknown"
    ELSE LET column == heard[Attribute(n, "dirt")].found
         IN  IF column \in delivery.blank THEN "unknown"
             ELSE IF column \in delivery.beyond THEN "failed" ELSE "passed"

Verdict(c) ==
    CASE c.kind = "fields_present" -> PresenceVerdict(c)
      [] c.kind = "bound" -> BoundVerdict(CHOOSE n \in c.names : TRUE)
      [] c.kind = "unknown_product_code" -> "failed"

Raised(r, c) ==
    {Finding("attribute_not_resolved", r.id, [c EXCEPT !.names = Unresolved(c)])
        : n \in Unresolved(c)}
    \cup (CASE Verdict(c) = "unknown" -> {Finding("could_not_evaluate", r.id, c)}
             [] Verdict(c) = "failed" -> {Finding("report_violates_rule", r.id, c)}
             [] OTHER -> {})

\* Mutant of Readings: only what was read of the attributes is said.
AttributeReadings ==
    {Finding("layout_reasoned", "", r) : r \in {q \in reasoned : q.look.kind = "attribute"}}
Readings == {Finding("layout_reasoned", "", r) : r \in reasoned}

Report ==
    /\ stage = "checks" /\ todo = <<>>
    /\ findings' = findings \cup Readings
           \cup UNION {Raised(p[1], p[2]) : p \in AllChecks(delivery)}
    /\ stage' = "late" /\ todo' = LateLooks
    /\ UNCHANGED <<dictionaryVars, delivery, loaded, legacy, heard, calls, capped, reasoned,
                   offers, runs>>

\* The names that an attribute_not_resolved of this run lists.
UnresolvedNames ==
    UNION {f.about.names : f \in {g \in findings : g.type = "attribute_not_resolved"}}

\* A record layout with one name that resembles settles it.
FromRecordLayout(names) ==
    {[wanted |-> n, found |-> Near(n, delivery.layout)[1], artifact |-> "dirt"] :
        n \in {m \in names : Len(Near(m, delivery.layout)) = 1}}

\* The model's readings stand as well.
Proposed ==
    FromRecordLayout(UnresolvedNames)
    \cup {[wanted |-> r.look.wanted, found |-> r.found, artifact |-> r.look.artifact] :
              r \in {q \in reasoned : q.look.kind = "attribute"}}

\* The broadest term of a name is the one that says what is recorded.
Recorded(offer) ==
    LET i == SelectLastInSeq(loaded, LAMBDA t : t.canonical = offer.wanted)
    IN  i # 0 /\ offer.found \in Called(loaded[i])

\* The run is saved, with what it proposes to record.
Save ==
    /\ stage = "late" /\ todo = <<>>
    /\ stage' = "done"
    /\ offers' = offers \cup {o \in Proposed : ~Recorded(o)}
    /\ UNCHANGED <<dictionaryVars, delivery, loaded, legacy, todo, heard,
                   calls, capped, reasoned, findings, runs>>

\* What stage 7 tallies of a requirement: verdicts, and checks it could not evaluate.
CheckedRule(r) == \E c \in Checks(r) : Verdict(c) # "unknown"
UnevaluatedRule(r) == \E c \in Checks(r) : Verdict(c) = "unknown"

\* Coverage, settled from the tally.
State(r) ==
    CASE CheckedRule(r) -> "checked"
      [] ~CheckedRule(r) /\ (r.type = "other" \/ UnevaluatedRule(r)) -> "manual"
      [] OTHER -> IF r.traced THEN "traced_unchecked" ELSE "untraced"
Coverage == [r \in Rules(delivery) |-> State(r)]

UNRESOLVED_STATES == {"traced_unchecked", "manual"}

\* What the gate asks a person about: a requirement, or a finding on it.
Asked(r) == Coverage[r] \in UNRESOLVED_STATES \/ \E f \in findings : f.rule = r.id

NextRun ==
    /\ stage = "done"
    /\ stage' = "idle" /\ delivery' = NoDelivery
    /\ loaded' = <<>> /\ legacy' = <<>>
    /\ heard' = <<>>
    /\ calls' = 0 /\ capped' = {} /\ reasoned' = {} /\ findings' = {}
    /\ UNCHANGED <<dictionaryVars, todo, offers, runs>>

----------------------------------------------------------------------------
(* People, meanwhile *)

Console ==
    /\ \/ \E k \in Forms, active \in BOOLEAN, scope \in Scopes :
              SaveTerm(k.canonical, scope, k.spellings, active)
       \/ \E k \in Stored : DeleteTerm(k)
       \/ \E o \in offers, scope \in Scopes : \E a \in {"", o.artifact} :
              AcceptSuggestion(o.wanted, o.found, a, scope)
       \/ \E p \in Proposals :
              Propose(p) \/ ApproveMapping(p) \/ RejectMapping(p) \/ WithdrawMapping(p)
       \/ \E row \in NewAliases : CreateAlias(row)
       \/ \E i \in DOMAIN alias : DeleteAlias(i)
       \/ CopyAliases
    /\ UNCHANGED <<runVars, offers, runs>>

EvidenceNext ==
    \/ \E d \in Deliveries : StartRun(d)
    \/ LookUpHeading \/ SkipLookUp \/ LookUpAttribute
    \/ Report \/ Save \/ NextRun
    \/ Console

EvidenceSpec == EvidenceInit /\ [][EvidenceNext]_evidenceVars

----------------------------------------------------------------------------
(* What should hold *)

Looks == [d \in Deliveries |-> ToSet(EarlyLooks[d])]

\* The state's types: what was looked up is of this delivery, in order, and the cap on
\* the model's calls is never passed.
NamesTypeOK ==
    /\ DictionaryTypeOK
    /\ stage \in {"idle", "checks", "late", "done"}
    /\ delivery \in Deliveries \cup {NoDelivery}
    /\ stage = "idle" <=> delivery = NoDelivery
    /\ calls \in 0..MaxCalls /\ capped \subseteq Name
    /\ ToSet(todo) \cap DOMAIN heard = {}
    /\ stage = "checks" => ToSet(todo) \cup DOMAIN heard = Looks[delivery]
    /\ \A o \in offers : o.wanted \in Name /\ o.found \in Name /\ o.artifact \in Artifact

\* Whatever a check read because the model said so is put before a person, next to what
\* the check came to: every reading stage 7's checks rest on has its layout_reasoned.
ReadingsAreReported ==
    stage \in {"late", "done"} =>
        \A l \in Looks[delivery] :
            heard[l].by = "model" /\ heard[l].found # NoName =>
                Finding("layout_reasoned", "", Reading(l, heard[l].found)) \in findings

\* A requirement about which the gate asks nobody anything was compared: a check of it
\* ran, its codes are known, and everything it asks for was found in an artifact of
\* this delivery, by a name that artifact carries.
NothingGoesUnread ==
    stage = "done" =>
        \A r \in Rules(delivery) :
            ~Asked(r) =>
                /\ r.type # "other" /\ Checks(r) # {}
                /\ r.codes \subseteq DOMAIN Catalogue
                /\ \A n \in Expanded(r) : \E a \in Artifact :
                       /\ Present(n, a)
                       /\ Contains(NamesOfArtifact(delivery, legacy, a), heard[Attribute(n, a)].found)

\* From here a run finds a name for `wanted` in code, wherever its delivery has `found`
\* near enough.
ReadInCode(wanted, found, artifact) ==
    \A table \in {LoadedAliases'}, dictionary \in {LoadedDictionary'} :
    \A d \in Deliveries, a \in IF artifact = "" THEN Artifact ELSE {artifact} :
        LET names == NamesOfArtifact(d, table, a)
        IN  Contains(Near(wanted, names), found)
                => InCode(wanted, names, table, dictionary, a) # NoName

\* No term in force that a run meets first claims the name.
FirstToClaim(k) ==
    \A l \in Stored \ {k} :
        term[l].active /\ Covers(l[2]) /\ k[1] \in Claims(l) => Narrower(k, l)

\* Accepting a suggestion, into a term that is in force and that no narrower one
\* hides, makes every later run read the name in code: the model is not asked again.
AcceptedIsRead ==
    [][\A o \in offers, scope \in Scopes : \A a \in {"", o.artifact} :
           LET k == <<o.wanted, scope>>
           IN  /\ AcceptSuggestion(o.wanted, o.found, a, scope)
               /\ term[k] = NoTerm \/ term[k].active
               /\ Covers(scope) /\ FirstToClaim(k)
               => ReadInCode(o.wanted, o.found, a)]_evidenceVars

\* docs/glossary.md: one name means one attribute, so a spelling another term already
\* claims is refused.
OneNameOneAttribute ==
    \A k, l \in Stored :
        k[1] # l[1] /\ term[k].active /\ term[l].active => Claims(k) \cap Claims(l) = {}

\* api/routers/admin.py, of accepting: from here the fourth rung resolves this name in
\* code and the model is not asked again.
AcceptedIsHeeded ==
    [][\A o \in offers :
           AcceptSuggestion(o.wanted, o.found, "", "everywhere")
               => ReadInCode(o.wanted, o.found, "")]_evidenceVars

\* docs/model-context.md: a spelling recorded in the dictionary resolves the name in
\* code; so no check of a run that loaded it leaves the name unfound.
RecordedIsNotMissing ==
    stage = "done" =>
        \A l \in Looks[delivery] :
            l.kind = "attribute" /\ heard[l].found = NoName /\ heard[l].by # "unread" =>
                ToSet(Alternates(loaded, l.wanted, l.artifact))
                    \cap ToSet(NamesOfArtifact(delivery, legacy, l.artifact)) = {}

\* docs/decisions.md: what the fifth rung resolves produces a layout_reasoned finding.
EveryReadingIsReported ==
    stage = "done" =>
        \A r \in reasoned : Finding("layout_reasoned", "", r) \in findings
====
