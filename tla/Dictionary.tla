---- MODULE Dictionary ----
(***************************************************************************)
(* What the tool has been told about a customer's names: the attribute     *)
(* dictionary, the legacy alias table, and the mappings reviewers propose. *)
(* A name stands for everything the ladder's second rung takes for it      *)
(* (case, separators).  One run's customer, programme and configuration    *)
(* are looked from, so a scope is one of theirs or "elsewhere".            *)
(***************************************************************************)
EXTENDS Naturals, Sequences, FiniteSets, Subsequences

CONSTANTS
    Order,      \* every name, as the database sorts them
    Scopes,     \* the scopes administrators give
    Proposals,  \* what observations may map: [attribute, name, artifact, scope]
    Seeds,      \* alias tables deployments start with
    MaxEdits,   \* how often the tables are edited
    NoTerm

VARIABLES
    term,       \* attribute_terms and their spellings, by canonical name and scope
    alias,      \* attribute_aliases, in the order of their ids
    mapping,    \* the observations that map: what and how far
    edits

tables == <<term, alias, mapping>>
dictionaryVars == <<term, alias, mapping, edits>>

Name == ToSet(Order)
Artifact == {"dirt", "record_layout"}
Spelling == [name : Name, artifact : Artifact \cup {""}]
Entry == [active : BOOLEAN, spellings : Seq(Spelling)]
Proposal == [attribute : Name, name : Name, artifact : Artifact \cup {""}, scope : Scopes]
Alias == [canonical : Name, name : Name, whose : {"everybody", "customer", "another"}]

\* The database sorts a name at one place, and has rows only of what is named here.
ASSUME NamesAssumption ==
    /\ IsSeq(Order) /\ \A i, j \in DOMAIN Order : Order[i] = Order[j] => i = j
    /\ Proposals \subseteq Proposal
    /\ NoTerm \notin Entry

MappingStatus == {"none", "new", "synthesized", "rejected", "withdrawn"}

DictionaryTypeOK ==
    /\ term \in [Name \X Scopes -> Entry \cup {NoTerm}]
    /\ alias \in Seq(Alias)
    /\ mapping \in [Proposals -> MappingStatus]
    /\ edits \in 0..MaxEdits

DictionaryInit ==
    /\ term = [k \in Name \X Scopes |-> NoTerm]
    /\ alias \in Seeds
    /\ mapping = [p \in Proposals |-> "none"]
    /\ edits = 0

----------------------------------------------------------------------------
(* What a run loads *)

Position(n) == CHOOSE i \in DOMAIN Order : Order[i] = n
Rank == [configuration |-> 0, customer |-> 1, programme |-> 2, everywhere |-> 3]
Stored == {k \in DOMAIN term : term[k] # NoTerm}
Covers(scope) == scope \in DOMAIN Rank

\* Narrowest scope first, then by name.
Narrower(k, l) ==
    \/ Rank[k[2]] < Rank[l[2]]
    \/ Rank[k[2]] = Rank[l[2]] /\ Position(k[1]) < Position(l[1])

TermsAt(scope) ==
    LET active == {n \in Name : term[<<n, scope>>] # NoTerm /\ term[<<n, scope>>].active}
        names == Kept(Order, active)
    IN  [i \in DOMAIN names |->
            [canonical |-> names[i], spellings |-> term[<<names[i], scope>>].spellings]]

TermsInForce ==
    LET given(scope) == IF scope \in Scopes THEN TermsAt(scope) ELSE <<>>
    IN  given("configuration") \o given("customer") \o given("programme") \o given("everywhere")

\* The rows of this customer and of everybody.
OurAliases(rows) == SelectSeq(rows, LAMBDA r : r.whose # "another")
AliasesOf(rows, canonical) ==
    {rows[i].name : i \in {j \in DOMAIN rows : rows[j].canonical = canonical}}

\* Names as spellings for every artifact, sorted.
Spellings(names) ==
    LET sorted == Kept(Order, names)
    IN  [i \in DOMAIN sorted |-> [name |-> sorted[i], artifact |-> ""]]

AliasTerms ==
    LET rows == OurAliases(alias)
        heads == Kept(Order, {rows[i].canonical : i \in DOMAIN rows})
        spelled(c) == Spellings(AliasesOf(rows, c))
    IN  [i \in DOMAIN heads |-> [canonical |-> heads[i], spellings |-> spelled(heads[i])]]

LoadedDictionary == TermsInForce \o AliasTerms

\* The table of the pre-dictionary lookup: what each name is canonically.
LoadedAliases ==
    LET rows == OurAliases(alias)
        FirstSeen(acc, r) ==
            IF Contains(acc, r.canonical) THEN acc ELSE Append(acc, r.canonical)
        Register(table, c) ==
            [n \in Name |-> IF n \in {c} \cup AliasesOf(rows, c) THEN c ELSE table[n]]
    IN  FoldLeft(Register, [n \in Name |-> n], FoldLeft(FirstSeen, <<>>, rows))

----------------------------------------------------------------------------
(* Looking a name up in a loaded dictionary *)

SpelledNames(entry) == {s.name : s \in ToSet(entry.spellings)}
Called(entry) == {entry.canonical} \cup SpelledNames(entry)

\* The first term to claim a name keeps it; 0 for a name nobody claims.
OwnerOf(loaded, n) == SelectInSeq(loaded, LAMBDA t : n \in Called(t))

Alternates(loaded, wanted, artifact) ==
    LET entry == loaded[OwnerOf(loaded, wanted)]
        offered(s) == IF s.artifact \in {"", artifact} /\ s.name # wanted
                      THEN <<s.name>> ELSE <<>>
    IN  IF OwnerOf(loaded, wanted) = 0 THEN <<>>
        ELSE (IF entry.canonical = wanted THEN <<>> ELSE <<entry.canonical>>)
             \o FlattenSeq([i \in DOMAIN entry.spellings |-> offered(entry.spellings[i])])

\* What is another attribute's for certain is not shown, unless that is all there is.
Shortlist(loaded, wanted, candidates) ==
    LET kept == Kept(candidates, {c \in Name :
                                      OwnerOf(loaded, c) \in {0, OwnerOf(loaded, wanted)}})
    IN  IF kept = <<>> THEN candidates ELSE kept

----------------------------------------------------------------------------
(* The console *)

Claims(k) == {k[1]} \cup SpelledNames(term[k])

Edited == edits < MaxEdits /\ edits' = edits + 1

\* A term is its spellings: they are replaced as a whole.
SaveTerm(canonical, scope, spellings, active) ==
    LET k == <<canonical, scope>>
        asked == [active |-> active, spellings |-> spellings]
    IN  /\ Edited
        /\ \A l \in Stored \ {k} :
               term[l].active => Claims(l) \cap ({canonical} \cup SpelledNames(asked)) = {}
        /\ term' = [term EXCEPT ![k] = asked]
        /\ UNCHANGED <<alias, mapping>>

DeleteTerm(k) ==
    /\ Edited
    /\ k \in Stored
    /\ term' = [term EXCEPT ![k] = NoTerm]
    /\ UNCHANGED <<alias, mapping>>

\* Mutant of Taught: a term that is made has no spelling yet.
TaughtLater(k, spelling) ==
    IF term[k] = NoTerm THEN [active |-> TRUE, spellings |-> <<>>]
    ELSE [term[k] EXCEPT !.spellings = Append(@, spelling)]

\* The term with one more spelling, made if there is none.
Taught(k, spelling) ==
    IF term[k] = NoTerm THEN [active |-> TRUE, spellings |-> <<spelling>>]
    ELSE IF Contains(term[k].spellings, spelling) THEN term[k]
    ELSE [term[k] EXCEPT !.spellings = Append(@, spelling)]

AcceptSuggestion(wanted, found, artifact, scope) ==
    /\ Edited
    /\ \A l \in Stored : l[1] # wanted => found \notin Claims(l)
    /\ term' = [term EXCEPT ![<<wanted, scope>>] =
                    Taught(<<wanted, scope>>, [name |-> found, artifact |-> artifact])]
    /\ UNCHANGED <<alias, mapping>>

Propose(p) ==
    /\ mapping[p] = "none"
    /\ mapping' = [mapping EXCEPT ![p] = "new"]
    /\ UNCHANGED <<term, alias, edits>>

ApproveMapping(p) ==
    /\ Edited
    /\ mapping[p] = "new"
    /\ term' = [term EXCEPT ![<<p.attribute, p.scope>>] =
                    Taught(<<p.attribute, p.scope>>, [name |-> p.name, artifact |-> p.artifact])]
    /\ mapping' = [mapping EXCEPT ![p] = "synthesized"]
    /\ UNCHANGED alias

\* Rejecting looks at no status; withdrawing takes what was approved by that way.
RejectMapping(p) ==
    /\ mapping[p] # "none"
    /\ mapping' = [mapping EXCEPT ![p] = "rejected"]
    /\ UNCHANGED <<term, alias, edits>>

WithdrawMapping(p) ==
    /\ mapping[p] \in {"new", "rejected"}
    /\ mapping' = [mapping EXCEPT ![p] = "withdrawn"]
    /\ UNCHANGED <<term, alias, edits>>

CreateAlias(row) ==
    /\ Edited
    /\ alias' = Append(alias, row)
    /\ UNCHANGED <<term, mapping>>

DeleteAlias(i) ==
    /\ Edited
    /\ alias' = RemoveAt(alias, i)
    /\ UNCHANGED <<term, mapping>>

\* Every customer's aliases become spellings for everybody.  A canonical name that
\* has terms at several scopes is extended at the one the query returned last.
CopyAliases ==
    LET heads == {alias[i].canonical : i \in DOMAIN alias}
        canonicals == {k[1] : k \in Stored}
    IN  /\ Edited
        /\ \E last \in [canonicals -> Scopes] :
            /\ \A c \in canonicals : <<c, last[c]>> \in Stored
            /\ LET known == UNION {SpelledNames(term[<<c, last[c]>>]) : c \in canonicals}
                   target(c) == <<c, IF c \in canonicals THEN last[c] ELSE "everywhere">>
                   new(c) == AliasesOf(alias, c) \ ({c} \cup known)
                   extended(k) == IF k \in Stored
                                  THEN [term[k] EXCEPT !.spellings = @ \o Spellings(new(k[1]))]
                                  ELSE [active |-> TRUE, spellings |-> Spellings(new(k[1]))]
               IN  term' = [k \in DOMAIN term |->
                               IF k[1] \in heads /\ k = target(k[1]) /\ new(k[1]) # {}
                               THEN extended(k) ELSE term[k]]
        /\ UNCHANGED <<alias, mapping>>
====
