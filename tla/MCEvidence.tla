---- MODULE MCEvidence ----
(***************************************************************************)
(* Small instances of Evidence.  The order asks for w and v; the artifacts *)
(* may call them c1 (resembles both), c2 (resembles w) or c3 (resembles    *)
(* nothing).  Beside it the queue with workers whose heartbeats are timely,  *)
(* the product codes, the library and the signatures of findings: `part`   *)
(* says which of them moves.                                               *)
(***************************************************************************)
EXTENDS Evidence, JobQueue, ProductCodes, Library, Signatures, TLC

CONSTANTS c1, c2, c3, v, w

MCOrder == <<c1, c2, c3, v, w>>
MCResembles == {<<w, c1>>, <<w, c2>>, <<v, c1>>}
MCSameWords == {<<v, c2>>}
MCCatalogue == "known" :> {v, w} @@ "empty" :> {}

Spelled(names) == [i \in DOMAIN names |-> [name |-> names[i], artifact |-> ""]]
MCForms == {[canonical |-> w, spellings |-> Spelled(<<c3>>)],
            [canonical |-> v, spellings |-> Spelled(<<c1>>)]}
MCProposals == {[attribute |-> v, name |-> c3, artifact |-> "dirt", scope |-> "everywhere"]}

AliasOf(canonical, name, whose) == [canonical |-> canonical, name |-> name, whose |-> whose]
MCSeeds == {<<>>, <<AliasOf(v, c3, "customer"), AliasOf(w, c2, "another")>>}
MCNewAliases == {AliasOf(w, c3, "everybody")}

Rule(id, kind, names, codes, traced) ==
    [id |-> id, type |-> kind, names |-> names, codes |-> codes, traced |-> traced]
Delivery(dirt, layout, rules, drifted, beyond) ==
    [dirt |-> dirt, layout |-> layout, rules |-> rules, drifted |-> drifted,
     beyond |-> beyond, blank |-> {c2}]

AllOfCode == Rule("r1", "attributes", {}, {"known"}, TRUE)
NoSuchCode == Rule("r2", "attributes", {w}, {"new"}, TRUE)
EmptyCode == Rule("r3", "attributes", {}, {"empty"}, FALSE)
Bound == Rule("r4", "criteria", {w}, {}, TRUE)
Free == Rule("r5", "other", {}, {}, TRUE)

\* Both artifacts; the DIRT alone, drifted; the layout alone; neither.
MCDeliveries ==
    {Delivery(<<c1, c2>>, <<c2, c3>>, <<AllOfCode, Bound>>, {}, {c1}),
     Delivery(<<c3, v>>, <<>>, <<NoSuchCode, Free>>, {"Attribute", "Mean"}, {}),
     Delivery(<<>>, <<c1>>, <<AllOfCode, EmptyCode>>, {}, {}),
     Delivery(<<c1, c2>>, <<w>>, <<Bound, NoSuchCode>>, {"Min", "Step"}, {}),
     Delivery(<<>>, <<>>, <<AllOfCode>>, {}, {})}

MCBackoff == <<1, 2>>

MCDelivered == {w :> 1, w :> 2}

\* Five findings: two deliveries of one spelling, one of another; one that names no rule.
FindingIs(run, subject, severity, shadow) ==
    [run |-> run, subject |-> subject, severity |-> severity, shadow |-> shadow]
MCFindingOf ==
    "f1" :> FindingIs("q1", "s", "low", FALSE) @@ "f2" :> FindingIs("q2", "s", "low", FALSE)
    @@ "f3" :> FindingIs("q2", "s", "low", TRUE) @@ "f4" :> FindingIs("q3", "s", "high", FALSE)
    @@ "f5" :> FindingIs("q3", "", "low", FALSE)
MCCustomerOf == "q1" :> "Acme" @@ "q2" :> "Acme" @@ "q3" :> "acme "
MCFoldedCustomer == "Acme" :> "acme" @@ "acme " :> "acme"

VARIABLE part

namesVars == <<evidenceVars, vars, codesVars, libraryVars, signatureVars, part>>

NamesInit ==
    /\ part \in {"names", "queue", "codes", "library", "signatures"}
    /\ EvidenceInit /\ Init /\ CodesInit /\ LibraryInit /\ SignaturesInit
    /\ part # "names" => alias = <<>>

NamesPart ==
    /\ part = "names" /\ EvidenceNext
    /\ UNCHANGED <<vars, codesVars, libraryVars, signatureVars, part>>
QueuePart ==
    /\ part = "queue" /\ Next
    /\ UNCHANGED <<evidenceVars, codesVars, libraryVars, signatureVars, part>>
CodesPart ==
    /\ part = "codes" /\ CodesNext
    /\ UNCHANGED <<evidenceVars, vars, libraryVars, signatureVars, part>>
LibraryPart ==
    /\ part = "library" /\ LibraryNext
    /\ UNCHANGED <<evidenceVars, vars, codesVars, signatureVars, part>>
SignaturesPart ==
    /\ part = "signatures" /\ SignaturesNext
    /\ UNCHANGED <<evidenceVars, vars, codesVars, libraryVars, part>>

NamesNext == NamesPart \/ QueuePart \/ CodesPart \/ LibraryPart \/ SignaturesPart
NamesSpec == NamesInit /\ [][NamesNext]_namesVars
====
