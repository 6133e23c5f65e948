------------------------------ MODULE Library ------------------------------
(***************************************************************************)
(* What administrators keep in versions (api/routers/admin.py,             *)
(* db/versions.py, checks/guides.py): an artifact type with its samples,   *)
(* guide and layout, the worked examples of one stage, and the labels of   *)
(* one field in one scope.  Every save records a version when it differs   *)
(* from the latest; a revert writes an older one back, as a new version.   *)
(*                                                                         *)
(* A sample is known by its storage path.  Ids of samples, names of people *)
(* and the summaries of versions are left out.                             *)
(***************************************************************************)
EXTENDS Naturals, Sequences, FiniteSets, SequencesExt

CONSTANTS Wordings,     \* what a type says of itself, a guide entry, a layout, an example
          Paths,        \* storage paths an upload may get
          SampleScopes, \* programmes a sample is for, "" for all
          MaxSamples, MaxPerStage,
          LabelTexts,
          BuiltIn,      \* whether the type is one of the shipped ones
          Absent,
          MaxSaved      \* the bound on saves and reverts

ASSUME LibraryAssumption ==
    /\ MaxSamples \in Nat \ {0} /\ MaxPerStage \in Nat \ {0} /\ MaxSaved \in Nat
    /\ BuiltIn \in BOOLEAN

VARIABLES type,     \* artifact_types: the row with its samples, or Absent
          file,     \* the sample files: "none" before their upload, "there", or "lost"
          check,    \* the check the guide compiled into
          example,  \* prompt_examples of the stage, in the order of their ids
          fieldLabel, \* field_labels of the field, in the order of their ids
          version,  \* definition_versions of each of the three
          saved     \* saves and reverts so far

libraryVars == <<type, file, check, example, fieldLabel, version, saved>>

Seeded == [wording |-> Absent, guide |-> Absent, layout |-> Absent, sample |-> [p \in {} |-> Absent]]

LibraryInit ==
    /\ type = IF BuiltIn THEN Seeded ELSE Absent
    /\ file = [p \in Paths |-> "none"]
    /\ check = Absent
    /\ example = <<>> /\ fieldLabel = <<>>
    /\ version = [kind \in {"artifact_type", "example", "field_label"} |-> <<>>]
    /\ saved = 0

\* The layout is no part of the snapshot.
Snapshot(row) == [wording |-> row.wording, guide |-> row.guide, sample |-> row.sample]

\* _record: nothing is written when nothing changed, save by a revert.
VersionWith(kind, snapshot, reverting) ==
    LET log == version[kind]
        same == log # <<>> /\ Last(log) = snapshot
    IN [version EXCEPT ![kind] = IF same /\ ~reverting THEN log ELSE Append(log, snapshot)]

Saving == saved < MaxSaved /\ saved' = saved + 1

----------------------------------------------------------------------------
(* The artifact type *)

TypeSaved(row, reverting) ==
    /\ Saving
    /\ type' = row
    /\ version' = VersionWith("artifact_type", Snapshot(row), reverting)
    /\ UNCHANGED <<example, fieldLabel>>

SaveArtifactType(wording) ==
    /\ TypeSaved([IF type = Absent THEN Seeded ELSE type EXCEPT !.wording = wording], FALSE)
    /\ UNCHANGED <<file, check>>

InScope(scope) == {p \in DOMAIN type.sample : type.sample[p].scope = scope}
With(p, scope, label) == [type EXCEPT !.sample = [q \in DOMAIN @ \cup {p} |->
                             IF q = p THEN [scope |-> scope, label |-> label] ELSE @[q]]]
Without(paths) == [type EXCEPT !.sample = [q \in DOMAIN @ \ paths |-> @[q]]]

UploadSample(p, scope, label) ==
    /\ type # Absent /\ file[p] = "none"
    /\ Cardinality(InScope(scope)) < MaxSamples
    /\ file' = [file EXCEPT ![p] = "there"]
    /\ TypeSaved(With(p, scope, label), FALSE)
    /\ UNCHANGED check

EditSample(p, scope, label) ==
    /\ type # Absent /\ p \in DOMAIN type.sample
    /\ scope # type.sample[p].scope => Cardinality(InScope(scope)) < MaxSamples
    /\ TypeSaved(With(p, scope, label), FALSE)
    /\ UNCHANGED <<file, check>>

\* The file stays: an older version names it.
DeleteSample(p) ==
    /\ type # Absent /\ p \in DOMAIN type.sample
    /\ TypeSaved(Without({p}), FALSE)
    /\ UNCHANGED <<file, check>>

\* An entry shown on a sample that can be read compiles into a check; a check that has none is
\* deleted. One that was promoted since stays as it is.
Compiled(guide, shown) ==
    IF guide # Absent /\ shown
    THEN IF check = Absent \/ check.state = "deleted" THEN [says |-> guide, state |-> "shadow"]
         ELSE [check EXCEPT !.says = guide]
    ELSE IF check = Absent THEN Absent ELSE [check EXCEPT !.state = "deleted"]

Shown(found) == found /\ \E p \in DOMAIN type.sample : file[p] = "there"

SaveGuide(guide, found) ==
    /\ type # Absent
    /\ check' = Compiled(guide, Shown(found))
    /\ TypeSaved([type EXCEPT !.guide = guide], FALSE)
    /\ UNCHANGED file

PromoteCheck ==
    /\ check # Absent /\ check.state = "shadow"
    /\ check' = [check EXCEPT !.state = "active"]
    /\ UNCHANGED <<type, file, example, fieldLabel, version, saved>>

SaveLayout(layout) ==
    /\ type # Absent
    /\ TypeSaved([type EXCEPT !.layout = layout], FALSE)
    /\ UNCHANGED <<file, check>>

\* What the AI read is added to what the layout says, were it not there.
AcceptLayoutSuggestion(layout) == SaveLayout(layout)

\* Its versions go with it; its files and its check do not. A type some run has uploaded is
\* kept: whether one has is any run's choice.
DeleteArtifactType ==
    /\ type # Absent /\ ~BuiltIn
    /\ Saving
    /\ type' = Absent
    /\ version' = [version EXCEPT !["artifact_type"] = <<>>]
    /\ UNCHANGED <<file, check, example, fieldLabel>>

\* A sample still there keeps its programme; one whose file is lost does not come back. The
\* checks of the guide are not compiled again.
Restored(target) ==
    LET wanted == DOMAIN target.sample
        back == {p \in wanted : p \in DOMAIN type.sample \/ file[p] = "there"}
    IN [wording |-> target.wording, guide |-> target.guide, layout |-> type.layout,
        sample |-> [p \in back |-> IF p \in DOMAIN type.sample
                                   THEN [type.sample[p] EXCEPT !.label = target.sample[p].label]
                                   ELSE target.sample[p]]]

\* Faulty variant: what the revert meant to restore is recorded, not what it did.
RevertAsAsked(n) ==
    /\ type # Absent /\ n \in DOMAIN version["artifact_type"]
    /\ Saving
    /\ type' = Restored(version["artifact_type"][n])
    /\ version' = VersionWith("artifact_type", version["artifact_type"][n], TRUE)
    /\ UNCHANGED <<file, check, example, fieldLabel>>

RevertArtifactType(n) ==
    /\ type # Absent /\ n \in DOMAIN version["artifact_type"]
    /\ TypeSaved(Restored(version["artifact_type"][n]), TRUE)
    /\ UNCHANGED <<file, check>>

\* Environment: a disk is replaced, or restored from an older copy.
FileLost(p) ==
    /\ file[p] = "there"
    /\ file' = [file EXCEPT ![p] = "lost"]
    /\ UNCHANGED <<type, check, example, fieldLabel, version, saved>>

----------------------------------------------------------------------------
(* Worked examples: a row that was deleted leaves Absent at its id *)

ActiveExamples(rows) == {i \in DOMAIN rows : rows[i] # Absent /\ rows[i].active}
Guarded(i) == Cardinality(ActiveExamples(example) \ {i}) < MaxPerStage

ExamplesSaved(rows, reverting) ==
    /\ Saving
    /\ example' = rows
    /\ version' = VersionWith("example", rows, reverting)
    /\ UNCHANGED <<type, file, check, fieldLabel>>

SaveExample(wording, active) ==
    /\ active => Guarded(0)
    /\ ExamplesSaved(Append(example, [wording |-> wording, active |-> active]), FALSE)

\* What a person confirmed elsewhere becomes an example that is on.
PromoteExample(wording) == SaveExample(wording, TRUE)

ExampleAs(i, wording, active) == [example EXCEPT ![i] = [wording |-> wording, active |-> active]]

EditExample(i, wording, active) ==
    /\ i \in DOMAIN example /\ example[i] # Absent
    /\ active /\ ~example[i].active => Guarded(i)
    /\ ExamplesSaved(ExampleAs(i, wording, active), FALSE)

\* Every id the version names is written back, and every later one deleted.
BackTo(rows, target) ==
    [i \in DOMAIN rows |-> IF i \in DOMAIN target THEN target[i] ELSE Absent]

RevertExamples(n) ==
    /\ n \in DOMAIN version["example"]
    /\ ExamplesSaved(BackTo(example, version["example"][n]), TRUE)

----------------------------------------------------------------------------
(* Labels of a field *)

LabelsSaved(rows, reverting) ==
    /\ Saving
    /\ fieldLabel' = rows
    /\ version' = VersionWith("field_label", rows, reverting)
    /\ UNCHANGED <<type, file, check, example>>

Texts(rows) == {rows[i].text : i \in {i \in DOMAIN rows : rows[i] # Absent}}

CreateFieldLabel(text, active) ==
    /\ text \notin Texts(fieldLabel)
    /\ LabelsSaved(Append(fieldLabel, [text |-> text, active |-> active]), FALSE)

SetFieldLabelActive(i, active) ==
    /\ i \in DOMAIN fieldLabel /\ fieldLabel[i] # Absent
    /\ LabelsSaved([fieldLabel EXCEPT ![i].active = active], FALSE)

DeleteFieldLabel(i) ==
    /\ i \in DOMAIN fieldLabel /\ fieldLabel[i] # Absent
    /\ LabelsSaved([fieldLabel EXCEPT ![i] = Absent], FALSE)

\* What is missing is inserted before what is new is deleted: a text given again since, to
\* another row, refuses the whole.
RevertFieldLabels(n) ==
    /\ n \in DOMAIN version["field_label"]
    /\ LET target == version["field_label"][n]
           missing == {i \in DOMAIN target : target[i] # Absent /\ fieldLabel[i] = Absent}
       IN /\ {target[i].text : i \in missing} \cap Texts(fieldLabel) = {}
          /\ LabelsSaved(BackTo(fieldLabel, target), TRUE)

LibraryNext ==
    \/ \E w \in Wordings : SaveArtifactType(w) \/ SaveLayout(w) \/ AcceptLayoutSuggestion(w)
    \/ \E p \in Paths : DeleteSample(p) \/ FileLost(p)
    \/ \E p \in Paths, scope \in SampleScopes, label \in Wordings :
         UploadSample(p, scope, label) \/ EditSample(p, scope, label)
    \/ \E guide \in Wordings \cup {Absent}, found \in BOOLEAN : SaveGuide(guide, found)
    \/ PromoteCheck
    \/ DeleteArtifactType
    \/ \E n \in 1..MaxSaved : RevertArtifactType(n) \/ RevertExamples(n) \/ RevertFieldLabels(n)
    \/ \E w \in Wordings : PromoteExample(w)
    \/ \E w \in Wordings, active \in BOOLEAN :
         SaveExample(w, active) \/ \E i \in 1..MaxSaved : EditExample(i, w, active)
    \/ \E text \in LabelTexts, active \in BOOLEAN : CreateFieldLabel(text, active)
    \/ \E i \in 1..MaxSaved : DeleteFieldLabel(i) \/ \E active \in BOOLEAN : SetFieldLabelActive(i, active)

LibrarySpec == LibraryInit /\ [][LibraryNext]_libraryVars

----------------------------------------------------------------------------
\* The latest version is what is there: a run that names it names what it was given, and
\* "nothing is lost" by a revert, also of a sample whose file is gone (db/versions.py). One
\* editor at a time, as in Versions: nothing else commits between a snapshot and its number.
LatestIs(kind, there) == version[kind] # <<>> => Last(version[kind]) = there
LatestIsWhatIsKept ==
    /\ type # Absent => LatestIs("artifact_type", Snapshot(type))
    /\ LatestIs("example", example)
    /\ LatestIs("field_label", fieldLabel)
=============================================================================
