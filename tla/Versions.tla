---- MODULE Versions ----
(***************************************************************************)
(* The rules of one programme, the versions recorded of them, and the runs *)
(* that say which version they used (db/versions.py, the programme-rule    *)
(* handlers of api/routers/admin.py, worker/runner.py).                    *)
(*                                                                         *)
(* Every change of a rule records a snapshot of all of them, numbered one  *)
(* more than the latest. An editor's request is a transaction: it changes  *)
(* the rows and takes its snapshot of what it sees (committed rows under   *)
(* its own changes), then numbers it after the latest and commits. A run   *)
(* reads the latest number first and the rules themselves after it, in a   *)
(* transaction that sees what others commit in between.                    *)
(*                                                                         *)
(* A text stands for a rule's title, text, strictness and order.           *)
(***************************************************************************)
EXTENDS Naturals, Sequences

CONSTANTS ProgrammeRules, \* ids of rows that may come to exist
          Texts, NoText,
          Editors,        \* requests of the programme and version screens
          Starts,         \* attempts to start a run of the programme
          MaxVersions     \* the bound on definition_versions

ASSUME VersionsAssumption ==
    /\ NoText \notin Texts
    /\ MaxVersions \in Nat

VARIABLES live,     \* programme_rules
          versions, \* definition_versions of the programme, by number
          edit,     \* what each editor's transaction holds
          start     \* what each attempt has read

versionsVars == <<live, versions, edit, start>>

RuleStates == {"active", "shadow", "disabled", "deleted"}
NoProgrammeRule == [state |-> "none", text |-> NoText, old |-> FALSE]
\* old: deleted longer ago than the restore window.

\* programme_snapshot.
SnapshotOf(rules) == [r \in ProgrammeRules |-> [state |-> rules[r].state, text |-> rules[r].text]]

\* _guidance: the rules a run is given.
GivenTo(rules) ==
    [r \in {s \in ProgrammeRules : rules[s].state \in {"active", "shadow"}} |-> rules[r].text]

Untouched(r) == \A e \in Editors : edit[e].open => r \notin DOMAIN edit[e].rows

----------------------------------------------------------------------------
VersionsInit ==
    /\ live = [r \in ProgrammeRules |-> NoProgrammeRule]
    /\ versions = <<>>
    /\ edit = [e \in Editors |-> [open |-> FALSE]]
    /\ start = [s \in Starts |-> [phase |-> "queued", named |-> 0, given |-> GivenTo(live)]]

\* The rows are written (and locked) and the snapshot is taken.
Write(e, rows, reverting) ==
    /\ ~edit[e].open
    /\ \A r \in DOMAIN rows : Untouched(r)
    /\ edit' = [edit EXCEPT ![e] =
           [open |-> TRUE, rows |-> rows, reverting |-> reverting,
            snapshot |-> SnapshotOf([r \in ProgrammeRules |->
                             IF r \in DOMAIN rows THEN rows[r] ELSE live[r]])]]
    /\ UNCHANGED <<live, versions, start>>

One(r, row) == [s \in {r} |-> row]

CreateProgrammeRule(e, r, text) ==
    /\ live[r].state = "none"
    /\ Write(e, One(r, [state |-> "active", text |-> text, old |-> FALSE]), FALSE)

EditProgrammeRule(e, r, text) ==
    /\ live[r].state \notin {"none", "deleted"}
    /\ Write(e, One(r, [live[r] EXCEPT !.text = text]), FALSE)

\* lifecycle.set_state; deleting again starts the window again.
MoveProgrammeRule(e, r, to) ==
    /\ live[r].state # "none"
    /\ to # "deleted" => ~live[r].old
    /\ Write(e, One(r, [state |-> to, text |-> live[r].text, old |-> FALSE]), FALSE)

\* _restore_programme: a rule of the version as it was then, a later one deleted; no
\* window is asked about.
PutBack(was, r) ==
    IF was[r].state # "none"
    THEN [state |-> was[r].state, text |-> was[r].text,
          old |-> was[r].state = "deleted" /\ live[r].old]
    ELSE IF live[r].state = "deleted" THEN live[r]
    ELSE [live[r] EXCEPT !.state = "deleted"]

Revert(e, n) ==
    /\ n \in DOMAIN versions
    /\ Write(e, [r \in {s \in ProgrammeRules : live[s].state # "none"} |-> PutBack(versions[n], r)],
             TRUE)

\* Faulty variant: a snapshot that any version has is not recorded again.
CommitOnlyNew(e) ==
    /\ edit[e].open
    /\ LET same == \E n \in DOMAIN versions : versions[n] = edit[e].snapshot
       IN /\ same \/ Len(versions) < MaxVersions
          /\ versions' = IF same THEN versions ELSE Append(versions, edit[e].snapshot)
    /\ live' = [r \in ProgrammeRules |->
           IF r \in DOMAIN edit[e].rows THEN edit[e].rows[r] ELSE live[r]]
    /\ edit' = [edit EXCEPT ![e] = [open |-> FALSE]]
    /\ UNCHANGED start

(* _record, and the commit: a snapshot equal to the latest is not recorded *)
(* unless it comes from a revert.                                          *)
Commit(e) ==
    /\ edit[e].open
    /\ LET same == /\ versions # <<>> /\ ~edit[e].reverting
                   /\ versions[Len(versions)] = edit[e].snapshot
       IN /\ same \/ Len(versions) < MaxVersions
          /\ versions' = IF same THEN versions ELSE Append(versions, edit[e].snapshot)
    /\ live' = [r \in ProgrammeRules |->
           IF r \in DOMAIN edit[e].rows THEN edit[e].rows[r] ELSE live[r]]
    /\ edit' = [edit EXCEPT ![e] = [open |-> FALSE]]
    /\ UNCHANGED start

\* The number was taken by somebody else, or the request died: rolled back.
RollBack(e) ==
    /\ edit[e].open
    /\ edit' = [edit EXCEPT ![e] = [open |-> FALSE]]
    /\ UNCHANGED <<live, versions, start>>

----------------------------------------------------------------------------
(* Days pass over a deleted rule; purge_deleted_rules blanks its text and  *)
(* records no version.                                                     *)
GrowOld(r) ==
    /\ live[r].state = "deleted" /\ ~live[r].old /\ Untouched(r)
    /\ live' = [live EXCEPT ![r].old = TRUE]
    /\ UNCHANGED <<versions, edit, start>>

PurgeProgrammeRule(r) ==
    /\ live[r].old /\ live[r].text # NoText /\ Untouched(r)
    /\ live' = [live EXCEPT ![r].text = NoText]
    /\ UNCHANGED <<versions, edit, start>>

----------------------------------------------------------------------------
(* execute_run: current_versions, then build_context and _guidance. An     *)
(* attempt that ends may be followed by another, which reads both again.   *)
NameVersion(s) ==
    /\ start[s].phase = "queued"
    /\ start' = [start EXCEPT ![s].phase = "named", ![s].named = Len(versions)]
    /\ UNCHANGED <<live, versions, edit>>

\* Faulty variant: an attempt keeps the rules an earlier one was given.
LoadGuidanceOnce(s) ==
    /\ start[s].phase = "named"
    /\ start' = [start EXCEPT ![s].phase = "started",
           ![s].given = IF DOMAIN start[s].given = {} THEN GivenTo(live) ELSE start[s].given]
    /\ UNCHANGED <<live, versions, edit>>

LoadGuidance(s) ==
    /\ start[s].phase = "named"
    /\ start' = [start EXCEPT ![s].phase = "started", ![s].given = GivenTo(live)]
    /\ UNCHANGED <<live, versions, edit>>

TryAgain(s) ==
    /\ start[s].phase \in {"named", "started"}
    /\ start' = [start EXCEPT ![s].phase = "queued"]
    /\ UNCHANGED <<live, versions, edit>>

----------------------------------------------------------------------------
VersionsNext ==
    \/ \E e \in Editors, r \in ProgrammeRules :
           \/ \E text \in Texts : CreateProgrammeRule(e, r, text) \/ EditProgrammeRule(e, r, text)
           \/ \E to \in {"active", "disabled", "deleted"} : MoveProgrammeRule(e, r, to)
    \/ \E e \in Editors :
           (\E n \in 1 .. MaxVersions : Revert(e, n)) \/ Commit(e) \/ RollBack(e)
    \/ \E r \in ProgrammeRules : GrowOld(r) \/ PurgeProgrammeRule(r)
    \/ \E s \in Starts : NameVersion(s) \/ LoadGuidance(s) \/ TryAgain(s)

VersionsSpec == VersionsInit /\ [][VersionsNext]_versionsVars

----------------------------------------------------------------------------
ProgrammeRow == [state : RuleStates \cup {"none"}, text : Texts \cup {NoText}, old : BOOLEAN]
Snapshot == [ProgrammeRules -> [state : RuleStates \cup {"none"}, text : Texts \cup {NoText}]]
Guidance == UNION {[given -> Texts \cup {NoText}] : given \in SUBSET ProgrammeRules}

\* The types of the rules, the versions, the editors' transactions and the attempts.
VersionsTypeOK ==
    /\ live \in [ProgrammeRules -> ProgrammeRow]
    /\ versions \in Seq(Snapshot) /\ Len(versions) <= MaxVersions
    /\ DOMAIN edit = Editors
    /\ \A e \in Editors : edit[e].open =>
           /\ edit[e].snapshot \in Snapshot
           /\ \E S \in SUBSET ProgrammeRules : edit[e].rows \in [S -> ProgrammeRow]
    /\ start \in [Starts -> [phase : {"queued", "named", "started"}, named : 0 .. MaxVersions,
                             given : Guidance]]

\* What version n gives a run; before the first version there is nothing to give.
GivenBy(n) == IF n = 0 THEN [r \in {} |-> NoText] ELSE GivenTo(versions[n])

\* The latest version is what a run is given now, whatever a revert put back, a purge
\* blanked or a rolled-back request had written: every handler records after it changes.
\* One editor at a time.
LatestSaysWhatRuns == GivenTo(live) = GivenBy(Len(versions))

\* A run that started was given the rules of a version recorded, never older than the
\* one it names in definition_versions: the number is read first and the rules after it.
\* One editor at a time.
NeverOlderThanNamed ==
    \A s \in Starts : start[s].phase = "started" =>
        \E n \in start[s].named .. Len(versions) : start[s].given = GivenBy(n)
====
