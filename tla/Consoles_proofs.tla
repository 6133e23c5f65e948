------------------------------ MODULE Consoles_proofs ------------------------------
(***************************************************************************)
(* Proofs about what the consoles keep: the versions of a programme, the   *)
(* accounts, the log of what the model was asked, and the chat about a     *)
(* report.                                                                 *)
(***************************************************************************)
EXTENDS Versions, Accounts, ModelCalls, Chat, Subsequences_proofs, TLAPS

-----------------------------------------------------------------------------
(***************************************************************************)
(* Proofs about Versions, for any rules, texts, attempts and numbers of    *)
(* versions, when one editor's request is open at a time.                  *)
(*                                                                         *)
(* The snapshot a request took has to stay true, of what a run would be    *)
(* given, until the request commits. Nobody else may change a rule a run   *)
(* is given meanwhile: ageing and purging only touch deleted ones.         *)
(***************************************************************************)
\* The rows as an editor's transaction would leave them.
Merged(e) ==
    [r \in ProgrammeRules |-> IF r \in DOMAIN edit[e].rows THEN edit[e].rows[r] ELSE live[r]]

\* A snapshot gives a run what the rows it was taken of give it.
EditsAreTrue ==
    \A e \in Editors : edit[e].open => GivenTo(edit[e].snapshot) = GivenTo(Merged(e))

\* Only a deleted rule is past its window.
OldAreDeleted ==
    /\ \A r \in ProgrammeRules : live[r].old => live[r].state = "deleted"
    /\ \A e \in Editors : edit[e].open =>
          \A r \in DOMAIN edit[e].rows : edit[e].rows[r].old => edit[e].rows[r].state = "deleted"

\* An attempt names a version there is.
NamedExist == \A s \in Starts : start[s].phase = "named" => start[s].named <= Len(versions)

VersionsIInv == /\ VersionsTypeOK /\ EditsAreTrue /\ OldAreDeleted
        /\ LatestSaysWhatRuns /\ NamedExist /\ NeverOlderThanNamed

OneEditor == \A e, f \in Editors : e = f

Runnable == {"active", "shadow"}

-----------------------------------------------------------------------------
(* What a run is given. *)

\* It depends on the rules that run and on their texts.
LEMMA GivenSame ==
    ASSUME NEW a, NEW b,
           \A r \in ProgrammeRules : a[r].state \in Runnable <=> b[r].state \in Runnable,
           \A r \in ProgrammeRules : a[r].state \in Runnable => a[r].text = b[r].text
    PROVE  GivenTo(a) = GivenTo(b)
<1>1. {r \in ProgrammeRules : a[r].state \in {"active", "shadow"}}
      = {r \in ProgrammeRules : b[r].state \in {"active", "shadow"}}
  BY DEF Runnable
<1> QED  BY <1>1 DEF GivenTo, Runnable

\* A snapshot is typed and gives what its rows give.
LEMMA SnapshotFacts ==
    ASSUME NEW rules \in [ProgrammeRules -> ProgrammeRow]
    PROVE  /\ SnapshotOf(rules) \in Snapshot
           /\ GivenTo(SnapshotOf(rules)) = GivenTo(rules)
<1>1. SnapshotOf(rules) \in Snapshot  BY DEF SnapshotOf, Snapshot, ProgrammeRow
<1>2. \A r \in ProgrammeRules : /\ SnapshotOf(rules)[r].state = rules[r].state
                               /\ SnapshotOf(rules)[r].text = rules[r].text
  BY DEF SnapshotOf
<1> QED  BY <1>1, <1>2, GivenSame

\* It is guidance.
LEMMA GivenType ==
    ASSUME NEW rules \in [ProgrammeRules -> ProgrammeRow]
    PROVE  GivenTo(rules) \in Guidance
<1> DEFINE S == {r \in ProgrammeRules : rules[r].state \in {"active", "shadow"}}
<1>1. GivenTo(rules) = [r \in S |-> rules[r].text]  BY DEF GivenTo
<1>2. \A r \in S : rules[r].text \in Texts \cup {NoText}  BY DEF ProgrammeRow
<1>3. S \in SUBSET ProgrammeRules  OBVIOUS
<1> HIDE DEF S
<1>4. GivenTo(rules) \in [S -> Texts \cup {NoText}]  BY <1>1, <1>2
<1> QED  BY <1>3, <1>4 DEF Guidance

\* The merged written are rows.
LEMMA MergedType ==
    ASSUME VersionsTypeOK, NEW e \in Editors, edit[e].open
    PROVE  Merged(e) \in [ProgrammeRules -> ProgrammeRow]
BY DEF VersionsTypeOK, Merged

\* Numbers given earlier still say what they said.
LEMMA OlderVersionsStay ==
    ASSUME versions \in Seq(Snapshot), NEW new \in Snapshot, versions' = Append(versions, new)
    PROVE  /\ Len(versions') = Len(versions) + 1
           /\ \A n \in 0 .. Len(versions) : GivenBy(n)' = GivenBy(n)
           /\ GivenBy(Len(versions))' = GivenTo(new)
<1>1. Len(versions') = Len(versions) + 1 /\ Len(versions) \in Nat  OBVIOUS
<1>2. \A n \in 1 .. Len(versions) : versions'[n] = versions[n]  OBVIOUS
<1>3. versions'[Len(versions')] = new  BY <1>1
<1>4. \A n \in 0 .. Len(versions) : GivenBy(n)' = GivenBy(n)
  <2> TAKE n \in 0 .. Len(versions)
  <2>1. CASE n = 0  BY <2>1 DEF GivenBy
  <2>2. CASE n # 0
    <3>1. versions'[n] = versions[n]  BY <1>2, <2>2
    <3> QED  BY <2>2, <3>1 DEF GivenBy
  <2> QED  BY <2>1, <2>2
<1>5. GivenBy(Len(versions))' = GivenTo(new)
  <2>1. Len(versions') # 0  BY <1>1
  <2> QED  BY <1>3, <2>1 DEF GivenBy
<1> QED  BY <1>1, <1>4, <1>5

-----------------------------------------------------------------------------
(* The actions of an editor. *)

\* Rows are written and the snapshot is taken.
LEMMA Written ==
    ASSUME VersionsIInv, NEW e \in Editors, NEW S \in SUBSET ProgrammeRules,
           NEW written \in [S -> ProgrammeRow], NEW reverting,
           \A r \in S : written[r].old => written[r].state = "deleted",
           Write(e, written, reverting)
    PROVE  VersionsIInv'
<1> USE DEF VersionsIInv
<1> DEFINE merged == [r \in ProgrammeRules |-> IF r \in DOMAIN written THEN written[r] ELSE live[r]]
           new == [open |-> TRUE, rows |-> written, reverting |-> reverting,
                   snapshot |-> SnapshotOf(merged)]
<1>1. /\ edit'[e] = new /\ DOMAIN edit' = Editors
      /\ \A f \in Editors \ {e} : edit'[f] = edit[f]
      /\ UNCHANGED <<live, versions, start>>
  BY DEF Write, VersionsTypeOK
<1>2. merged \in [ProgrammeRules -> ProgrammeRow]  BY DEF VersionsTypeOK
<1>3. new.rows = written /\ new.snapshot = SnapshotOf(merged)  OBVIOUS
<1>4. /\ SnapshotOf(merged) \in Snapshot
      /\ GivenTo(SnapshotOf(merged)) = GivenTo(merged)
  BY <1>2, SnapshotFacts
<1>5. Merged(e)' = merged  BY <1>1, <1>3 DEF Merged
<1> HIDE DEF new, merged
<1>6. VersionsTypeOK'
  <2>1. \A f \in Editors : edit'[f].open =>
           /\ edit'[f].snapshot \in Snapshot
           /\ \E T \in SUBSET ProgrammeRules : edit'[f].rows \in [T -> ProgrammeRow]
    <3> TAKE f \in Editors
    <3>1. CASE f = e  BY <1>1, <1>3, <1>4, <3>1
    <3>2. CASE f # e  BY <1>1, <3>2 DEF VersionsTypeOK
    <3> QED  BY <3>1, <3>2
  <2> QED  BY <1>1, <2>1 DEF VersionsTypeOK
<1>7. EditsAreTrue'
  <2> SUFFICES ASSUME NEW f \in Editors, edit'[f].open
               PROVE  GivenTo(edit'[f].snapshot) = GivenTo(Merged(f)')
    BY DEF EditsAreTrue, GivenTo
  <2>1. CASE f = e  BY <1>1, <1>3, <1>4, <1>5, <2>1
  <2>2. CASE f # e
    <3>1. Merged(f)' = Merged(f)  BY <1>1, <2>2 DEF Merged
    <3> QED  BY <1>1, <2>2, <3>1 DEF EditsAreTrue
  <2> QED  BY <2>1, <2>2
<1>8. OldAreDeleted'
  <2>1. \A f \in Editors : edit'[f].open =>
          \A r \in DOMAIN edit'[f].rows : edit'[f].rows[r].old => edit'[f].rows[r].state = "deleted"
    <3> TAKE f \in Editors
    <3>1. CASE f = e  BY <1>1, <1>3, <3>1
    <3>2. CASE f # e  BY <1>1, <3>2 DEF OldAreDeleted
    <3> QED  BY <3>1, <3>2
  <2> QED  BY <1>1, <2>1 DEF OldAreDeleted
<1>9. (LatestSaysWhatRuns /\ NamedExist /\ NeverOlderThanNamed)'
  BY <1>1 DEF LatestSaysWhatRuns, NamedExist, NeverOlderThanNamed, GivenBy, GivenTo
<1> QED  BY <1>6, <1>7, <1>8, <1>9

\* A request commits: its snapshot is the latest version, or was.
LEMMA EditCommitted ==
    ASSUME VersionsIInv, OneEditor, NEW e \in Editors, Commit(e)
    PROVE  VersionsIInv'
<1> USE VersionsAssumption DEF VersionsIInv
<1> DEFINE snapshot == edit[e].snapshot
<1>1. edit[e].open /\ snapshot \in Snapshot  BY DEF Commit, VersionsTypeOK
<1>2. /\ live' = Merged(e) /\ start' = start
      /\ edit' = [edit EXCEPT ![e] = [open |-> FALSE]]
  BY DEF Commit, Merged
<1>3. live' \in [ProgrammeRules -> ProgrammeRow]  BY <1>1, <1>2, MergedType
<1>4. GivenTo(snapshot) = GivenTo(live')  BY <1>1, <1>2 DEF EditsAreTrue
<1>5. /\ DOMAIN edit' = Editors /\ \A f \in Editors : ~edit'[f].open
  BY <1>2 DEF VersionsTypeOK, OneEditor
<1>6. versions \in Seq(Snapshot) /\ Len(versions) \in Nat /\ Len(versions) <= MaxVersions
  BY DEF VersionsTypeOK
<1>7. \/ /\ versions' = versions /\ versions # <<>> /\ versions[Len(versions)] = snapshot
      \/ versions' = Append(versions, snapshot) /\ Len(versions) < MaxVersions
  BY DEF Commit
<1> HIDE DEF snapshot
<1>8. /\ Len(versions) <= Len(versions')
      /\ \A n \in 0 .. Len(versions) : GivenBy(n)' = GivenBy(n)
      /\ GivenBy(Len(versions))' = GivenTo(snapshot)
      /\ versions' \in Seq(Snapshot) /\ Len(versions') \in Nat /\ Len(versions') <= MaxVersions
  <2>1. CASE versions' = versions /\ versions # <<>> /\ versions[Len(versions)] = snapshot
    <3>1. Len(versions) # 0  BY <1>6, <2>1
    <3>2. \A n \in 0 .. Len(versions) : GivenBy(n)' = GivenBy(n)  BY <2>1 DEF GivenBy
    <3>3. GivenBy(Len(versions))' = GivenTo(snapshot)  BY <2>1, <3>1 DEF GivenBy
    <3> QED  BY <1>6, <2>1, <3>2, <3>3
  <2>2. CASE versions' = Append(versions, snapshot) /\ Len(versions) < MaxVersions
    BY <1>1, <1>6, <2>2, OlderVersionsStay
  <2> QED  BY <1>7, <2>1, <2>2
<1>9. VersionsTypeOK'
  BY <1>2, <1>3, <1>5, <1>8 DEF VersionsTypeOK
<1>10. EditsAreTrue'  BY <1>5 DEF EditsAreTrue
<1>11. OldAreDeleted'
  <2>1. \A r \in ProgrammeRules : live'[r].old => live'[r].state = "deleted"
    BY <1>1, <1>2 DEF OldAreDeleted, Merged
  <2> QED  BY <1>5, <2>1 DEF OldAreDeleted
<1>12. LatestSaysWhatRuns'
  <2>1. GivenTo(live') = GivenBy(Len(versions))'  BY <1>4, <1>8
  <2> QED  BY <2>1 DEF LatestSaysWhatRuns, GivenTo
<1>13. NamedExist'
  <2> SUFFICES ASSUME NEW s \in Starts, start[s].phase = "named"
               PROVE  start[s].named <= Len(versions')
    BY <1>2 DEF NamedExist
  <2>1. start[s].named <= Len(versions) /\ start[s].named \in Nat
    BY DEF NamedExist, VersionsTypeOK
  <2> QED  BY <1>6, <1>8, <2>1
<1>14. NeverOlderThanNamed'
  <2> SUFFICES ASSUME NEW s \in Starts, start[s].phase = "started"
               PROVE  \E n \in start[s].named .. Len(versions') : start[s].given = GivenBy(n)'
    BY <1>2 DEF NeverOlderThanNamed
  <2>1. PICK n \in start[s].named .. Len(versions) : start[s].given = GivenBy(n)
    BY DEF NeverOlderThanNamed
  <2>2. start[s].named \in Nat  BY DEF VersionsTypeOK
  <2>3. n \in 0 .. Len(versions) /\ n \in start[s].named .. Len(versions')
    BY <1>6, <1>8, <2>1, <2>2
  <2> QED  BY <1>8, <2>1, <2>3
<1> QED  BY <1>9, <1>10, <1>11, <1>12, <1>13, <1>14

\* A deleted rule nobody holds changes what a run is not given.
LEMMA Faded ==
    ASSUME VersionsIInv, NEW r \in ProgrammeRules, NEW row \in ProgrammeRow,
           live[r].state = "deleted", row.state = "deleted", Untouched(r),
           live' = [live EXCEPT ![r] = row], UNCHANGED <<versions, edit, start>>
    PROVE  VersionsIInv'
<1> USE DEF VersionsIInv
<1>1. /\ live' \in [ProgrammeRules -> ProgrammeRow] /\ live'[r] = row
      /\ \A s \in ProgrammeRules \ {r} : live'[s] = live[s]
  BY DEF VersionsTypeOK
<1>2. VersionsTypeOK'  BY <1>1 DEF VersionsTypeOK
<1>3. GivenTo(live') = GivenTo(live)
  <2>1. \A s \in ProgrammeRules : live'[s].state \in Runnable <=> live[s].state \in Runnable
    BY <1>1 DEF Runnable
  <2>2. \A s \in ProgrammeRules : live'[s].state \in Runnable => live'[s].text = live[s].text
    BY <1>1 DEF Runnable
  <2> QED  BY <2>1, <2>2, GivenSame
<1>4. EditsAreTrue'
  <2> SUFFICES ASSUME NEW e \in Editors, edit[e].open
               PROVE  GivenTo(edit[e].snapshot) = GivenTo(Merged(e)')
    BY DEF EditsAreTrue, GivenTo
  <2>1. r \notin DOMAIN edit[e].rows  BY DEF Untouched
  <2> DEFINE now == Merged(e)
             then == Merged(e)'
  <2>2. /\ then[r].state = "deleted" /\ now[r].state = "deleted"
        /\ \A s \in ProgrammeRules \ {r} : then[s] = now[s]
    BY <1>1, <2>1 DEF Merged
  <2> HIDE DEF now, then
  <2>3. GivenTo(then) = GivenTo(now)
    <3>1. \A s \in ProgrammeRules : then[s].state \in Runnable <=> now[s].state \in Runnable
      BY <2>2 DEF Runnable
    <3>2. \A s \in ProgrammeRules : then[s].state \in Runnable => then[s].text = now[s].text
      BY <2>2 DEF Runnable
    <3> QED  BY <3>1, <3>2, GivenSame
  <2> USE DEF now, then
  <2> QED  BY <2>3 DEF EditsAreTrue
<1>5. OldAreDeleted'  BY <1>1 DEF OldAreDeleted
<1>6. LatestSaysWhatRuns'
  <2>1. GivenTo(live') = GivenBy(Len(versions))  BY <1>3 DEF LatestSaysWhatRuns
  <2> QED  BY <2>1 DEF LatestSaysWhatRuns, GivenBy, GivenTo
<1>7. (NamedExist /\ NeverOlderThanNamed)'
  BY DEF NamedExist, NeverOlderThanNamed, GivenBy, GivenTo
<1> QED  BY <1>2, <1>4, <1>5, <1>6, <1>7

\* Nothing an editor or a version says changes with an attempt.
LEMMA EditsStay ==
    ASSUME EditsAreTrue, OldAreDeleted, LatestSaysWhatRuns, UNCHANGED <<live, versions, edit>>
    PROVE  (EditsAreTrue /\ OldAreDeleted /\ LatestSaysWhatRuns)'
<1>1. EditsAreTrue'
  <2> SUFFICES ASSUME NEW e \in Editors, edit[e].open
               PROVE  GivenTo(edit[e].snapshot) = GivenTo(Merged(e)')
    BY DEF EditsAreTrue, GivenTo
  <2>1. Merged(e)' = Merged(e)  BY DEF Merged
  <2> QED  BY <2>1 DEF EditsAreTrue
<1>2. OldAreDeleted'  BY DEF OldAreDeleted
<1>3. LatestSaysWhatRuns'  BY DEF LatestSaysWhatRuns, GivenTo, GivenBy
<1> QED  BY <1>1, <1>2, <1>3

\* Only an attempt moves.
LEMMA Started ==
    ASSUME VersionsIInv, NEW s \in Starts,
           NEW new \in [phase : {"queued", "named", "started"}, named : 0 .. MaxVersions,
                       given : Guidance],
           start' = [start EXCEPT ![s] = new], UNCHANGED <<live, versions, edit>>,
           new.phase = "named" => new.named <= Len(versions),
           new.phase = "started" =>
               \E n \in new.named .. Len(versions) : new.given = GivenBy(n)
    PROVE  VersionsIInv'
<1> USE DEF VersionsIInv
<1>1. start'[s] = new /\ \A t \in Starts \ {s} : start'[t] = start[t]
  BY DEF VersionsTypeOK
<1>2. VersionsTypeOK'  BY DEF VersionsTypeOK
<1>3. (EditsAreTrue /\ OldAreDeleted /\ LatestSaysWhatRuns)'  BY EditsStay
<1>4. NamedExist'  BY <1>1 DEF NamedExist
<1>5. NeverOlderThanNamed'
  <2> SUFFICES ASSUME NEW t \in Starts, start'[t].phase = "started"
               PROVE  \E n \in start'[t].named .. Len(versions) : start'[t].given = GivenBy(n)
    BY DEF NeverOlderThanNamed, GivenBy, GivenTo
  <2>1. CASE t = s  BY <1>1, <2>1
  <2>2. CASE t # s  BY <1>1, <2>2 DEF NeverOlderThanNamed
  <2> QED  BY <2>1, <2>2
<1> QED  BY <1>2, <1>3, <1>4, <1>5

-----------------------------------------------------------------------------
\* The initial states have the invariant.
LEMMA VersionsInitIInv == VersionsInit => VersionsIInv
<1> SUFFICES ASSUME VersionsInit PROVE VersionsIInv  OBVIOUS
<1>1. NoProgrammeRule \in ProgrammeRow /\ NoProgrammeRule.state = "none"
      /\ NoProgrammeRule.old = FALSE
  BY DEF NoProgrammeRule, ProgrammeRow
<1>2. live \in [ProgrammeRules -> ProgrammeRow]  BY <1>1 DEF VersionsInit
<1>3. \A e \in Editors : ~edit[e].open  BY DEF VersionsInit
<1>4. versions = <<>> /\ Len(versions) = 0 /\ versions \in Seq(Snapshot)  BY DEF VersionsInit
<1>5. GivenTo(live) \in Guidance  BY <1>2, GivenType
<1>6. start \in [Starts -> [phase : {"queued", "named", "started"}, named : 0 .. MaxVersions,
                            given : Guidance]]
      /\ \A s \in Starts : start[s].phase = "queued"
  BY <1>5, VersionsAssumption DEF VersionsInit
<1>7. VersionsTypeOK
  BY <1>2, <1>3, <1>4, <1>6, VersionsAssumption DEF VersionsInit, VersionsTypeOK
<1>8. EditsAreTrue  BY <1>3 DEF EditsAreTrue
<1>9. OldAreDeleted  BY <1>1, <1>3 DEF VersionsInit, OldAreDeleted
<1>10. LatestSaysWhatRuns
  <2>1. {r \in ProgrammeRules : live[r].state \in {"active", "shadow"}} = {}
    BY <1>1 DEF VersionsInit
  <2>2. GivenTo(live) = [r \in {} |-> NoText]  BY <2>1 DEF GivenTo
  <2> QED  BY <1>4, <2>2 DEF LatestSaysWhatRuns, GivenBy
<1>11. NamedExist /\ NeverOlderThanNamed  BY <1>6 DEF NamedExist, NeverOlderThanNamed
<1> QED  BY <1>7, <1>8, <1>9, <1>10, <1>11 DEF VersionsIInv

\* One row written.
LEMMA OneWritten ==
    ASSUME VersionsIInv, NEW e \in Editors, NEW r \in ProgrammeRules, NEW row \in ProgrammeRow,
           row.old => row.state = "deleted", Write(e, One(r, row), FALSE)
    PROVE  VersionsIInv'
<1> DEFINE written == One(r, row)
<1>1. {r} \in SUBSET ProgrammeRules /\ written \in [{r} -> ProgrammeRow]  BY DEF One
<1>2. \A s \in {r} : written[s].old => written[s].state = "deleted"  BY DEF One
<1>3. Write(e, written, FALSE)  OBVIOUS
<1> HIDE DEF written
<1> QED  BY <1>1, <1>2, <1>3, Written

\* A version put back is a row, and no rule that runs is past its window.
LEMMA PutBackType ==
    ASSUME NEW was \in Snapshot, NEW r \in ProgrammeRules, live[r] \in ProgrammeRow,
           live[r].old => live[r].state = "deleted"
    PROVE  /\ PutBack(was, r) \in ProgrammeRow
           /\ PutBack(was, r).old => PutBack(was, r).state = "deleted"
<1>1. was[r].state \in RuleStates \cup {"none"} /\ was[r].text \in Texts \cup {NoText}
  BY DEF Snapshot
<1>2. live[r].old \in BOOLEAN  BY DEF ProgrammeRow
<1>3. CASE was[r].state # "none"
  <2> DEFINE old == was[r].state = "deleted" /\ live[r].old
  <2>1. PutBack(was, r) = [state |-> was[r].state, text |-> was[r].text, old |-> old]
    BY <1>3 DEF PutBack
  <2>2. old \in BOOLEAN /\ (old => was[r].state = "deleted")  BY <1>2
  <2> HIDE DEF old
  <2> QED  BY <1>1, <2>1, <2>2 DEF ProgrammeRow
<1>4. CASE was[r].state = "none" /\ live[r].state = "deleted"
  BY <1>4 DEF PutBack
<1>5. CASE was[r].state = "none" /\ live[r].state # "deleted"
  <2>1. PutBack(was, r) = [live[r] EXCEPT !.state = "deleted"]  BY <1>5 DEF PutBack
  <2> QED  BY <2>1 DEF ProgrammeRow, RuleStates
<1> QED  BY <1>3, <1>4, <1>5

\* Every step keeps it, when one editor writes at a time.
LEMMA VersionsStepIInv ==
    ASSUME OneEditor PROVE VersionsIInv /\ [VersionsNext]_versionsVars => VersionsIInv'
<1> SUFFICES ASSUME VersionsIInv, [VersionsNext]_versionsVars PROVE VersionsIInv'  OBVIOUS
<1> VersionsTypeOK /\ OldAreDeleted  BY DEF VersionsIInv
<1>rows. \A r \in ProgrammeRules : live[r] \in ProgrammeRow  BY DEF VersionsTypeOK
<1>1. CASE UNCHANGED versionsVars
  <2>1. (EditsAreTrue /\ OldAreDeleted /\ LatestSaysWhatRuns)'
    BY <1>1, EditsStay DEF VersionsIInv, versionsVars
  <2>2. VersionsTypeOK'  BY <1>1 DEF VersionsTypeOK, versionsVars
  <2>3. NamedExist'  BY <1>1 DEF VersionsIInv, NamedExist, versionsVars
  <2>4. NeverOlderThanNamed'
    BY <1>1 DEF VersionsIInv, NeverOlderThanNamed, GivenTo, GivenBy, versionsVars
  <2> QED  BY <2>1, <2>2, <2>3, <2>4 DEF VersionsIInv
<1>2. CASE \E e \in Editors, r \in ProgrammeRules, text \in Texts : CreateProgrammeRule(e, r, text)
  <2> PICK e \in Editors, r \in ProgrammeRules, text \in Texts : CreateProgrammeRule(e, r, text)
    BY <1>2
  <2> DEFINE row == [state |-> "active", text |-> text, old |-> FALSE]
  <2>1. row \in ProgrammeRow /\ ~row.old  BY DEF ProgrammeRow, RuleStates
  <2>2. Write(e, One(r, row), FALSE)  BY DEF CreateProgrammeRule
  <2> HIDE DEF row
  <2> QED  BY <2>1, <2>2, OneWritten
<1>3. CASE \E e \in Editors, r \in ProgrammeRules, text \in Texts : EditProgrammeRule(e, r, text)
  <2> PICK e \in Editors, r \in ProgrammeRules, text \in Texts : EditProgrammeRule(e, r, text)
    BY <1>3
  <2> DEFINE row == [live[r] EXCEPT !.text = text]
  <2>1. row \in ProgrammeRow /\ row.old = live[r].old /\ row.state = live[r].state
    BY <1>rows DEF ProgrammeRow
  <2>2. row.old => row.state = "deleted"  BY <2>1 DEF OldAreDeleted
  <2>3. Write(e, One(r, row), FALSE)  BY DEF EditProgrammeRule
  <2> HIDE DEF row
  <2> QED  BY <2>1, <2>2, <2>3, OneWritten
<1>4. CASE \E e \in Editors, r \in ProgrammeRules, to \in {"active", "disabled", "deleted"} :
               MoveProgrammeRule(e, r, to)
  <2> PICK e \in Editors, r \in ProgrammeRules, to \in {"active", "disabled", "deleted"} :
               MoveProgrammeRule(e, r, to)
    BY <1>4
  <2> DEFINE row == [state |-> to, text |-> live[r].text, old |-> FALSE]
  <2>1. row \in ProgrammeRow /\ ~row.old  BY <1>rows DEF ProgrammeRow, RuleStates
  <2>2. Write(e, One(r, row), FALSE)  BY DEF MoveProgrammeRule
  <2> HIDE DEF row
  <2> QED  BY <2>1, <2>2, OneWritten
<1>5. CASE \E e \in Editors, n \in 1 .. MaxVersions : Revert(e, n)
  <2> PICK e \in Editors, n \in 1 .. MaxVersions : Revert(e, n)  BY <1>5
  <2> DEFINE S == {s \in ProgrammeRules : live[s].state # "none"}
             written == [r \in S |-> PutBack(versions[n], r)]
  <2>1. n \in DOMAIN versions /\ Write(e, written, TRUE)  BY DEF Revert
  <2>2. versions[n] \in Snapshot  BY <2>1 DEF VersionsTypeOK
  <2>3. \A r \in S : /\ PutBack(versions[n], r) \in ProgrammeRow
                     /\ PutBack(versions[n], r).old => PutBack(versions[n], r).state = "deleted"
    BY <1>rows, <2>2, PutBackType DEF OldAreDeleted
  <2>4. S \in SUBSET ProgrammeRules  OBVIOUS
  <2>5. written \in [S -> ProgrammeRow] /\ \A r \in S : written[r].old => written[r].state = "deleted"
    BY <2>3
  <2> HIDE DEF S, written
  <2> QED  BY <2>1, <2>4, <2>5, Written
<1>6. CASE \E e \in Editors : Commit(e)  BY <1>6, EditCommitted
<1>7. CASE \E e \in Editors : RollBack(e)
  <2> PICK e \in Editors : RollBack(e)  BY <1>7
  <2>1. /\ DOMAIN edit' = Editors /\ ~edit'[e].open
        /\ \A f \in Editors \ {e} : edit'[f] = edit[f]
        /\ UNCHANGED <<live, versions, start>>
    BY DEF RollBack, VersionsTypeOK
  <2>2. \A f \in Editors : edit'[f].open => edit'[f] = edit[f] /\ edit[f].open  BY <2>1
  <2>3. VersionsTypeOK'  BY <2>1, <2>2 DEF VersionsTypeOK
  <2>4. EditsAreTrue'
    <3> SUFFICES ASSUME NEW f \in Editors, edit'[f].open
                 PROVE  GivenTo(edit'[f].snapshot) = GivenTo(Merged(f)')
      BY DEF EditsAreTrue, GivenTo
    <3>1. Merged(f)' = Merged(f)  BY <2>1, <2>2 DEF Merged
    <3> QED  BY <2>2, <3>1 DEF VersionsIInv, EditsAreTrue
  <2>5. OldAreDeleted'  BY <2>1, <2>2 DEF OldAreDeleted
  <2>6. (LatestSaysWhatRuns /\ NamedExist /\ NeverOlderThanNamed)'
    BY <2>1 DEF VersionsIInv, LatestSaysWhatRuns, NamedExist, NeverOlderThanNamed, GivenTo, GivenBy
  <2> QED  BY <2>3, <2>4, <2>5, <2>6 DEF VersionsIInv
<1>8. CASE \E r \in ProgrammeRules : GrowOld(r)
  <2> PICK r \in ProgrammeRules : GrowOld(r)  BY <1>8
  <2> DEFINE row == [live[r] EXCEPT !.old = TRUE]
  <2>1. row \in ProgrammeRow /\ row.state = "deleted" /\ live[r].state = "deleted"
    BY <1>rows DEF GrowOld, ProgrammeRow
  <2>2. live' = [live EXCEPT ![r] = row]  BY DEF GrowOld
  <2> HIDE DEF row
  <2> QED  BY <2>1, <2>2, Faded DEF GrowOld
<1>9. CASE \E r \in ProgrammeRules : PurgeProgrammeRule(r)
  <2> PICK r \in ProgrammeRules : PurgeProgrammeRule(r)  BY <1>9
  <2> DEFINE row == [live[r] EXCEPT !.text = NoText]
  <2>1. live[r].state = "deleted"  BY DEF PurgeProgrammeRule, OldAreDeleted
  <2>2. row \in ProgrammeRow /\ row.state = "deleted"
    BY <1>rows, <2>1 DEF ProgrammeRow
  <2>3. live' = [live EXCEPT ![r] = row]  BY DEF PurgeProgrammeRule
  <2> HIDE DEF row
  <2> QED  BY <2>1, <2>2, <2>3, Faded DEF PurgeProgrammeRule
<1>start. \A s \in Starts : /\ start[s].phase \in {"queued", "named", "started"}
                            /\ start[s].named \in 0 .. MaxVersions
                            /\ start[s].given \in Guidance
                            /\ start[s] \in [phase : {"queued", "named", "started"},
                                             named : 0 .. MaxVersions, given : Guidance]
  BY DEF VersionsTypeOK
<1>10. CASE \E s \in Starts : NameVersion(s)
  <2> PICK s \in Starts : NameVersion(s)  BY <1>10
  <2> DEFINE new == [start[s] EXCEPT !.phase = "named", !.named = Len(versions)]
  <2>1. Len(versions) \in 0 .. MaxVersions /\ Len(versions) <= Len(versions)
    BY VersionsAssumption DEF VersionsTypeOK
  <2>2. /\ new \in [phase : {"queued", "named", "started"}, named : 0 .. MaxVersions,
                    given : Guidance]
        /\ new.phase = "named" /\ new.named = Len(versions)
    BY <1>start, <2>1
  <2>3. start' = [start EXCEPT ![s] = new]  BY DEF NameVersion
  <2> HIDE DEF new
  <2> QED  BY <2>1, <2>2, <2>3, Started, ZenonT(60) DEF NameVersion
<1>11. CASE \E s \in Starts : LoadGuidance(s)
  <2> PICK s \in Starts : LoadGuidance(s)  BY <1>11
  <2> DEFINE new == [start[s] EXCEPT !.phase = "started", !.given = GivenTo(live)]
  <2>1. GivenTo(live) \in Guidance  BY GivenType DEF VersionsTypeOK
  <2>2. /\ new \in [phase : {"queued", "named", "started"}, named : 0 .. MaxVersions,
                    given : Guidance]
        /\ new.phase = "started" /\ new.named = start[s].named /\ new.given = GivenTo(live)
    BY <1>start, <2>1
  <2>3. start' = [start EXCEPT ![s] = new]  BY DEF LoadGuidance
  <2> HIDE DEF new
  <2>4. start[s].named <= Len(versions) /\ start[s].named \in Nat /\ Len(versions) \in Nat
    BY <1>start DEF LoadGuidance, VersionsIInv, NamedExist, VersionsTypeOK
  <2>5. new.given = GivenBy(Len(versions))  BY <2>2 DEF VersionsIInv, LatestSaysWhatRuns
  <2>6. Len(versions) \in new.named .. Len(versions)  BY <2>2, <2>4
  <2>7. UNCHANGED <<live, versions, edit>>  BY DEF LoadGuidance
  <2>8. new.phase = "named" => new.named <= Len(versions)  BY <2>2
  <2>9. new.phase = "started" =>
            \E n \in new.named .. Len(versions) : new.given = GivenBy(n)  BY <2>5, <2>6
  <2>10. new \in [phase : {"queued", "named", "started"}, named : 0 .. MaxVersions,
                  given : Guidance]
    BY <2>2
  <2> QED  BY <2>3, <2>7, <2>8, <2>9, <2>10, Started, ZenonT(60)
<1>12. CASE \E s \in Starts : TryAgain(s)
  <2> PICK s \in Starts : TryAgain(s)  BY <1>12
  <2> DEFINE new == [start[s] EXCEPT !.phase = "queued"]
  <2>1. /\ new \in [phase : {"queued", "named", "started"}, named : 0 .. MaxVersions,
                    given : Guidance]
        /\ new.phase = "queued"
    BY <1>start
  <2>2. start' = [start EXCEPT ![s] = new]  BY DEF TryAgain
  <2> HIDE DEF new
  <2> QED  BY <2>1, <2>2, Started DEF TryAgain
<1> QED
  BY <1>1, <1>2, <1>3, <1>4, <1>5, <1>6, <1>7, <1>8, <1>9, <1>10, <1>11, <1>12 DEF VersionsNext

-----------------------------------------------------------------------------
\* The inductive invariant of the versions holds in every reachable state.
THEOREM VersionsInvariance == ASSUME OneEditor PROVE VersionsSpec => []VersionsIInv
<1>1. VersionsInit => VersionsIInv  BY VersionsInitIInv
<1>2. VersionsIInv /\ [VersionsNext]_versionsVars => VersionsIInv'  BY VersionsStepIInv
<1> QED  BY <1>1, <1>2, PTL DEF VersionsSpec

\* Every reachable state is well typed.
THEOREM VersionsTypeCorrect == ASSUME OneEditor PROVE VersionsSpec => []VersionsTypeOK
<1>1. VersionsIInv => VersionsTypeOK  BY DEF VersionsIInv
<1> QED  BY <1>1, VersionsInvariance, PTL

\* The latest version is what a run would be given, through reverts, purges and requests
\* that are rolled back (db/versions.py), for any number of rules and versions.
THEOREM LatestIsTrue == ASSUME OneEditor PROVE VersionsSpec => []LatestSaysWhatRuns
<1>1. VersionsIInv => LatestSaysWhatRuns  BY DEF VersionsIInv
<1> QED  BY <1>1, VersionsInvariance, PTL

\* A run is given the rules of a recorded version no older than the one it names, since
\* execute_run reads the number before the rules and versions are only ever added.
THEOREM NamesAreNotAhead == ASSUME OneEditor PROVE VersionsSpec => []NeverOlderThanNamed
<1>1. VersionsIInv => NeverOlderThanNamed  BY DEF VersionsIInv
<1> QED  BY <1>1, VersionsInvariance, PTL

-----------------------------------------------------------------------------
(***************************************************************************)
(* Proofs about Accounts, for any users and any threshold.                 *)
(*                                                                         *)
(* That an administrator remains needs to know what a request that was let *)
(* through still relies on when it commits: that somebody else may         *)
(* administer. One request at a time, nobody takes that away in between.   *)
(***************************************************************************)
\* Whoever may administer now.
Administers(u) == account[u].exists /\ account[u].admin /\ account[u].active

\* Before the first administrator is seeded there is nobody and nothing is asked.
NobodyBeforeBootstrap ==
    ~account[Bootstrap].exists =>
        /\ \A u \in Users : ~account[u].exists
        /\ \A q \in Screens : ~screen[q].open

\* A request that takes something from an administrator relies on another one.
RequestsRelyOnAnother ==
    \A q \in Screens : screen[q].open =>
        /\ account[screen[q].user].exists
        /\ ~screen[q].to /\ account[screen[q].user].admin =>
              \E v \in Users : v # screen[q].user /\ Administers(v)

AccountsIInv == /\ AccountsTypeOK /\ NobodyBeforeBootstrap
        /\ SomeAdminRemains /\ RequestsRelyOnAnother

OneScreen == \A p, q \in Screens : p = q

\* What of an account decides who may administer.
Same(row, new) ==
    new.exists = row.exists /\ new.admin = row.admin /\ new.active = row.active

-----------------------------------------------------------------------------
(* Types. *)

\* The accounts are typed initially.
LEMMA InitTypes == AccountsInit => AccountsTypeOK
<1> SUFFICES ASSUME AccountsInit PROVE AccountsTypeOK  OBVIOUS
<1>1. NoAccount \in AnAccount
  BY AccountsAssumption DEF NoAccount, AnAccount
<1> QED  BY <1>1 DEF AccountsInit, AccountsTypeOK

\* A new account is one.
LEMMA NewAccountType ==
    ASSUME NEW admin \in BOOLEAN
    PROVE  /\ NewAccount(admin) \in AnAccount
           /\ NewAccount(admin).exists /\ NewAccount(admin).active
           /\ NewAccount(admin).admin = admin
BY AccountsAssumption DEF NewAccount, AnAccount

\* The fields an action may set keep an account what it is and who it is.
LEMMA RowTypes ==
    ASSUME NEW row \in AnAccount, NEW b \in BOOLEAN, NEW n \in 0 .. LockAfter + 1
    PROVE  /\ [row EXCEPT !.failed = n, !.locked = b] \in AnAccount
           /\ Same(row, [row EXCEPT !.failed = n, !.locked = b])
           /\ [row EXCEPT !.locked = b] \in AnAccount
           /\ Same(row, [row EXCEPT !.locked = b])
BY DEF AnAccount, Same

\* What an open request asks.
AnAsk == [open : {TRUE}, user : Users, column : {"active", "admin"}, to : BOOLEAN,
          was : BOOLEAN]

LEMMA OpenTypes ==
    ASSUME AccountsTypeOK, NEW q \in Screens, screen[q].open
    PROVE  screen[q] \in AnAsk
<1>1. CASE screen[q] = Nothing
  <2>1. screen[q].open = FALSE  BY <1>1 DEF Nothing
  <2> QED  BY <2>1
<1> QED  BY <1>1 DEF AccountsTypeOK, AnAsk

\* What a commit makes of an account.
Decided(row, ask) ==
    IF ask.to = ask.was THEN row
    ELSE IF ask.column = "active" THEN [row EXCEPT !.active = ask.to]
    ELSE [row EXCEPT !.admin = ask.to]

LEMMA DecidedType ==
    ASSUME NEW row \in AnAccount, NEW ask \in AnAsk
    PROVE  LET new == Decided(row, ask) IN
           /\ new \in AnAccount /\ new.exists = row.exists
           /\ new.admin = row.admin \/ (new.admin = ask.to /\ new.active = row.active)
           /\ new.active = row.active \/ (new.active = ask.to /\ new.admin = row.admin)
<1>1. ask.to \in BOOLEAN /\ ask.was \in BOOLEAN /\ ask.column \in {"active", "admin"}
  BY DEF AnAsk
<1>3. CASE ask.to = ask.was  BY <1>3 DEF Decided
<1>4. CASE ask.to # ask.was /\ ask.column = "active"
  <2>1. Decided(row, ask) = [row EXCEPT !.active = ask.to]  BY <1>4 DEF Decided
  <2>2. LET new == [row EXCEPT !.active = ask.to] IN
        /\ new \in AnAccount /\ new.exists = row.exists
        /\ new.admin = row.admin /\ new.active = ask.to
    BY <1>1 DEF AnAccount
  <2> QED  BY <2>1, <2>2
<1>5. CASE ask.to # ask.was /\ ask.column # "active"
  <2>1. Decided(row, ask) = [row EXCEPT !.admin = ask.to]  BY <1>5 DEF Decided
  <2>2. LET new == [row EXCEPT !.admin = ask.to] IN
        /\ new \in AnAccount /\ new.exists = row.exists
        /\ new.active = row.active /\ new.admin = ask.to
    BY <1>1 DEF AnAccount
  <2> QED  BY <2>1, <2>2
<1> QED  BY <1>3, <1>4, <1>5

-----------------------------------------------------------------------------
(* What keeps the invariant. *)

\* One account changes in what does not decide who may administer.
LEMMA AccountsKept ==
    ASSUME AccountsIInv, NEW u \in Users, NEW new \in AnAccount, Same(account[u], new),
           account' = [account EXCEPT ![u] = new],
           signedIn' \in [Users -> {"none", "one", "more"}], screen' = screen
    PROVE  AccountsIInv'
<1> USE DEF AccountsIInv
<1>1. AccountsTypeOK'  BY DEF AccountsTypeOK
<1>2. \A v \in Users : Same(account[v], account'[v])
  BY DEF Same, AccountsTypeOK
<1>3. \A v \in Users : Administers(v) => Administers(v)'
  BY <1>2 DEF Same, Administers
<1>4. \A q \in Screens : screen[q].open => screen[q].user \in Users
  BY OpenTypes DEF AnAsk
<1>5. NobodyBeforeBootstrap'
  BY <1>2, AccountsAssumption DEF NobodyBeforeBootstrap, Same
<1>6. SomeAdminRemains'
  BY <1>2, AccountsAssumption DEF SomeAdminRemains, Same
<1>7. RequestsRelyOnAnother'
  <2> SUFFICES ASSUME NEW q \in Screens, screen[q].open
               PROVE  /\ account'[screen[q].user].exists
                      /\ ~screen[q].to /\ account'[screen[q].user].admin =>
                            \E v \in Users : v # screen[q].user /\ Administers(v)'
    BY DEF RequestsRelyOnAnother
  <2>1. Same(account[screen[q].user], account'[screen[q].user])  BY <1>2, <1>4
  <2>2. /\ account[screen[q].user].exists
        /\ ~screen[q].to /\ account[screen[q].user].admin =>
              \E v \in Users : v # screen[q].user /\ Administers(v)
    BY DEF RequestsRelyOnAnother
  <2> QED  BY <1>3, <2>1, <2>2 DEF Same
<1> QED  BY <1>1, <1>5, <1>6, <1>7

\* Only sessions change.
LEMMA KeptAccounts ==
    ASSUME AccountsIInv, UNCHANGED <<account, screen>>,
           signedIn' \in [Users -> {"none", "one", "more"}]
    PROVE  AccountsIInv'
BY DEF AccountsIInv, AccountsTypeOK, NobodyBeforeBootstrap, SomeAdminRemains,
       RequestsRelyOnAnother, Administers

\* An account comes to be, where there was none or nobody administers.
LEMMA Created ==
    ASSUME AccountsIInv, NEW u \in Users, NEW admin \in BOOLEAN,
           account' = [account EXCEPT ![u] = NewAccount(admin)],
           ~account[u].exists,
           \/ account[Bootstrap].exists
           \/ u = Bootstrap /\ admin,
           UNCHANGED <<signedIn, screen>>
    PROVE  AccountsIInv'
<1> USE DEF AccountsIInv
<1>1. AccountsTypeOK'  BY NewAccountType DEF AccountsTypeOK
<1>2. /\ account'[u] = NewAccount(admin)
      /\ \A v \in Users \ {u} : account'[v] = account[v]
  BY DEF AccountsTypeOK
<1>3. account'[Bootstrap].exists
  BY <1>2, NewAccountType, AccountsAssumption
<1>4. \A v \in Users : account[v].exists => v # u /\ account'[v] = account[v]
  BY <1>2
<1>5. NobodyBeforeBootstrap'  BY <1>3 DEF NobodyBeforeBootstrap
<1>6. SomeAdminRemains'
  <2>1. CASE account[Bootstrap].exists
    BY <1>4, <2>1 DEF SomeAdminRemains
  <2>2. CASE u = Bootstrap /\ admin
    BY <1>2, <2>2, NewAccountType, AccountsAssumption DEF SomeAdminRemains
  <2> QED  BY <2>1, <2>2
<1>7. RequestsRelyOnAnother'
  <2>1. \A v \in Users : Administers(v) => Administers(v)'  BY <1>4 DEF Administers
  <2>2. \A q \in Screens : screen[q].open => screen[q].user \in Users
    BY OpenTypes DEF AnAsk
  <2> SUFFICES ASSUME NEW q \in Screens, screen[q].open
               PROVE  /\ account'[screen[q].user].exists
                      /\ ~screen[q].to /\ account'[screen[q].user].admin =>
                            \E v \in Users : v # screen[q].user /\ Administers(v)'
    BY DEF RequestsRelyOnAnother
  <2>3. /\ account[screen[q].user].exists
        /\ ~screen[q].to /\ account[screen[q].user].admin =>
              \E v \in Users : v # screen[q].user /\ Administers(v)
    BY DEF RequestsRelyOnAnother
  <2>4. account'[screen[q].user] = account[screen[q].user]  BY <1>4, <2>2, <2>3
  <2> QED  BY <2>1, <2>3, <2>4
<1> QED  BY <1>1, <1>5, <1>6, <1>7

\* A request asks for what the handler lets through.
LEMMA Asked ==
    ASSUME AccountsIInv, NEW q \in Screens, NEW u \in Users, NEW to \in BOOLEAN,
           NEW column \in {"active", "admin"}, NEW was \in BOOLEAN,
           account[u].exists,
           ~to /\ account[u].admin => OtherActiveAdmins(u) # {},
           screen' = [screen EXCEPT ![q] = [open |-> TRUE, user |-> u, column |-> column,
                                            to |-> to, was |-> was]],
           UNCHANGED <<account, signedIn>>
    PROVE  AccountsIInv'
<1> USE DEF AccountsIInv
<1> DEFINE ask == [open |-> TRUE, user |-> u, column |-> column, to |-> to, was |-> was]
<1>1. /\ DOMAIN screen' = Screens
      /\ screen'[q] = ask
      /\ \A p \in Screens \ {q} : screen'[p] = screen[p]
  BY DEF AccountsTypeOK
<1>2. ask \in [open : {TRUE}, user : Users, column : {"active", "admin"}, to : BOOLEAN,
               was : BOOLEAN]
      /\ ask.user = u /\ ask.to = to
  OBVIOUS
<1> HIDE DEF ask
<1>3. AccountsTypeOK'  BY <1>1, <1>2 DEF AccountsTypeOK
<1>4. NobodyBeforeBootstrap'  BY DEF NobodyBeforeBootstrap
<1>5. SomeAdminRemains'  BY DEF SomeAdminRemains
<1>6. RequestsRelyOnAnother'
  <2> SUFFICES ASSUME NEW p \in Screens, screen'[p].open
               PROVE  /\ account[screen'[p].user].exists
                      /\ ~screen'[p].to /\ account[screen'[p].user].admin =>
                            \E v \in Users : v # screen'[p].user /\ Administers(v)
    BY DEF RequestsRelyOnAnother, Administers
  <2>1. CASE p = q
    BY <1>1, <1>2, <2>1 DEF OtherActiveAdmins, Administers
  <2>2. CASE p # q
    BY <1>1, <2>2 DEF RequestsRelyOnAnother
  <2> QED  BY <2>1, <2>2
<1> QED  BY <1>3, <1>4, <1>5, <1>6

\* A request ends without writing.
LEMMA Ended ==
    ASSUME AccountsIInv, NEW q \in Screens, screen' = [screen EXCEPT ![q] = Nothing],
           UNCHANGED <<account, signedIn>>
    PROVE  AccountsIInv'
<1> USE DEF AccountsIInv
<1>1. /\ DOMAIN screen' = Screens
      /\ screen'[q] = Nothing /\ ~Nothing.open
      /\ \A p \in Screens \ {q} : screen'[p] = screen[p]
  BY DEF AccountsTypeOK, Nothing
<1>2. AccountsTypeOK'  BY <1>1 DEF AccountsTypeOK
<1>3. NobodyBeforeBootstrap'  BY <1>1 DEF NobodyBeforeBootstrap
<1>4. SomeAdminRemains'  BY DEF SomeAdminRemains
<1>5. RequestsRelyOnAnother'  BY <1>1 DEF RequestsRelyOnAnother, Administers
<1> QED  BY <1>2, <1>3, <1>4, <1>5

\* A request commits, and no other is open.
LEMMA ScreenCommitted ==
    ASSUME AccountsIInv, OneScreen, NEW q \in Screens, ScreenCommit(q)
    PROVE  AccountsIInv'
<1> USE DEF AccountsIInv
<1> DEFINE ask == screen[q]
           row == account[ask.user]
           new == Decided(row, ask)
<1>0. ask.open /\ ask \in AnAsk  BY OpenTypes DEF ScreenCommit
<1>1. /\ ask.open /\ ask.user \in Users /\ ask.to \in BOOLEAN /\ ask.was \in BOOLEAN
      /\ ask.column \in {"active", "admin"}
  BY <1>0 DEF AnAsk
<1>2. row \in AnAccount  BY <1>1 DEF AccountsTypeOK
<1>3. /\ new \in AnAccount /\ new.exists = row.exists
      /\ (new.admin = row.admin \/ (new.admin = ask.to /\ new.active = row.active))
      /\ (new.active = row.active \/ (new.active = ask.to /\ new.admin = row.admin))
  BY <1>0, <1>2, DecidedType
<1>4. account' = [account EXCEPT ![ask.user] = new]
  BY <1>1 DEF ScreenCommit, AccountsTypeOK, Decided
<1>5. /\ account'[ask.user] = new
      /\ \A v \in Users \ {ask.user} : account'[v] = account[v]
  BY <1>1, <1>4 DEF AccountsTypeOK
<1>6. /\ DOMAIN screen' = Screens /\ \A p \in Screens : screen'[p] = Nothing
      /\ ~Nothing.open
  BY DEF ScreenCommit, AccountsTypeOK, Nothing, OneScreen
<1>7. signedIn' \in [Users -> {"none", "one", "more"}]
  BY <1>1 DEF ScreenCommit, AccountsTypeOK
<1>8. row.exists /\ (~ask.to /\ row.admin =>
                       \E v \in Users : v # ask.user /\ Administers(v))
  BY <1>1 DEF RequestsRelyOnAnother
<1> HIDE DEF ask, row, new
<1>9. account[Bootstrap].exists  BY <1>1, <1>8 DEF NobodyBeforeBootstrap, row
<1>10. \E u \in Users : Administers(u)  BY <1>9 DEF SomeAdminRemains, Administers
<1>11. AccountsTypeOK'
  BY <1>1, <1>3, <1>4, <1>6, <1>7 DEF AccountsTypeOK
<1>12. account'[Bootstrap].exists
  BY <1>3, <1>5, <1>8, <1>9, AccountsAssumption DEF row
<1>13. NobodyBeforeBootstrap'  BY <1>12 DEF NobodyBeforeBootstrap
<1>14. SomeAdminRemains'
  <2> SUFFICES \E u \in Users : Administers(u)'  BY DEF SomeAdminRemains, Administers
  <2>1. \A v \in Users : v # ask.user /\ Administers(v) => Administers(v)'
    BY <1>5 DEF Administers
  <2>2. CASE \E v \in Users : v # ask.user /\ Administers(v)  BY <2>1, <2>2
  <2>3. CASE ~\E v \in Users : v # ask.user /\ Administers(v)
    <3>1. Administers(ask.user)  BY <1>10, <2>3
    <3>2. row.admin /\ row.active  BY <3>1 DEF Administers, row
    <3>3. ask.to = TRUE  BY <1>1, <1>8, <2>3, <3>2
    <3>4. new.exists /\ new.admin /\ new.active  BY <1>3, <1>8, <3>2, <3>3
    <3> QED  BY <1>1, <1>5, <3>4 DEF Administers
  <2> QED  BY <2>2, <2>3
<1>15. RequestsRelyOnAnother'  BY <1>6 DEF RequestsRelyOnAnother
<1> QED  BY <1>11, <1>13, <1>14, <1>15

-----------------------------------------------------------------------------
\* The initial states have the invariant.
LEMMA AccountsInitIInv == AccountsInit => AccountsIInv
<1> SUFFICES ASSUME AccountsInit PROVE AccountsIInv  OBVIOUS
<1>1. ~NoAccount.exists /\ ~Nothing.open  BY DEF NoAccount, Nothing
<1>2. ~account[Bootstrap].exists  BY <1>1, AccountsAssumption DEF AccountsInit
<1>3. NobodyBeforeBootstrap  BY <1>1 DEF AccountsInit, NobodyBeforeBootstrap
<1>4. SomeAdminRemains  BY <1>2 DEF SomeAdminRemains
<1>5. RequestsRelyOnAnother  BY <1>1 DEF AccountsInit, RequestsRelyOnAnother
<1> QED  BY <1>3, <1>4, <1>5, InitTypes DEF AccountsIInv

\* Every step keeps it, when the users screen serves one request at a time.
LEMMA AccountsStepIInv ==
    ASSUME OneScreen PROVE AccountsIInv /\ [AccountsNext]_accountsVars => AccountsIInv'
<1> SUFFICES ASSUME AccountsIInv, [AccountsNext]_accountsVars PROVE AccountsIInv'  OBVIOUS
<1> AccountsTypeOK  BY DEF AccountsIInv
<1>1. CASE UNCHANGED accountsVars
  BY <1>1 DEF AccountsIInv, AccountsTypeOK, NobodyBeforeBootstrap, SomeAdminRemains,
              RequestsRelyOnAnother, Administers, accountsVars
<1>2. CASE EnsureBootstrap
  <2>1. ~account[Bootstrap].exists
    BY <1>2 DEF EnsureBootstrap, AccountsIInv, SomeAdminRemains
  <2> QED  BY <1>2, <2>1, Created, AccountsAssumption DEF EnsureBootstrap
<1>3. CASE \E u \in Users, admin \in BOOLEAN : CreateUser(u, admin)
  BY <1>3, Created DEF CreateUser
<1>4. CASE \E q \in Screens, u \in Users, to \in BOOLEAN : AskActive(q, u, to)
  <2> PICK q \in Screens, u \in Users, to \in BOOLEAN : AskActive(q, u, to)  BY <1>4
  <2>1. account[u].active \in BOOLEAN  BY DEF AccountsTypeOK, AnAccount
  <2> QED  BY <2>1, Asked DEF AskActive
<1>5. CASE \E q \in Screens, u \in Users, to \in BOOLEAN : AskRoles(q, u, to)
  <2> PICK q \in Screens, u \in Users, to \in BOOLEAN : AskRoles(q, u, to)  BY <1>5
  <2>1. account[u].admin \in BOOLEAN  BY DEF AccountsTypeOK, AnAccount
  <2> QED  BY <2>1, Asked DEF AskRoles
<1>6. CASE \E q \in Screens : ScreenCommit(q)  BY <1>6, ScreenCommitted
<1>7. CASE \E q \in Screens : ScreenFails(q)  BY <1>7, Ended DEF ScreenFails
<1>8. CASE \E u \in Users : \/ ResetPassword(u) \/ Login(u) \/ LoginFails(u)
                            \/ LockEnds(u) \/ ChangePassword(u)
  <2> PICK u \in Users : \/ ResetPassword(u) \/ Login(u) \/ LoginFails(u)
                         \/ LockEnds(u) \/ ChangePassword(u)
    BY <1>8
  <2>1. signedIn' \in [Users -> {"none", "one", "more"}] /\ screen' = screen
    BY DEF AccountsTypeOK, ResetPassword, Login, LoginFails, LockEnds, ChangePassword,
           AnotherSession
  <2>2. account[u] \in AnAccount  BY DEF AccountsTypeOK
  <2>3. 0 \in 0 .. LockAfter + 1  BY AccountsAssumption
  <2>4. \E new \in AnAccount : Same(account[u], new) /\ account' = [account EXCEPT ![u] = new]
    <3>1. CASE ResetPassword(u)
      <4> DEFINE new == [account[u] EXCEPT !.mustChange = TRUE, !.failed = 0, !.locked = FALSE]
      <4>1. new \in AnAccount /\ Same(account[u], new)
        BY <2>2, <2>3 DEF AnAccount, Same
      <4> QED  BY <3>1, <4>1 DEF ResetPassword
    <3>2. CASE Login(u)
      <4> DEFINE new == [account[u] EXCEPT !.failed = 0, !.locked = FALSE]
      <4>1. new \in AnAccount /\ Same(account[u], new)  BY <2>2, <2>3, RowTypes
      <4> QED  BY <3>2, <4>1 DEF Login
    <3>3. CASE LoginFails(u)
      <4> DEFINE failed == IF account[u].failed > LockAfter THEN account[u].failed
                           ELSE account[u].failed + 1
                 new == [account[u] EXCEPT !.failed = failed, !.locked = failed >= LockAfter]
      <4>1. failed \in 0 .. LockAfter + 1
        BY <2>2, AccountsAssumption DEF AnAccount
      <4>2. account' = [account EXCEPT ![u] = new]  BY <3>3 DEF LoginFails
      <4>3. (failed >= LockAfter) \in BOOLEAN  OBVIOUS
      <4> HIDE DEF failed
      <4>4. new \in AnAccount /\ Same(account[u], new)
        BY <2>2, <4>1, <4>3, RowTypes
      <4> QED  BY <4>2, <4>4
    <3>4. CASE LockEnds(u)
      <4> DEFINE new == [account[u] EXCEPT !.locked = FALSE]
      <4>1. new \in AnAccount /\ Same(account[u], new)  BY <2>2, <2>3, RowTypes
      <4> QED  BY <3>4, <4>1 DEF LockEnds
    <3>5. CASE ChangePassword(u)
      <4> DEFINE new == [account[u] EXCEPT !.mustChange = FALSE, !.failed = 0, !.locked = FALSE]
      <4>1. new \in AnAccount /\ Same(account[u], new)
        BY <2>2, <2>3 DEF AnAccount, Same
      <4> QED  BY <3>5, <4>1, ZenonT(60) DEF ChangePassword
    <3> QED  BY <3>1, <3>2, <3>3, <3>4, <3>5
  <2> QED  BY <2>1, <2>4, AccountsKept
<1>9. CASE \E u \in Users : SessionEnds(u)
  BY <1>9, KeptAccounts DEF SessionEnds, AccountsTypeOK
<1> QED
  BY <1>1, <1>2, <1>3, <1>4, <1>5, <1>6, <1>7, <1>8, <1>9 DEF AccountsNext

-----------------------------------------------------------------------------
\* The inductive invariant of the accounts holds in every reachable state.
THEOREM AccountsInvariance == ASSUME OneScreen PROVE AccountsSpec => []AccountsIInv
<1>1. AccountsInit => AccountsIInv  BY AccountsInitIInv
<1>2. AccountsIInv /\ [AccountsNext]_accountsVars => AccountsIInv'  BY AccountsStepIInv
<1> QED  BY <1>1, <1>2, PTL DEF AccountsSpec

\* Every reachable state is well typed.
THEOREM AccountsTypeCorrect == ASSUME OneScreen PROVE AccountsSpec => []AccountsTypeOK
<1>1. AccountsIInv => AccountsTypeOK  BY DEF AccountsIInv
<1> QED  BY <1>1, AccountsInvariance, PTL

\* Somebody may always administer, once anybody could: the handlers of users.py refuse
\* what would leave nobody, for any number of users, when their requests do not overlap.
THEOREM AnAdminRemains == ASSUME OneScreen PROVE AccountsSpec => []SomeAdminRemains
<1>1. AccountsIInv => SomeAdminRemains  BY DEF AccountsIInv
<1> QED  BY <1>1, AccountsInvariance, PTL

-----------------------------------------------------------------------------
(***************************************************************************)
(* Proofs about ModelCalls, for any callers, prompts, sizes and budget.    *)
(*                                                                         *)
(* The budget is asked about when a call begins and not between its sends, *)
(* so the argument has to say how much a call under way has spent already: *)
(* no more than one send for every attempt it is past.                     *)
(***************************************************************************)
\* Every post has its record but for the one a refused schema wasted.
PostsHaveRecords ==
    \A c \in Callers : log[c].posts = log[c].records + (IF log[c].refused THEN 1 ELSE 0)

\* What may be spent when a call is at an attempt, and when none is under way.
Allowance(a) ==
    IF a.phase = "sending" /\ a.attempt = 0 THEN Budget
    ELSE IF a.phase = "sending" THEN Budget + MaxSize
    ELSE Budget + 2 * MaxSize

SpentSoFar == \A c \in Callers : log[c].tokens < Allowance(call[c])

CallsIInv == CallsTypeOK /\ PostsHaveRecords /\ SpentSoFar

-----------------------------------------------------------------------------
(* Lemmas about a send. *)

\* A send adds a record, its tokens, and a post more when the schema is refused.
LEMMA LoggedType ==
    ASSUME NEW c \in Callers, log[c] \in ALog, NEW size \in Nat, NEW refusal \in BOOLEAN
    PROVE  /\ Logged(c, size, refusal) \in ALog
           /\ Logged(c, size, refusal).posts = log[c].posts + (IF refusal THEN 2 ELSE 1)
           /\ Logged(c, size, refusal).records = log[c].records + 1
           /\ Logged(c, size, refusal).tokens = log[c].tokens + size
           /\ Logged(c, size, refusal).refused <=> (log[c].refused \/ refusal)
<1>1. /\ log[c].posts \in Nat /\ log[c].records \in Nat /\ log[c].tokens \in Nat
      /\ log[c].refused \in BOOLEAN /\ log[c].served \in BOOLEAN
  BY DEF ALog
<1>2. (log[c].refused \/ refusal) \in BOOLEAN  OBVIOUS
<1>3. log[c].posts + (IF refusal THEN 2 ELSE 1) \in Nat  BY <1>1
<1>4. log[c].records + 1 \in Nat /\ log[c].tokens + size \in Nat  BY <1>1
<1> QED  BY <1>1, <1>2, <1>3, <1>4 DEF Logged, ALog

\* Storing keeps the cache what it is.
LEMMA StoredType ==
    ASSUME CallsTypeOK, NEW c \in Callers, call[c].phase = "sending", Stored(c, "whole")
    PROVE  answer' \in [Keys -> {"none", "whole"}]
BY DEF Stored, CallsTypeOK

\* A call under way has a prompt and an attempt; one that is not has neither.
LEMMA CallFacts ==
    ASSUME NEW a \in ACall
    PROVE  /\ a.phase = "sending" => a.prompt \in Prompts /\ a.attempt \in {0, 1}
           /\ a.phase # "sending" => a \in [phase : Phases]
<1>1. CASE a \in [phase : Phases]
  <2>1. a.phase \in Phases  BY <1>1
  <2> QED  BY <1>1, <2>1 DEF Phases
<1>2. CASE a \in [phase : {"sending"}, prompt : Prompts, attempt : 0 .. MAX_RETRIES]
  <2>1. a.phase = "sending" /\ a.prompt \in Prompts /\ a.attempt \in 0 .. 1
    BY <1>2 DEF MAX_RETRIES
  <2> QED  BY <2>1
<1> QED  BY <1>1, <1>2 DEF ACall

\* The next attempt of a call is a call.
LEMMA NextAttempt ==
    ASSUME NEW a \in ACall, a.phase = "sending", a.attempt = 0
    PROVE  [a EXCEPT !.attempt = a.attempt + 1] \in ACall
           /\ [a EXCEPT !.attempt = a.attempt + 1].attempt = 1
<1>1. a \in [phase : {"sending"}, prompt : Prompts, attempt : 0 .. MAX_RETRIES]
  <2>1. a \notin [phase : Phases]  BY DEF Phases
  <2> QED  BY <2>1 DEF ACall
<1>2. /\ [a EXCEPT !.attempt = 1] \in
              [phase : {"sending"}, prompt : Prompts, attempt : 0 .. MAX_RETRIES]
      /\ [a EXCEPT !.attempt = 1].attempt = 1
  BY <1>1 DEF MAX_RETRIES
<1>3. a.attempt + 1 = 1  OBVIOUS
<1> QED  BY <1>2, <1>3 DEF ACall

\* Whatever a call is at, it is allowed the budget and no more than two sends beyond.
LEMMA AllowanceBounds ==
    ASSUME NEW a \in ACall
    PROVE  /\ Allowance(a) \in Nat
           /\ Budget <= Allowance(a) /\ Allowance(a) <= Budget + 2 * MaxSize
           /\ a.phase # "sending" => Allowance(a) = Budget + 2 * MaxSize
BY CallsAssumption DEF Allowance

\* One send of a caller: its log is as Logged has it, and its call goes on or ends.
LEMMA OneSend ==
    ASSUME CallsIInv, NEW c \in Callers, NEW size \in 0 .. MaxSize, NEW refusal \in BOOLEAN,
           call[c].phase = "sending", refusal => ~log[c].refused,
           log' = [log EXCEPT ![c] = Logged(c, size, refusal)],
           NEW next \in ACall, call' = [call EXCEPT ![c] = next],
           \/ next.phase # "sending"
           \/ call[c].attempt = 0 /\ next.attempt = 1,
           answer' \in [Keys -> {"none", "whole"}], rows' = rows
    PROVE  CallsIInv'
<1> USE CallsAssumption DEF CallsIInv
<1> log[c] \in ALog /\ call[c] \in ACall  BY DEF CallsTypeOK
<1> size \in Nat  OBVIOUS
<1>1. CallsTypeOK'  BY LoggedType DEF CallsTypeOK
<1>2. PostsHaveRecords'
  <2> SUFFICES ASSUME NEW d \in Callers
               PROVE  log'[d].posts = log'[d].records + (IF log'[d].refused THEN 1 ELSE 0)
    BY DEF PostsHaveRecords
  <2>1. log[d].posts = log[d].records + (IF log[d].refused THEN 1 ELSE 0)
    BY DEF PostsHaveRecords
  <2>2. CASE d # c  BY <2>1, <2>2 DEF CallsTypeOK
  <2>3. CASE d = c
    <3>1. log'[c] = Logged(c, size, refusal)  BY DEF CallsTypeOK
    <3>2. /\ log[c].posts \in Nat /\ log[c].records \in Nat /\ log[c].refused \in BOOLEAN
      BY DEF ALog
    <3> DEFINE sent == Logged(c, size, refusal)
    <3>3. /\ sent.posts = log[c].posts + (IF refusal THEN 2 ELSE 1)
          /\ sent.records = log[c].records + 1
      BY LoggedType
    <3>4. sent.refused <=> (log[c].refused \/ refusal)  BY LoggedType
    <3>5. log'[c] = sent  BY <3>1
    <3> HIDE DEF sent
    <3>6. sent.posts = sent.records + (IF sent.refused THEN 1 ELSE 0)
      <4>1. CASE refusal  BY <2>1, <2>3, <3>2, <3>3, <3>4, <4>1
      <4>2. CASE ~refusal  BY <2>1, <2>3, <3>2, <3>3, <3>4, <4>2
      <4> QED  BY <4>1, <4>2
    <3> QED  BY <2>3, <3>5, <3>6
  <2> QED  BY <2>2, <2>3
<1>3. SpentSoFar'
  <2> SUFFICES ASSUME NEW d \in Callers PROVE log'[d].tokens < Allowance(call'[d])
    BY DEF SpentSoFar, Allowance
  <2>1. log[d].tokens < Allowance(call[d])  BY DEF SpentSoFar
  <2>2. CASE d # c  BY <2>1, <2>2 DEF CallsTypeOK
  <2>3. CASE d = c
    <3>1. log'[c].tokens = log[c].tokens + size /\ log[c].tokens \in Nat
      BY LoggedType DEF CallsTypeOK, ALog
    <3>2. call'[c] = next  BY DEF CallsTypeOK
    <3>3. call[c].attempt \in {0, 1}  BY CallFacts
    <3>4. CASE next.phase # "sending"
      <4>1. log[c].tokens < Budget + MaxSize  BY <2>1, <2>3, <3>1, <3>3 DEF Allowance
      <4> QED  BY <2>3, <3>1, <3>2, <3>4, <4>1 DEF Allowance
    <3>5. CASE call[c].attempt = 0 /\ next.attempt = 1
      <4>1. log[c].tokens < Budget  BY <2>1, <2>3, <3>5 DEF Allowance
      <4> QED  BY <2>3, <3>1, <3>2, <3>5, <4>1 DEF Allowance
    <3> QED  BY <3>4, <3>5
  <2> QED  BY <2>2, <2>3
<1> QED  BY <1>1, <1>2, <1>3

\* A step that posts nothing: the logs keep their counts, and a call begins within the
\* budget or is not under way.
LEMMA NothingSent ==
    ASSUME CallsIInv, NEW c \in Callers, NEW next \in ACall, call' = [call EXCEPT ![c] = next],
           \/ next.phase # "sending"
           \/ next.phase = "sending" /\ next.attempt = 0 /\ log[c].tokens < Budget,
           UNCHANGED <<answer, log>>, rows' \in [Callers -> Nat]
    PROVE  CallsIInv'
<1> USE CallsAssumption DEF CallsIInv
<1>1. CallsTypeOK'  BY DEF CallsTypeOK
<1>2. PostsHaveRecords'  BY DEF PostsHaveRecords
<1>3. SpentSoFar'
  <2> SUFFICES ASSUME NEW d \in Callers PROVE log[d].tokens < Allowance(call'[d])
    BY DEF SpentSoFar, Allowance
  <2>1. log[d].tokens < Allowance(call[d])  BY DEF SpentSoFar
  <2>2. CASE d # c  BY <2>1, <2>2 DEF CallsTypeOK
  <2>3. CASE d = c
    <3>1. call'[c] = next /\ call[c] \in ACall /\ log[c].tokens \in Nat
      BY DEF CallsTypeOK, ALog
    <3>2. CASE next.phase # "sending"
      BY <2>1, <2>3, <3>1, <3>2, AllowanceBounds
    <3>3. CASE next.phase = "sending" /\ next.attempt = 0 /\ log[c].tokens < Budget
      BY <2>3, <3>1, <3>3 DEF Allowance
    <3> QED  BY <3>2, <3>3
  <2> QED  BY <2>2, <2>3
<1> QED  BY <1>1, <1>2, <1>3

-----------------------------------------------------------------------------
\* The initial states have the invariant.
LEMMA CallsInitIInv == CallsInit => CallsIInv
<1> SUFFICES ASSUME CallsInit PROVE CallsIInv  OBVIOUS
<1>1. NewLog \in ALog /\ NewLog.posts = 0 /\ NewLog.records = 0 /\ NewLog.tokens = 0
      /\ ~NewLog.refused
  BY DEF NewLog, ALog
<1>2. [phase |-> "idle"] \in ACall  BY DEF ACall, Phases
<1>3. CallsTypeOK  BY <1>1, <1>2 DEF CallsInit, CallsTypeOK
<1>4. PostsHaveRecords  BY <1>1 DEF CallsInit, PostsHaveRecords
<1>5. SpentSoFar
  BY <1>1, <1>2, AllowanceBounds, CallsAssumption DEF CallsInit, SpentSoFar
<1> QED  BY <1>3, <1>4, <1>5 DEF CallsIInv

\* Every step keeps it.
LEMMA CallsStepIInv == CallsIInv /\ [CallsNext]_callsVars => CallsIInv'
<1> SUFFICES ASSUME CallsIInv, [CallsNext]_callsVars PROVE CallsIInv'  OBVIOUS
<1> CallsTypeOK  BY DEF CallsIInv
<1>open. [phase |-> "open"] \in ACall  BY DEF ACall, Phases
<1>1. CASE UNCHANGED callsVars
  BY <1>1 DEF CallsIInv, CallsTypeOK, PostsHaveRecords, SpentSoFar, Allowance, callsVars
<1>2. CASE \E c \in Callers : OpenAttempt(c) \/ OpenQuestion(c)
  BY <1>2, <1>open, NothingSent DEF OpenAttempt, OpenQuestion, CallsTypeOK
<1>3. CASE \E c \in Callers, p \in Prompts : Ask(c, p)
  <2> PICK c \in Callers, p \in Prompts : Ask(c, p)  BY <1>3
  <2>1. log[c].tokens \in Nat /\ rows' \in [Callers -> Nat]  BY DEF CallsTypeOK, ALog, Ask
  <2>2. CASE MayAsk(c)
    <3> DEFINE next == [phase |-> "sending", prompt |-> p, attempt |-> 0]
    <3>1. next \in ACall /\ next.phase = "sending" /\ next.attempt = 0
      BY DEF ACall, MAX_RETRIES
    <3>2. call' = [call EXCEPT ![c] = next] /\ UNCHANGED <<answer, log>>
      BY <2>2 DEF Ask
    <3>3. log[c].tokens < Budget  BY <2>2 DEF MayAsk
    <3> HIDE DEF next
    <3> QED  BY <2>1, <3>1, <3>2, <3>3, NothingSent
  <2>3. CASE ~MayAsk(c)
    <3>1. [phase |-> "over budget"] \in ACall  BY DEF ACall, Phases
    <3> QED  BY <2>1, <2>3, <3>1, NothingSent DEF Ask
  <2> QED  BY <2>2, <2>3
<1>4. CASE \E c \in Callers, p \in Prompts : Served(c, p)
  <2> PICK c \in Callers, p \in Prompts : Served(c, p)  BY <1>4
  <2>1. \A d \in Callers : /\ log'[d].posts = log[d].posts /\ log'[d].records = log[d].records
                           /\ log'[d].tokens = log[d].tokens /\ log'[d].refused = log[d].refused
    BY DEF Served, CallsTypeOK, ALog
  <2>2. CallsTypeOK'  BY DEF Served, CallsTypeOK, ALog
  <2>3. PostsHaveRecords'  BY <2>1 DEF CallsIInv, PostsHaveRecords
  <2>4. SpentSoFar'  BY <2>1 DEF CallsIInv, SpentSoFar, Served, Allowance
  <2> QED  BY <2>2, <2>3, <2>4 DEF CallsIInv
<1>5. CASE \E c \in Callers, size \in Sizes, refusal \in BOOLEAN : Answered(c, size, refusal)
  <2> PICK c \in Callers, size \in Sizes, refusal \in BOOLEAN : Answered(c, size, refusal)
    BY <1>5
  <2>1. size \in 0 .. MaxSize  BY CallsAssumption
  <2>2. /\ call[c].phase = "sending" /\ (refusal => ~log[c].refused)
        /\ answer' \in [Keys -> {"none", "whole"}]
    BY StoredType DEF Answered, Sending
  <2> QED  BY <1>open, <2>1, <2>2, OneSend DEF Answered, Back
<1>6. CASE \E c \in Callers, size \in Sizes, refusal \in BOOLEAN : Rejected(c, size, refusal)
  <2> PICK c \in Callers, size \in Sizes, refusal \in BOOLEAN : Rejected(c, size, refusal)
    BY <1>6
  <2>1. size \in 0 .. MaxSize  BY CallsAssumption
  <2>2. /\ call[c].phase = "sending" /\ (refusal => ~log[c].refused)
        /\ answer' \in [Keys -> {"none", "whole"}] /\ rows' = rows
        /\ log' = [log EXCEPT ![c] = Logged(c, size, refusal)]
    BY DEF Rejected, Sending, CallsTypeOK
  <2>3. call[c] \in ACall  BY DEF CallsTypeOK
  <2>4. CASE call[c].attempt < MAX_RETRIES
    <3> DEFINE next == [call[c] EXCEPT !.attempt = call[c].attempt + 1]
    <3>1. call[c].attempt = 0  BY <2>2, <2>3, <2>4, CallFacts DEF MAX_RETRIES
    <3>2. next \in ACall /\ next.attempt = 1
      BY <2>2, <2>3, <3>1, NextAttempt
    <3>3. call' = [call EXCEPT ![c] = next]  BY <2>4 DEF Rejected
    <3> HIDE DEF next
    <3> QED  BY <2>1, <2>2, <3>1, <3>2, <3>3, OneSend
  <2>5. CASE ~(call[c].attempt < MAX_RETRIES)
    <3>1. call' = [call EXCEPT ![c] = [phase |-> "open"]]  BY <2>5 DEF Rejected, Back
    <3> QED  BY <1>open, <2>1, <2>2, <3>1, OneSend
  <2> QED  BY <2>4, <2>5
<1>7. CASE \E c \in Callers, refusal \in BOOLEAN : SendFails(c, refusal)
  <2> PICK c \in Callers, refusal \in BOOLEAN : SendFails(c, refusal)  BY <1>7
  <2>1. 0 \in 0 .. MaxSize  BY CallsAssumption
  <2> QED  BY <1>open, <2>1, OneSend DEF SendFails, Sending, Back, CallsTypeOK
<1>8. CASE \E c \in Callers, size \in Sizes : Streamed(c, size)
  <2> PICK c \in Callers, size \in Sizes : Streamed(c, size)  BY <1>8
  <2>1. size \in 0 .. MaxSize  BY CallsAssumption
  <2>2. call[c].phase = "sending" /\ answer' \in [Keys -> {"none", "whole"}]
    BY StoredType DEF Streamed, Sending
  <2> QED  BY <1>open, <2>1, <2>2, OneSend DEF Streamed, Back
<1>9. CASE \E c \in Callers, size \in Sizes : ReaderLeaves(c, size)
  <2> PICK c \in Callers, size \in Sizes : ReaderLeaves(c, size)  BY <1>9
  <2>1. size \in 0 .. MaxSize  BY CallsAssumption
  <2> QED  BY <1>open, <2>1, OneSend DEF ReaderLeaves, Sending, Back, CallsTypeOK
<1>10. CASE \E c \in Callers : RecordCalls(c)
  <2> PICK c \in Callers : RecordCalls(c)  BY <1>10
  <2>1. [phase |-> "closed"] \in ACall  BY DEF ACall, Phases
  <2>2. log[c].records + (IF log[c].served THEN 1 ELSE 0) \in Nat
    BY DEF CallsTypeOK, ALog
  <2>3. rows' \in [Callers -> Nat]  BY <2>2 DEF RecordCalls, CallsTypeOK
  <2> QED  BY <2>1, <2>3, NothingSent DEF RecordCalls
<1>11. CASE \E c \in Callers : Dies(c)
  <2>1. [phase |-> "lost"] \in ACall  BY DEF ACall, Phases
  <2> QED  BY <1>11, <2>1, NothingSent DEF Dies, CallsTypeOK
<1> QED
  BY <1>1, <1>2, <1>3, <1>4, <1>5, <1>6, <1>7, <1>8, <1>9, <1>10, <1>11 DEF CallsNext

\* The invariant gives the bound, whatever the caller is doing.
LEMMA IInvSpend == CallsIInv => SpendIsOnTheLog
<1> SUFFICES ASSUME CallsIInv, NEW c \in Callers
             PROVE  log[c].tokens < Budget + (MAX_RETRIES + 1) * MaxSize
  BY DEF CallsIInv, PostsHaveRecords, SpendIsOnTheLog
<1>1. call[c] \in ACall /\ log[c].tokens \in Nat  BY DEF CallsIInv, CallsTypeOK, ALog
<1>2. log[c].tokens < Allowance(call[c])  BY DEF CallsIInv, SpentSoFar
<1> QED  BY <1>1, <1>2, AllowanceBounds, CallsAssumption DEF MAX_RETRIES

-----------------------------------------------------------------------------
\* The inductive invariant of the calls holds in every reachable state.
THEOREM CallsInvariance == CallsSpec => []CallsIInv
BY CallsInitIInv, CallsStepIInv, PTL DEF CallsSpec

\* Every reachable state is well typed, for any callers, prompts and sizes.
THEOREM CallsTypeCorrect == CallsSpec => []CallsTypeOK
<1>1. CallsIInv => CallsTypeOK  BY DEF CallsIInv
<1> QED  BY <1>1, CallsInvariance, PTL

\* Every post has its record and the budget is overrun by less than the sends of one
\* call, however calls are served, rejected, refused, left or cut off (llm/base.py).
THEOREM CallsSpend == CallsSpec => []SpendIsOnTheLog
BY IInvSpend, CallsInvariance, PTL

-----------------------------------------------------------------------------
(***************************************************************************)
(* Proofs about Chat, for any conversations, any marker and any cutting of *)
(* an answer into pieces.                                                  *)
(*                                                                         *)
(* What has been shown is always a beginning of the whole answer, and how  *)
(* long it is depends on how much has arrived and not on the pieces it     *)
(* came in. That length never passes the place where the marker first      *)
(* begins, which is the same in the answer and in any beginning of it that *)
(* has the marker.                                                         *)
(***************************************************************************)

Writings == Seq(STRING)

\* Where the marker begins in a text.
Places(text) ==
    {i \in 1 .. Len(text) - Len(Marker) + 1 : SubSeq(text, i, i + Len(Marker) - 1) = Marker}

Beginning(text, n) == SubSeq(text, 1, n)

\* How much of the first n symbols of a text may be shown.
Released(text, n) ==
    IF Marked(Beginning(text, n)) THEN MarkerAt(text) - 1 ELSE n - Least(Len(Marker), n)

\* The marker has symbols.
LEMMA MarkerType == Len(Marker) \in Nat \ {0}
BY MarkerAssumption

\* MarkerAt is the first place of the marker, or just past the end.
LEMMA MarkerPlace ==
    ASSUME NEW text \in Writings
    PROVE  /\ Places(text) = {} => MarkerAt(text) = Len(text) + 1
           /\ Places(text) # {} => /\ MarkerAt(text) \in Places(text)
                                   /\ \A j \in Places(text) : MarkerAt(text) <= j
<1> DEFINE P == Places(text)
<1>1. MarkerAt(text) =
        IF P = {} THEN Len(text) + 1 ELSE CHOOSE i \in P : \A j \in P : i <= j
  BY DEF MarkerAt, Places
<1>2. P \in SUBSET Nat
  BY DEF Places, Writings
<1> HIDE DEF P
<1>3. P # {} => \E i \in P : \A j \in P : i <= j
  BY <1>2, Smallest
<1> QED BY <1>1, <1>3 DEF P

LEMMA MarkerRange ==
    ASSUME NEW text \in Writings
    PROVE  /\ MarkerAt(text) \in 1 .. Len(text) + 1
           /\ Marked(text) <=> Places(text) # {}
<1>1. \A i \in Places(text) : i \in 1 .. Len(text)
  BY MarkerType DEF Places, Writings
<1> QED BY <1>1, MarkerPlace DEF Marked, Writings

\* A beginning has the marker where the text has it, if it is long enough.
LEMMA BeginningPlaces ==
    ASSUME NEW text \in Writings, NEW n \in 0 .. Len(text)
    PROVE  /\ Beginning(text, n) \in Writings /\ Len(Beginning(text, n)) = n
           /\ Places(Beginning(text, n)) = {i \in Places(text) : i + Len(Marker) - 1 <= n}
<1> DEFINE t == Beginning(text, n)
<1>1. t \in Writings /\ Len(t) = n
  BY DEF Writings, Beginning
<1>2. ASSUME NEW i \in 1 .. Len(text), i + Len(Marker) - 1 <= n
      PROVE  SubSeq(t, i, i + Len(Marker) - 1) = SubSeq(text, i, i + Len(Marker) - 1)
  <2>1. /\ 1 \in 1 .. Len(text) /\ n \in 1 .. Len(text)
        /\ i \in 1 .. n - 1 + 1 /\ i + Len(Marker) - 1 \in 1 .. n - 1 + 1
    BY <1>2, MarkerType DEF Writings
  <2>2. SubSeq(SubSeq(text, 1, n), i, i + Len(Marker) - 1)
          = SubSeq(text, 1 + i - 1, 1 + (i + Len(Marker) - 1) - 1)
    BY <2>1, SubSeqOfSubSeq DEF Writings
  <2>3. 1 + i - 1 = i /\ 1 + (i + Len(Marker) - 1) - 1 = i + Len(Marker) - 1
    BY MarkerType
  <2> QED BY <2>2, <2>3 DEF Beginning
<1> HIDE DEF t
<1>3. Places(t) = {i \in Places(text) : i + Len(Marker) - 1 <= n}
  <2>1. Places(t) = {i \in 1 .. n - Len(Marker) + 1 :
                        SubSeq(t, i, i + Len(Marker) - 1) = Marker}
    BY <1>1 DEF Places
  <2>2. Len(text) \in Nat /\ n \in Nat /\ n <= Len(text)
    BY DEF Writings
  <2>3. ASSUME NEW i
        PROVE  i \in 1 .. n - Len(Marker) + 1
                 <=> i \in 1 .. Len(text) - Len(Marker) + 1 /\ i + Len(Marker) - 1 <= n
    BY <2>2, MarkerType
  <2>4. \A i \in 1 .. n - Len(Marker) + 1 :
           i \in 1 .. Len(text) /\ i + Len(Marker) - 1 <= n
    BY <2>2, MarkerType
  <2>5. \A i \in 1 .. n - Len(Marker) + 1 :
           SubSeq(t, i, i + Len(Marker) - 1) = SubSeq(text, i, i + Len(Marker) - 1)
    BY <1>2, <2>4
  <2> QED BY <2>1, <2>3, <2>5 DEF Places
<1> QED BY <1>1, <1>3 DEF t

LEMMA BeginningMarker ==
    ASSUME NEW text \in Writings, NEW n \in 0 .. Len(text)
    PROVE  /\ Marked(Beginning(text, n)) =>
                /\ MarkerAt(Beginning(text, n)) = MarkerAt(text)
                /\ MarkerAt(text) + Len(Marker) - 1 <= n
           /\ ~Marked(Beginning(text, n)) => n - Least(Len(Marker), n) <= MarkerAt(text) - 1
<1> DEFINE t == Beginning(text, n)
<1>1. /\ t \in Writings /\ Len(t) = n
      /\ Places(t) = {i \in Places(text) : i + Len(Marker) - 1 <= n}
  BY BeginningPlaces
<1> HIDE DEF t
<1>2. MarkerAt(text) \in 1 .. Len(text) + 1 /\ Len(text) \in Nat
  BY MarkerRange DEF Writings
<1>3. CASE Marked(t)
  <2>1. Places(t) # {} /\ Places(text) # {}
    BY <1>1, <1>3, MarkerRange
  <2>2. /\ MarkerAt(t) \in Places(text) /\ MarkerAt(t) + Len(Marker) - 1 <= n
        /\ MarkerAt(text) \in Places(text) /\ MarkerAt(text) <= MarkerAt(t)
    BY <1>1, <2>1, MarkerPlace
  <2>3. MarkerAt(t) \in Int /\ MarkerAt(text) \in Int
    BY <1>1, <1>2, MarkerRange
  <2>4. MarkerAt(text) + Len(Marker) - 1 <= n
    BY <2>2, <2>3, MarkerType
  <2>5. MarkerAt(text) \in Places(t)
    BY <1>1, <2>2, <2>4
  <2>6. MarkerAt(t) <= MarkerAt(text)
    BY <1>1, <2>1, <2>5, MarkerPlace
  <2> QED BY <1>3, <2>2, <2>3, <2>4, <2>6 DEF t
<1>4. CASE ~Marked(t)
  <2>1. Places(t) = {}
    BY <1>1, <1>4, MarkerRange
  <2>2. CASE Places(text) = {}
    <3>1. MarkerAt(text) = Len(text) + 1
      BY <2>2, MarkerPlace
    <3> QED BY <1>4, <3>1, MarkerType DEF Least, t, Writings
  <2>3. CASE Places(text) # {}
    <3>1. MarkerAt(text) \in Places(text)
      BY <2>3, MarkerPlace
    <3>2. ~(MarkerAt(text) + Len(Marker) - 1 <= n)
      BY <1>1, <2>1, <3>1
    <3> QED BY <1>2, <1>4, <3>2, MarkerType DEF Least, t
  <2> QED BY <2>2, <2>3
<1> QED BY <1>3, <1>4 DEF t

LEMMA BeginningOfBeginning ==
    ASSUME NEW text \in Writings, NEW n \in 0 .. Len(text), NEW k \in 0 .. n
    PROVE  SubSeq(Beginning(text, n), 1, k) = Beginning(text, k)
<1>1. Len(text) \in Nat
  BY DEF Writings
<1>2. CASE k = 0
  BY <1>2, SubSeqEmpty DEF Beginning
<1>3. CASE k # 0
  <2>1. /\ 1 \in 1 .. Len(text) /\ n \in 1 .. Len(text)
        /\ 1 \in 1 .. n - 1 + 1 /\ k \in 1 .. n - 1 + 1
    BY <1>1, <1>3
  <2>2. SubSeq(SubSeq(text, 1, n), 1, k) = SubSeq(text, 1 + 1 - 1, 1 + k - 1)
    BY <2>1, SubSeqOfSubSeq DEF Writings
  <2> QED BY <2>2 DEF Beginning
<1> QED BY <1>2, <1>3

\* What may be shown of a beginning is a beginning, of that length, and no more than prose.
LEMMA ReleasedType ==
    ASSUME NEW text \in Writings, NEW n \in 0 .. Len(text)
    PROVE  /\ Releasable(Beginning(text, n)) = Beginning(text, Released(text, n))
           /\ Released(text, n) \in 0 .. n /\ Released(text, n) <= MarkerAt(text) - 1
<1> DEFINE t == Beginning(text, n)
           R == Released(text, n)
<1>1. /\ t \in Writings /\ Len(t) = n /\ MarkerAt(text) \in 1 .. Len(text) + 1
      /\ Len(text) \in Nat
  BY BeginningPlaces, MarkerRange DEF Writings
<1>2. R \in 0 .. n /\ R <= MarkerAt(text) - 1
  <2>1. CASE Marked(t)
    BY <1>1, <2>1, BeginningMarker, MarkerType DEF Released
  <2>2. CASE ~Marked(t)
    BY <1>1, <2>2, BeginningMarker, MarkerType DEF Released, Least
  <2> QED BY <2>1, <2>2
<1>3. Releasable(t) = SubSeq(t, 1, R)
  <2>1. CASE Marked(t)
    <3>1. MarkerAt(t) = MarkerAt(text)
      BY <2>1, BeginningMarker
    <3> QED BY <2>1, <3>1 DEF Releasable, Prose, Released
  <2>2. CASE ~Marked(t)
    BY <1>1, <2>2 DEF Releasable, Released
  <2> QED BY <2>1, <2>2
<1>4. SubSeq(t, 1, R) = Beginning(text, R)
  BY <1>2, BeginningOfBeginning
<1> QED BY <1>2, <1>3, <1>4

\* The more has arrived, the more is shown.
LEMMA ReleasedGrows ==
    ASSUME NEW text \in Writings, NEW n \in 0 .. Len(text), NEW m \in n .. Len(text)
    PROVE  /\ Released(text, n) <= Released(text, m)
           /\ Marked(Beginning(text, n)) => Released(text, m) = Released(text, n)
<1>1. /\ m \in 0 .. Len(text) /\ Len(text) \in Nat
      /\ MarkerAt(text) \in 1 .. Len(text) + 1
  BY MarkerRange DEF Writings
<1>2. Marked(Beginning(text, n)) => Marked(Beginning(text, m))
  <2> SUFFICES ASSUME Marked(Beginning(text, n)) PROVE Marked(Beginning(text, m))
    OBVIOUS
  <2>1. PICK i \in Places(Beginning(text, n)) : TRUE
    BY BeginningPlaces, MarkerRange
  <2>2. i \in Places(text) /\ i + Len(Marker) - 1 <= n /\ i \in Int
    <3>1. i \in Places(text) /\ i + Len(Marker) - 1 <= n
      BY BeginningPlaces
    <3> QED BY <1>1, <3>1, MarkerType DEF Places
  <2>3. i \in Places(Beginning(text, m))
    BY <1>1, <2>2, BeginningPlaces, MarkerType
  <2> QED BY <1>1, <2>3, BeginningPlaces, MarkerRange
<1>3. Released(text, n) <= MarkerAt(text) - 1
  BY ReleasedType
<1>4. CASE Marked(Beginning(text, m))
  BY <1>3, <1>4 DEF Released
<1>5. CASE ~Marked(Beginning(text, m))
  BY <1>1, <1>2, <1>5, MarkerType DEF Released, Least
<1> QED BY <1>4, <1>5, <1>2 DEF Released

\* A beginning and what follows it make a longer one.
LEMMA Continued ==
    ASSUME NEW text \in Writings, NEW a \in 0 .. Len(text), NEW b \in a .. Len(text)
    PROVE  /\ Len(Beginning(text, a)) = a
           /\ Beginning(text, a) \o SubSeq(Beginning(text, b), a + 1, b) = Beginning(text, b)
<1>1. /\ Len(text) \in Nat /\ Beginning(text, b) \in Writings /\ Len(Beginning(text, b)) = b
      /\ Len(Beginning(text, a)) = a
  BY BeginningPlaces DEF Writings
<1> DEFINE t == Beginning(text, b)
<1>2. SubSeq(t, 1, a) \o SubSeq(t, a + 1, b) = SubSeq(t, 1, b)
  <2>1. 1 \in 1 .. Len(t) + 1 /\ a \in 1 - 1 .. Len(t) /\ b \in a .. Len(t)
    BY <1>1
  <2> HIDE DEF t
  <2> QED BY <1>1, <2>1, ConcatAdjacentSubSeq DEF Writings, t
<1>3. SubSeq(t, 1, b) = t
  BY <1>1, SubSeqFull DEF Writings
<1>4. SubSeq(t, 1, a) = Beginning(text, a)
  BY BeginningOfBeginning
<1> QED BY <1>1, <1>2, <1>3, <1>4

\* What is shown is what has arrived releases, and at the end all of the prose; a failed
\* answer leaves a beginning of it.
ChatIInv ==
    /\ conversation \in Conversations
    /\ received \in 0 .. Len(FullAnswer)
    /\ chat \in {"idle", "refused", "streaming"} =>
          shown = Beginning(FullAnswer, Released(FullAnswer, received))
    /\ chat = "done" => shown = Prose(FullAnswer)
    /\ \E n \in 0 .. MarkerAt(FullAnswer) - 1 : shown = Beginning(FullAnswer, n)

\* An answer is a sequence of symbols.
LEMMA AnswerType ==
    ASSUME conversation \in Conversations
    PROVE  FullAnswer \in Writings
BY ConversationsAssumption DEF FullAnswer, Writings

\* It holds before anything is asked.
LEMMA InitChat == ChatInit => ChatIInv
<1> SUFFICES ASSUME ChatInit PROVE ChatIInv
  OBVIOUS
<1>1. FullAnswer \in Writings /\ received = 0 /\ Len(FullAnswer) \in Nat
  BY AnswerType DEF ChatInit, NothingAsked, Writings
<1>2. 0 \in 0 .. Len(FullAnswer)
  BY <1>1
<1>3. Released(FullAnswer, 0) = 0 /\ MarkerAt(FullAnswer) \in 1 .. Len(FullAnswer) + 1
  BY <1>1, <1>2, ReleasedType, MarkerRange
<1>4. Beginning(FullAnswer, 0) = <<>>
  BY <1>1, SubSeqEmpty DEF Beginning
<1>5. 0 \in 0 .. MarkerAt(FullAnswer) - 1
  BY <1>1, <1>3
<1> QED BY <1>1, <1>2, <1>3, <1>4, <1>5 DEF ChatInit, NothingAsked, ChatIInv

\* Another piece lengthens what is shown to what the longer beginning releases.
LEMMA PieceStep ==
    ASSUME ChatIInv, NEW n \in 1 .. Len(FullAnswer), Piece(n)
    PROVE  ChatIInv'
<1> DEFINE text == FullAnswer
           a == Released(text, received)
           b == Released(text, received + n)
<1>1. /\ text \in Writings /\ Len(text) \in Nat /\ received \in 0 .. Len(text)
      /\ received + n \in received .. Len(text) /\ received + n \in 0 .. Len(text)
      /\ MarkerAt(text) \in 1 .. Len(text) + 1
  BY AnswerType, MarkerRange DEF ChatIInv, Piece, Writings
<1>2. /\ chat = "streaming" /\ received' = received + n /\ text' = text
      /\ UNCHANGED <<conversation, chat>>
  BY DEF Piece, FullAnswer
<1>3. shown = Beginning(text, a)
  BY <1>2 DEF ChatIInv
<1>4. /\ shown' = IF Marked(Beginning(text, received)) THEN shown
                  ELSE LET now == Releasable(Beginning(text, received + n))
                       IN  shown \o SubSeq(now, Len(shown) + 1, Len(now))
  BY <1>2 DEF Piece, Beginning
<1> HIDE DEF text
<1>5. /\ a \in 0 .. Len(text) /\ b \in a .. Len(text) /\ b <= MarkerAt(text) - 1
      /\ Marked(Beginning(text, received)) => b = a
      /\ Releasable(Beginning(text, received + n)) = Beginning(text, b)
  BY <1>1, ReleasedType, ReleasedGrows
<1> HIDE DEF a, b
<1>6. shown' = Beginning(text, b)
  <2>1. CASE Marked(Beginning(text, received))
    BY <1>3, <1>4, <1>5, <2>1
  <2>2. CASE ~Marked(Beginning(text, received))
    <3>1. Len(shown) = a
      BY <1>1, <1>3, <1>5, Continued
    <3>2. Len(Beginning(text, b)) = b
      <4>1. b \in 0 .. Len(text) /\ b \in b .. Len(text)
        BY <1>1, <1>5
      <4> QED BY <1>1, <4>1, Continued
    <3>3. shown' = shown \o SubSeq(Beginning(text, b), a + 1, b)
      BY <1>4, <1>5, <2>2, <3>1, <3>2
    <3> QED BY <1>1, <1>3, <1>5, <3>3, Continued
  <2> QED BY <2>1, <2>2
<1>7. b \in 0 .. MarkerAt(text) - 1
  BY <1>1, <1>5
<1> QED BY <1>1, <1>2, <1>6, <1>7 DEF ChatIInv, text, b

\* The end shows what was held back.
LEMMA EndOfStreamStep ==
    ASSUME ChatIInv, EndOfStream
    PROVE  ChatIInv'
<1> DEFINE text == FullAnswer
           a == Released(text, received)
           p == MarkerAt(text) - 1
<1>1. /\ text \in Writings /\ Len(text) \in Nat /\ received \in 0 .. Len(text)
      /\ MarkerAt(text) \in 1 .. Len(text) + 1
  BY AnswerType, MarkerRange DEF ChatIInv, Writings
<1>2. /\ chat = "streaming" /\ chat' = "done" /\ UNCHANGED <<conversation, received>>
      /\ text' = text
      /\ shown' = shown \o SubSeq(Prose(text), Len(shown) + 1, Len(Prose(text)))
  BY DEF EndOfStream, FullAnswer
<1>3. shown = Beginning(text, a)
  BY <1>2 DEF ChatIInv
<1> HIDE DEF text
<1>4. a \in 0 .. Len(text) /\ p \in a .. Len(text) /\ p \in 0 .. Len(text) /\ p \in p .. Len(text)
  BY <1>1, ReleasedType
<1>5. Prose(text) = Beginning(text, p)
  BY DEF Prose, Beginning
<1> HIDE DEF a, p
<1>6. Len(shown) = a /\ Len(Beginning(text, p)) = p
  BY <1>1, <1>3, <1>4, Continued
<1>7. shown' = Beginning(text, a) \o SubSeq(Beginning(text, p), a + 1, p)
  BY <1>2, <1>3, <1>5, <1>6
<1>8. shown' = Beginning(text, p)
  BY <1>1, <1>4, <1>7, Continued
<1>9. p \in 0 .. MarkerAt(text) - 1
  BY <1>1, <1>4 DEF p
<1> QED BY <1>1, <1>2, <1>5, <1>8, <1>9 DEF ChatIInv, text

\* No step breaks the invariant.
LEMMA ChatStep ==
    ASSUME ChatIInv, [ChatNext]_chatVars
    PROVE  ChatIInv'
<1>1. ASSUME UNCHANGED <<conversation, received, shown>>,
             \/ chat' = chat
             \/ chat = "idle" /\ chat' \in {"refused", "streaming"}
             \/ chat' = "error"
      PROVE  ChatIInv'
  <2>1. FullAnswer' = FullAnswer
    BY <1>1 DEF FullAnswer
  <2>2. chat' \in {"idle", "refused", "streaming"} => chat \in {"idle", "refused", "streaming"}
    BY <1>1
  <2>3. chat' = "done" => chat = "done"
    BY <1>1
  <2> HIDE DEF FullAnswer
  <2>4. conversation' \in Conversations /\ received' \in 0 .. Len(FullAnswer')
    BY <1>1, <2>1 DEF ChatIInv
  <2>5. chat' \in {"idle", "refused", "streaming"} =>
            shown' = Beginning(FullAnswer', Released(FullAnswer', received'))
    BY <1>1, <2>1, <2>2 DEF ChatIInv
  <2>6. chat' = "done" => shown' = Prose(FullAnswer')
    BY <1>1, <2>1, <2>3 DEF ChatIInv
  <2>7. \E n \in 0 .. MarkerAt(FullAnswer') - 1 : shown' = Beginning(FullAnswer', n)
    BY <1>1, <2>1 DEF ChatIInv
  <2> QED BY <2>4, <2>5, <2>6, <2>7 DEF ChatIInv
<1>2. CASE OpenPanel
  BY <1>1, <1>2 DEF OpenPanel
<1>3. CASE AskModel
  BY <1>1, <1>3 DEF AskModel
<1>4. CASE ModelFails
  BY <1>1, <1>4 DEF ModelFails
<1>5. CASE UNCHANGED chatVars
  BY <1>1, <1>5 DEF chatVars
<1>6. CASE EndOfStream
  BY <1>6, EndOfStreamStep
<1>7. CASE \E n \in 1 .. Len(FullAnswer) : Piece(n)
  BY <1>7, PieceStep
<1> QED BY <1>2, <1>3, <1>4, <1>5, <1>6, <1>7 DEF ChatNext

\* The invariant gives the promise.
LEMMA ShownBegins ==
    ASSUME ChatIInv
    PROVE  ShownIsTheProse
<1> DEFINE text == FullAnswer
           p == MarkerAt(text) - 1
<1>1. PICK n \in 0 .. p : shown = Beginning(text, n)
  BY DEF ChatIInv
<1>2. /\ text \in Writings /\ Len(text) \in Nat /\ MarkerAt(text) \in 1 .. Len(text) + 1
  BY AnswerType, MarkerRange DEF ChatIInv, Writings
<1>3. n \in 0 .. Len(text) /\ p \in n .. Len(text) /\ p \in 0 .. Len(text) /\ p \in p .. Len(text)
  BY <1>2
<1>4. chat = "done" => shown = Prose(text)
  BY DEF ChatIInv
<1>5. Prose(text) = Beginning(text, p)
  BY DEF Prose, Beginning
<1> HIDE DEF text, p
<1>6. Len(shown) = n /\ Len(Prose(text)) = p
  BY <1>1, <1>2, <1>3, <1>5, Continued
<1>7. /\ SubSeq(Beginning(text, p), 1, n) = Beginning(text, n)
      /\ SubSeq(Beginning(text, n), 1, n) = Beginning(text, n)
  <2>1. n \in 0 .. p /\ n \in 0 .. n
    BY <1>3
  <2> QED BY <1>2, <1>3, <2>1, BeginningOfBeginning
<1>8. IsPrefix(shown, Prose(text))
  BY <1>1, <1>3, <1>5, <1>6, <1>7 DEF IsPrefix, Beginning
<1> QED BY <1>4, <1>8 DEF ShownIsTheProse, text

\* However an answer is cut into pieces, what the reader is shown is a beginning of its
\* prose, with no part of the marker, and in the end all of it.
THEOREM ReadersSeeTheProse == ChatSpec => []ShownIsTheProse
<1>1. ChatIInv /\ [ChatNext]_chatVars => ChatIInv'
  BY ChatStep
<1>2. ChatIInv => ShownIsTheProse
  BY ShownBegins
<1> QED BY <1>1, <1>2, InitChat, PTL DEF ChatSpec

-----------------------------------------------------------------------------
(***************************************************************************)
(* Proofs about what Chat puts before the model, for any conversations.    *)
(*                                                                         *)
(* The ceiling is not counted where it is enforced: a block that lost      *)
(* lines is longer than its cap by a note nobody counts, and the notes at  *)
(* the end are paid from a reserve. So the invariant of packing says what  *)
(* each section may cost: what has been spent of the budget is what the    *)
(* blocks take, one block may overrun it, by no more than 119 characters,  *)
(* and no note is longer than 137. The sums and the pack are recursive     *)
(* functions, so that they have values is proved first.                    *)
(***************************************************************************)

\* The sums of the first n of some lengths.
SumsTo(lengths, f, n) == f = [k \in 0 .. n |-> IF k = 0 THEN 0 ELSE f[k - 1] + lengths[k]]

LEMMA SumsExist ==
    ASSUME NEW lengths, NEW n \in Nat
    PROVE  \E f : SumsTo(lengths, f, n)
<1> DEFINE S == {m \in 0 .. n : \E f : SumsTo(lengths, f, m)}
<1>1. 0 \in S
  <2>1. SumsTo(lengths, [k \in 0 .. 0 |-> 0], 0)
    BY DEF SumsTo
  <2> QED BY <2>1
<1>2. ASSUME NEW m \in 1 .. n, m - 1 \in S PROVE m \in S
  <2>1. PICK f : SumsTo(lengths, f, m - 1)
    BY <1>2
  <2> DEFINE g == [k \in 0 .. m |-> IF k = 0 THEN 0 ELSE f[k - 1] + lengths[k]]
  <2>2. \A k \in 0 .. m - 1 : g[k] = f[k]
    <3>1. \A k \in 0 .. m - 1 : k \in 0 .. m
      OBVIOUS
    <3>2. \A k \in 0 .. m - 1 : f[k] = IF k = 0 THEN 0 ELSE f[k - 1] + lengths[k]
      BY <2>1 DEF SumsTo
    <3> QED BY <3>1, <3>2
  <2>3. \A k \in 0 .. m : k # 0 => k - 1 \in 0 .. m - 1
    OBVIOUS
  <2>4. SumsTo(lengths, g, m)
    BY <2>2, <2>3 DEF SumsTo
  <2> HIDE DEF g
  <2> QED BY <2>4
<1>3. \A k \in 0 .. n : k \in S
  <2> HIDE DEF S
  <2> QED BY <1>1, <1>2, NumberByNumber
<1> QED BY <1>3

\* TotalOfFirst is what it says.
LEMMA TotalFacts ==
    ASSUME NEW lengths \in Seq(Int)
    PROVE  /\ TotalOfFirst(lengths) \in [0 .. Len(lengths) -> Int]
           /\ TotalOfFirst(lengths)[0] = 0
           /\ \A k \in 1 .. Len(lengths) :
                  TotalOfFirst(lengths)[k] = TotalOfFirst(lengths)[k - 1] + lengths[k]
<1> DEFINE T == TotalOfFirst(lengths)
           n == Len(lengths)
<1>1. n \in Nat /\ \A k \in 1 .. n : lengths[k] \in Int
  OBVIOUS
<1>2. SumsTo(lengths, T, n)
  <2>1. T = CHOOSE f : SumsTo(lengths, f, n)
    BY DEF TotalOfFirst, SumsTo
  <2> HIDE DEF T, n
  <2> QED BY <1>1, <2>1, SumsExist
<1> HIDE DEF T, n
<1>3. DOMAIN T = 0 .. n /\ \A k \in 0 .. n : T[k] = IF k = 0 THEN 0 ELSE T[k - 1] + lengths[k]
  BY <1>2 DEF SumsTo
<1>4. T[0] = 0 /\ \A k \in 1 .. n : T[k] = T[k - 1] + lengths[k]
  <2>1. 0 \in 0 .. n /\ \A k \in 1 .. n : k \in 0 .. n /\ k # 0
    BY <1>1
  <2> QED BY <1>3, <2>1
<1> DEFINE S == {m \in 0 .. n : T[m] \in Int}
<1>5. \A m \in 0 .. n : m \in S
  <2>1. 0 \in S
    BY <1>1, <1>4
  <2>2. ASSUME NEW m \in 1 .. n, m - 1 \in S PROVE m \in S
    <3>1. T[m] = T[m - 1] + lengths[m] /\ T[m - 1] \in Int /\ lengths[m] \in Int
      BY <1>1, <1>4, <2>2
    <3> QED BY <1>1, <3>1
  <2> HIDE DEF S
  <2> QED BY <1>1, <2>1, <2>2, NumberByNumber
<1>6. T \in [0 .. n -> Int]
  <2>1. T = [k \in 0 .. n |-> T[k]]
    BY <1>2 DEF SumsTo
  <2> QED BY <1>5, <2>1
<1> QED BY <1>4, <1>6 DEF T, n

\* A longer list adds what it adds.
LEMMA TotalOfMore ==
    ASSUME NEW lengths \in Seq(Int), NEW x \in Int
    PROVE  /\ Append(lengths, x) \in Seq(Int)
           /\ Total(lengths) \in Int
           /\ Total(Append(lengths, x)) = Total(lengths) + x
<1> DEFINE more == Append(lengths, x)
           n == Len(lengths)
           T == TotalOfFirst(lengths)
           U == TotalOfFirst(more)
<1>1. /\ more \in Seq(Int) /\ Len(more) = n + 1 /\ n \in Nat /\ more[n + 1] = x
      /\ \A k \in 1 .. n : more[k] = lengths[k]
  OBVIOUS
<1>2. /\ T \in [0 .. n -> Int] /\ T[0] = 0 /\ \A k \in 1 .. n : T[k] = T[k - 1] + lengths[k]
  BY TotalFacts
<1>3. U[0] = 0 /\ \A k \in 1 .. n + 1 : U[k] = U[k - 1] + more[k]
  <2> HIDE DEF more
  <2>1. U[0] = 0 /\ \A k \in 1 .. Len(more) : U[k] = U[k - 1] + more[k]
    BY <1>1, TotalFacts
  <2> QED BY <1>1, <2>1
<1>4. Total(lengths) = T[n] /\ Total(more) = U[n + 1]
  BY <1>1 DEF Total
<1> HIDE DEF more, n, T, U
<1> DEFINE S == {m \in 0 .. n : U[m] = T[m]}
<1>5. \A m \in 0 .. n : m \in S
  <2>1. 0 \in S
    BY <1>1, <1>2, <1>3
  <2>2. ASSUME NEW m \in 1 .. n, m - 1 \in S PROVE m \in S
    <3>1. m \in 1 .. n + 1 /\ m \in 0 .. n
      BY <1>1
    <3>2. U[m] = U[m - 1] + more[m] /\ T[m] = T[m - 1] + lengths[m]
      BY <1>2, <1>3, <3>1
    <3> QED BY <1>1, <2>2, <3>1, <3>2
  <2> HIDE DEF S
  <2> QED BY <1>1, <2>1, <2>2, NumberByNumber
<1>6. n \in 0 .. n /\ n + 1 \in 1 .. n + 1 /\ (n + 1) - 1 = n
  BY <1>1
<1>7. U[n + 1] = T[n] + x /\ T[n] \in Int
  <2>1. U[n] = T[n]
    BY <1>5, <1>6
  <2>2. U[n + 1] = U[n] + x
    BY <1>1, <1>3, <1>6
  <2> QED BY <1>2, <1>6, <2>1, <2>2
<1> QED BY <1>1, <1>4, <1>7 DEF more

LEMMA OneAdded ==
    ASSUME NEW a \in Seq(Int), NEW b \in Seq(Int), NEW x \in Int,
           Len(b) = Len(a) + 1, b[Len(a) + 1] = x, \A i \in 1 .. Len(a) : b[i] = a[i]
    PROVE  b = Append(a, x)
<1>1. Append(a, x) \in Seq(Int) /\ Len(Append(a, x)) = Len(a) + 1
      /\ Append(a, x)[Len(a) + 1] = x /\ \A i \in 1 .. Len(a) : Append(a, x)[i] = a[i]
  OBVIOUS
<1>2. \A i \in 1 .. Len(b) : b[i] = Append(a, x)[i]
  BY <1>1
<1> QED BY <1>1, <1>2

LEMMA TotalOfNone == Total(<<>>) = 0
<1>1. <<>> \in Seq(Int) /\ Len(<<>>) = 0
  OBVIOUS
<1> QED BY <1>1, TotalFacts DEF Total

-----------------------------------------------------------------------------
LEMMA DigitsFew == ASSUME NEW n \in Int PROVE Digits(n) \in 1 .. 6
BY DEF Digits

\* What is fitted keeps to its cap, and the note about what went adds little.
LEMMA FitFacts ==
    ASSUME NEW lines \in Seq(Nat), NEW what \in Nat, NEW cap \in Nat
    PROVE  LET f == Fit(lines, what, cap)
           IN  /\ f.dropped \in Nat /\ f.length \in Int
               /\ f.dropped = 0 => f.length <= cap - 1
               /\ f.length <= cap + 55 + what
<1> DEFINE cost == Reverse([i \in DOMAIN lines |-> lines[i] + 3])
           last == TotalOfFirst(cost)
           n == Len(lines)
           Best(k) == last[k] <= cap /\ \A j \in DOMAIN last : last[j] <= cap => j <= k
           kept == CHOOSE k \in DOMAIN last : Best(k)
<1>1. n \in Nat /\ DOMAIN lines = 1 .. n /\ \A i \in 1 .. n : lines[i] \in Nat
  OBVIOUS
<1>2. cost \in Seq(Int) /\ Len(cost) = n
  <2> DEFINE costs == [i \in DOMAIN lines |-> lines[i] + 3]
  <2>1. costs \in Seq(Int) /\ Len(costs) = n
    BY <1>1
  <2> HIDE DEF costs, n
  <2>2. Reverse(costs) \in Seq(Int) /\ Len(Reverse(costs)) = n
    BY <2>1, <1>1 DEF Reverse
  <2> QED BY <2>2 DEF costs
<1>3. last \in [0 .. n -> Int] /\ last[0] = 0
  <2> HIDE DEF cost, n
  <2> QED BY <1>2, TotalFacts
<1>4. Fit(lines, what, cap) =
          [dropped |-> n - kept,
           length |-> IF n - kept = 0 THEN last[kept] - 1
                      ELSE 49 + Digits(n - kept) + what + last[kept]]
  BY DEF Fit
<1> HIDE DEF cost, last, n
<1>5. \E k \in DOMAIN last : Best(k)
  <2> DEFINE Above == {d \in Nat : d <= n /\ last[n - d] <= cap}
  <2>1. n \in Above
    BY <1>1, <1>3
  <2>2. Above \in SUBSET Nat /\ Above # {}
    BY <2>1
  <2>3. PICK d \in Above : \A e \in Above : d <= e
    <3> HIDE DEF Above
    <3> QED BY <2>2, Smallest
  <2>4. n - d \in 0 .. n /\ last[n - d] <= cap
    BY <1>1, <2>3
  <2>5. ASSUME NEW j \in 0 .. n, last[j] <= cap PROVE j <= n - d
    <3>1. n - j \in Nat /\ n - j <= n /\ n - (n - j) = j
      BY <1>1
    <3>2. n - j \in Above
      BY <2>5, <3>1
    <3>3. d <= n - j /\ d \in Nat
      BY <2>3, <3>2
    <3> QED BY <1>1, <3>1, <3>3
  <2> QED BY <1>3, <2>4, <2>5
<1>6. kept \in 0 .. n /\ last[kept] <= cap /\ last[kept] \in Int
  <2>1. kept \in DOMAIN last /\ Best(kept)
    BY <1>5
  <2> QED BY <1>3, <2>1
<1> HIDE DEF kept
<1>7. n - kept \in Nat /\ Digits(n - kept) \in 1 .. 6
  BY <1>1, <1>6, DigitsFew
<1> DEFINE d == n - kept
           size == IF d = 0 THEN last[kept] - 1 ELSE 49 + Digits(d) + what + last[kept]
<1>8. size \in Int /\ (d = 0 => size <= cap - 1) /\ size <= cap + 55 + what
  <2> DEFINE g == Digits(d)
             z == last[kept]
  <2>1. g \in 1 .. 6 /\ z \in Int /\ z <= cap /\ d \in Nat
    BY <1>6, <1>7
  <2> HIDE DEF g, z, d
  <2>2. CASE d = 0
    <3>1. size = z - 1
      BY <2>2 DEF z
    <3> QED BY <2>1, <3>1
  <2>3. CASE d # 0
    <3>1. size = 49 + g + what + z
      BY <2>3 DEF z, g
    <3> HIDE DEF size
    <3> QED BY <2>1, <2>3, <3>1
  <2> QED BY <2>2, <2>3
<1>9. Fit(lines, what, cap) = [dropped |-> d, length |-> size]
  BY <1>4
<1>10. d \in Nat
  BY <1>7
<1> HIDE DEF d, size
<1> QED BY <1>8, <1>9, <1>10

-----------------------------------------------------------------------------
\* What a list of rows keeps is as long as the rows it keeps.
LEMMA LengthsOfRows ==
    ASSUME NEW listed, StoredRows(listed)
    PROVE  Lengths(listed) \in Seq(Nat)
<1>1. DOMAIN listed = 1 .. Len(listed) /\ Len(listed) \in Nat
  BY SeqIn DEF StoredRows
<1>2. Lengths(listed) \in [1 .. Len(listed) -> Nat]
  BY <1>1 DEF Lengths, StoredRows
<1> QED BY <1>1, <1>2, SeqDef

LEMMA KeptRows ==
    ASSUME NEW listed, StoredRows(listed), NEW S
    PROVE  StoredRows(Kept(listed, S))
<1>1. IsSeq(listed) /\ \A i \in DOMAIN listed : listed[i].length \in Nat
  BY DEF StoredRows
<1>2. /\ IsSeq(Kept(listed, S))
      /\ \A k \in DOMAIN Kept(listed, S) : \E i \in DOMAIN listed : Kept(listed, S)[k] = listed[i]
  BY <1>1, KeptFacts
<1>3. ASSUME NEW k \in DOMAIN Kept(listed, S) PROVE Kept(listed, S)[k].length \in Nat
  <2>1. PICK i \in DOMAIN listed : Kept(listed, S)[k] = listed[i]
    BY <1>2
  <2> QED BY <1>1, <2>1
<1> QED BY <1>2, <1>3 DEF StoredRows

\* What is stored is in order.
LEMMA RunFacts ==
    ASSUME conversation \in Conversations
    PROVE  /\ StoredRows(TheRun.findings) /\ StoredRows(TheRun.coverage)
           /\ StoredRows(TheRun.rules) /\ StoredRows(TheRun.guidance)
           /\ StoredRows(TheRun.artifacts) /\ StoredRows(TheRun.earlier)
           /\ \A r \in ToSet(TheRun.earlier) : StoredRows(r.findings)
           /\ TheRun.remarks \in Seq(Nat) /\ TheRun.told \in Seq(Nat)
           /\ TheRun.figures \in Seq(Nat) /\ TheRun.report \in Nat
BY ConversationsAssumption DEF TheRun

LEMMA JoinedNats ==
    ASSUME NEW s \in Seq(Nat), NEW t \in Seq(Nat) PROVE s \o t \in Seq(Nat)
OBVIOUS

LEMMA EarlierFacts ==
    ASSUME conversation \in Conversations
    PROVE  /\ IsSeq(Earlier)
           /\ \A i \in DOMAIN Earlier :
                  Earlier[i].length \in Nat /\ StoredRows(Earlier[i].findings)
<1> DEFINE E == ToSet(TheRun.earlier)
           S == {r \in E : r.finalized /\ r.customer = TheRun.customer
                            /\ r.configuration = TheRun.configuration}
           same == Kept(TheRun.earlier, S)
<1>1. IsSeq(TheRun.earlier) /\ \A r \in E : r.length \in Nat /\ StoredRows(r.findings)
  BY RunFacts DEF StoredRows, ToSet
<1>2. IsSeq(same) /\ \A k \in DOMAIN same : same[k] \in E
  <2> HIDE DEF S
  <2>1. IsSeq(same) /\ \A k \in DOMAIN same : \E i \in DOMAIN TheRun.earlier : same[k] = TheRun.earlier[i]
    BY <1>1, KeptFacts
  <2> QED BY <2>1 DEF ToSet
<1>3. Earlier = IF TheRun.configuration = "" THEN <<>>
                ELSE SubSeq(Reverse(same), 1, Least(PREVIOUS_RUNS, Len(same)))
  BY DEF Earlier
<1> HIDE DEF same, E
<1>4. same \in Seq(E) /\ Len(same) \in Nat
  <2>1. same \in [1 .. Len(same) -> E] /\ Len(same) \in Nat
    BY <1>2, SeqIn DEF IsSeq
  <2> QED BY <2>1, SeqDef
<1>5. Reverse(same) \in Seq(E) /\ Len(Reverse(same)) = Len(same)
  BY <1>4 DEF Reverse
<1>6. Earlier \in Seq(E)
  <2>1. Least(PREVIOUS_RUNS, Len(same)) \in 0 .. Len(same)
    BY <1>4 DEF Least, PREVIOUS_RUNS
  <2>2. SubSeq(Reverse(same), 1, Least(PREVIOUS_RUNS, Len(same))) \in Seq(E)
    BY <1>4, <1>5, <2>1
  <2>3. <<>> \in Seq(E)
    OBVIOUS
  <2> QED BY <1>3, <2>2, <2>3, Zenon
<1> QED BY <1>1, <1>6, SeqIs

LEMMA LinesAreNats ==
    ASSUME conversation \in Conversations
    PROVE  /\ Lengths(Visible(TheRun.findings)) \in Seq(Nat)
           /\ CoverageLines \in Seq(Nat)
           /\ Lengths(GlobalRules) \in Seq(Nat)
           /\ Lengths(SubtypeRules) \in Seq(Nat)
           /\ GuidanceLines \in Seq(Nat)
           /\ HistoryLines \in Seq(Nat)
           /\ Inventory \in Seq(Nat)
           /\ Aggregates \in Seq(Nat)
<1> USE RunFacts
<1>1. Lengths(Visible(TheRun.findings)) \in Seq(Nat)
  BY KeptRows, LengthsOfRows DEF Visible
<1>2. CoverageLines \in Seq(Nat)
  <2>1. Lengths(CoveredEntries) \in Seq(Nat)
    BY KeptRows, LengthsOfRows DEF CoveredEntries
  <2> QED BY <2>1, JoinedNats DEF CoverageLines
<1>3. Lengths(GlobalRules) \in Seq(Nat)
  BY KeptRows, LengthsOfRows DEF GlobalRules
<1>4. Lengths(SubtypeRules) \in Seq(Nat)
  <2>1. CASE TheRun.programme = ""
    <3>1. StoredRows(<<>>)
      BY ShortSeqs DEF StoredRows
    <3> QED BY <2>1, <3>1, LengthsOfRows DEF SubtypeRules
  <2>2. CASE TheRun.programme # ""
    BY <2>2, KeptRows, LengthsOfRows DEF SubtypeRules
  <2> QED BY <2>1, <2>2
<1>5. HistoryLines \in Seq(Nat)
  <2> DEFINE run(i) == <<Earlier[i].length>> \o Lengths(Visible(Earlier[i].findings))
             runs == [i \in DOMAIN Earlier |-> run(i)]
  <2>1. ASSUME NEW i \in DOMAIN Earlier PROVE run(i) \in Seq(Nat)
    <3>1. Lengths(Visible(Earlier[i].findings)) \in Seq(Nat)
      BY EarlierFacts, KeptRows, LengthsOfRows DEF Visible
    <3>2. <<Earlier[i].length>> \in Seq(Nat)
      BY EarlierFacts
    <3> QED BY <3>1, <3>2, JoinedNats
  <2>2. runs \in Seq(Seq(Nat))
    <3>1. DOMAIN Earlier = 1 .. Len(Earlier) /\ Len(Earlier) \in Nat
      BY EarlierFacts, SeqIn
    <3> HIDE DEF run
    <3>2. runs \in [1 .. Len(Earlier) -> Seq(Nat)]
      BY <2>1, <3>1
    <3> QED BY <3>1, <3>2, SeqDef
  <2>3. HistoryLines = FlattenSeq(runs)
    BY DEF HistoryLines
  <2> HIDE DEF runs
  <2> QED BY <2>2, <2>3, FlattenFacts
<1>6. GuidanceLines \in Seq(Nat) /\ Inventory \in Seq(Nat) /\ Aggregates \in Seq(Nat)
  <2>1. GuidanceLines \in Seq(Nat)
    BY DEF GuidanceLines
  <2>2. Inventory \in Seq(Nat)
    BY LengthsOfRows DEF Inventory
  <2>3. Aggregates \in Seq(Nat)
    BY DEF Aggregates
  <2> QED BY <2>1, <2>2, <2>3
<1> QED BY <1>1, <1>2, <1>3, <1>4, <1>5, <1>6

FineSection(s, k) ==
    /\ s.number = k /\ s.lines \in Seq(Nat)
    /\ s.name \in Nat /\ s.what \in Nat /\ s.name + s.what <= 59 /\ s.name <= 53
    /\ s.share \in {2000, 4000}

\* What a section of the pack is.
LEMMA SectionFacts ==
    ASSUME conversation \in Conversations
    PROVE  /\ Len(Sections) = 8 /\ DOMAIN Sections = 1 .. 8
           /\ \A k \in 1 .. 8 : FineSection(Sections[k], k)
<1> DEFINE a == Lengths(Visible(TheRun.findings))
           b == CoverageLines
           c == Lengths(GlobalRules)
           d == Lengths(SubtypeRules)
           e == GuidanceLines
           f == HistoryLines
           g == Inventory
           h == Aggregates
<1>1. a \in Seq(Nat) /\ b \in Seq(Nat) /\ c \in Seq(Nat) /\ d \in Seq(Nat)
      /\ e \in Seq(Nat) /\ f \in Seq(Nat) /\ g \in Seq(Nat) /\ h \in Seq(Nat)
  BY LinesAreNats
<1>2. Share = 4000 /\ Share \div 2 = 2000
  BY DEF Share, MAX_PACK_CHARS
<1>3. Sections = <<Section(1, 19, 7, a, Share), Section(2, 53, 4, b, Share),
                   Section(3, 25, 4, c, Share), Section(4, 36, 14, d, Share \div 2),
                   Section(5, 22, 4, e, Share \div 2), Section(6, 47, 4, f, Share),
                   Section(7, 26, 8, g, Share \div 2), Section(8, 50, 9, h, Share)>>
  BY DEF Sections
<1> HIDE DEF a, b, c, d, e, f, g, h
<1>4. /\ FineSection(Section(1, 19, 7, a, Share), 1) /\ FineSection(Section(2, 53, 4, b, Share), 2)
      /\ FineSection(Section(3, 25, 4, c, Share), 3) /\ FineSection(Section(4, 36, 14, d, Share \div 2), 4)
      /\ FineSection(Section(5, 22, 4, e, Share \div 2), 5) /\ FineSection(Section(6, 47, 4, f, Share), 6)
      /\ FineSection(Section(7, 26, 8, g, Share \div 2), 7) /\ FineSection(Section(8, 50, 9, h, Share), 8)
  BY <1>1, <1>2 DEF Section, FineSection
<1>5. Len(Sections) = 8 /\ DOMAIN Sections = 1 .. 8
  BY <1>3
<1>6. ASSUME NEW k \in 1 .. 8 PROVE FineSection(Sections[k], k)
  <2>1. k = 1 \/ k = 2 \/ k = 3 \/ k = 4 \/ k = 5 \/ k = 6 \/ k = 7 \/ k = 8
    OBVIOUS
  <2> QED BY <1>3, <1>4, <2>1
<1> QED BY <1>5, <1>6

-----------------------------------------------------------------------------
NameOf(k) == IF k \in DOMAIN Sections THEN Sections[k].name ELSE ReportName
BlockLengths(blocks) ==
    [i \in DOMAIN blocks |-> 4 + NameOf(blocks[i].section) + blocks[i].length]

Blocks == [section : 1 .. 9, length : Int, dropped : Nat]
Notes == [section : 1 .. 9, length : Nat]
Packs == [budget : Int, blocks : Seq(Blocks), trimmed : Seq(Notes)]

\* A section is whole, or it is told that it is not.
Told(p, k) ==
    \/ Sections[k].lines = <<>>
    \/ \E i \in DOMAIN p.blocks : p.blocks[i].section = k /\ p.blocks[i].dropped = 0
    \/ \E i \in DOMAIN p.trimmed : p.trimmed[i].section = k

\* After k sections, of n of which there is a note. What is left of the budget is what the
\* blocks have not taken, with what joins them; one block may overrun it, by what nobody counts.
PackHolds(p, k, n) ==
    /\ p \in Packs
    /\ p.budget >= -119 /\ Len(p.blocks) <= k /\ Len(p.trimmed) <= n
    /\ Total(BlockLengths(p.blocks)) = 22500 - p.budget - Len(p.blocks)
    /\ Total(Lengths(p.trimmed)) <= 137 * n

LEMMA NameFacts ==
    ASSUME conversation \in Conversations, NEW k \in 1 .. 9
    PROVE  NameOf(k) \in Nat /\ NameOf(k) <= 59 /\ NameOf(9) = 34
           /\ (k \in 1 .. 8 => NameOf(k) = Sections[k].name)
<1>1. k \in 1 .. 8 => NameOf(k) = Sections[k].name /\ NameOf(k) \in Nat /\ NameOf(k) <= 59
  <2> SUFFICES ASSUME k \in 1 .. 8
               PROVE  NameOf(k) = Sections[k].name /\ NameOf(k) \in Nat /\ NameOf(k) <= 59
    OBVIOUS
  <2>1. DOMAIN Sections = 1 .. 8
    BY SectionFacts
  <2>2. FineSection(Sections[k], k)
    BY SectionFacts
  <2> QED BY <2>1, <2>2 DEF NameOf, FineSection
<1>2. NameOf(9) = 34
  <2>1. 9 \notin DOMAIN Sections
    BY SectionFacts
  <2> QED BY <2>1 DEF NameOf, ReportName
<1>3. k \notin 1 .. 8 => k = 9
  OBVIOUS
<1> QED BY <1>1, <1>2, <1>3

LEMMA BlockLengthsType ==
    ASSUME conversation \in Conversations, NEW blocks \in Seq(Blocks)
    PROVE  BlockLengths(blocks) \in Seq(Int) /\ Len(BlockLengths(blocks)) = Len(blocks)
<1>1. DOMAIN blocks = 1 .. Len(blocks) /\ Len(blocks) \in Nat
      /\ \A i \in DOMAIN blocks : blocks[i] \in Blocks
  OBVIOUS
<1>2. \A i \in DOMAIN blocks : 4 + NameOf(blocks[i].section) + blocks[i].length \in Int
  <2> TAKE i \in DOMAIN blocks
  <2>1. blocks[i].section \in 1 .. 9 /\ blocks[i].length \in Int
    BY <1>1 DEF Blocks
  <2>2. NameOf(blocks[i].section) \in Nat
    BY <2>1, NameFacts
  <2> QED BY <2>1, <2>2
<1>3. BlockLengths(blocks) \in [1 .. Len(blocks) -> Int]
  BY <1>1, <1>2 DEF BlockLengths
<1>4. Len(BlockLengths(blocks)) = Len(blocks)
  BY <1>1, <1>3 
<1> QED BY <1>1, <1>3, <1>4, SeqDef

LEMMA OneMoreBlock ==
    ASSUME conversation \in Conversations, NEW p \in Packs, NEW b \in Blocks
    PROVE  LET more == Append(p.blocks, b)
           IN  /\ more \in Seq(Blocks) /\ Len(more) = Len(p.blocks) + 1
               /\ DOMAIN more = 1 .. Len(p.blocks) + 1
               /\ more[Len(p.blocks) + 1] = b
               /\ \A i \in DOMAIN p.blocks : i \in DOMAIN more /\ more[i] = p.blocks[i]
               /\ Total(BlockLengths(more)) =
                     Total(BlockLengths(p.blocks)) + (4 + NameOf(b.section) + b.length)
               /\ Total(BlockLengths(p.blocks)) \in Int
<1> DEFINE old == p.blocks
           more == Append(old, b)
           x == 4 + NameOf(b.section) + b.length
<1>1. old \in Seq(Blocks)
  BY DEF Packs
<1> HIDE DEF old
<1>2. /\ more \in Seq(Blocks) /\ Len(more) = Len(old) + 1 /\ DOMAIN more = 1 .. Len(old) + 1
      /\ DOMAIN old = 1 .. Len(old) /\ Len(old) \in Nat
      /\ more[Len(old) + 1] = b /\ \A i \in 1 .. Len(old) : more[i] = old[i]
  BY <1>1
<1>3. x \in Int
  <2>1. b.section \in 1 .. 9 /\ b.length \in Int
    BY DEF Blocks
  <2>2. NameOf(b.section) \in Nat
    BY <2>1, NameFacts
  <2> QED BY <2>1, <2>2
<1>4. BlockLengths(old) \in Seq(Int) /\ Len(BlockLengths(old)) = Len(old)
      /\ BlockLengths(more) \in Seq(Int) /\ Len(BlockLengths(more)) = Len(old) + 1
  BY <1>1, <1>2, BlockLengthsType
<1>5. BlockLengths(more)[Len(old) + 1] = x
      /\ \A i \in 1 .. Len(old) : BlockLengths(more)[i] = BlockLengths(old)[i]
  BY <1>2 DEF BlockLengths
<1> HIDE DEF more, x
<1>6. BlockLengths(more) = Append(BlockLengths(old), x)
  BY <1>3, <1>4, <1>5, OneAdded
<1>7. Total(BlockLengths(more)) = Total(BlockLengths(old)) + x /\ Total(BlockLengths(old)) \in Int
  BY <1>3, <1>4, <1>6, TotalOfMore
<1>8. \A i \in DOMAIN old : i \in DOMAIN more /\ more[i] = old[i]
  BY <1>2
<1> QED BY <1>2, <1>7, <1>8 DEF old, more, x

LEMMA NotesType ==
    ASSUME NEW s \in Seq(Notes)
    PROVE  Lengths(s) \in Seq(Int) /\ Len(Lengths(s)) = Len(s)
<1>1. DOMAIN s = 1 .. Len(s) /\ Len(s) \in Nat /\ \A i \in 1 .. Len(s) : s[i].length \in Int
  <2>1. DOMAIN s = 1 .. Len(s) /\ Len(s) \in Nat /\ \A i \in 1 .. Len(s) : s[i] \in Notes
    OBVIOUS
  <2>2. \A n \in Notes : n.length \in Int
    BY DEF Notes
  <2> QED BY <2>1, <2>2
<1>2. Lengths(s) \in [1 .. Len(s) -> Int]
  BY <1>1 DEF Lengths
<1>3. Len(Lengths(s)) = Len(s)
  BY <1>1, <1>2
<1> QED BY <1>1, <1>2, <1>3, SeqDef

LEMMA OneMoreNote ==
    ASSUME NEW p \in Packs, NEW t \in Notes
    PROVE  LET more == Append(p.trimmed, t)
           IN  /\ more \in Seq(Notes) /\ Len(more) = Len(p.trimmed) + 1
               /\ DOMAIN more = 1 .. Len(p.trimmed) + 1
               /\ more[Len(p.trimmed) + 1] = t
               /\ \A i \in DOMAIN p.trimmed : i \in DOMAIN more /\ more[i] = p.trimmed[i]
               /\ Total(Lengths(more)) = Total(Lengths(p.trimmed)) + t.length
               /\ Total(Lengths(p.trimmed)) \in Int
<1> DEFINE old == p.trimmed
           more == Append(old, t)
<1>1. old \in Seq(Notes) /\ t.length \in Int
  BY DEF Packs, Notes
<1> HIDE DEF old
<1>2. /\ more \in Seq(Notes) /\ Len(more) = Len(old) + 1 /\ DOMAIN more = 1 .. Len(old) + 1
      /\ DOMAIN old = 1 .. Len(old) /\ Len(old) \in Nat
      /\ more[Len(old) + 1] = t /\ \A i \in 1 .. Len(old) : more[i] = old[i]
  BY <1>1
<1>3. Lengths(more)[Len(old) + 1] = t.length
      /\ \A i \in 1 .. Len(old) : Lengths(more)[i] = Lengths(old)[i]
  BY <1>2 DEF Lengths
<1> HIDE DEF more
<1>5. Lengths(old) \in Seq(Int) /\ Len(Lengths(old)) = Len(old)
      /\ Lengths(more) \in Seq(Int) /\ Len(Lengths(more)) = Len(old) + 1
  BY <1>1, <1>2, NotesType
<1>6. Lengths(more) = Append(Lengths(old), t.length)
  BY <1>1, <1>3, <1>5, OneAdded
<1>7. Total(Lengths(more)) = Total(Lengths(old)) + t.length /\ Total(Lengths(old)) \in Int
  BY <1>1, <1>5, <1>6, TotalOfMore
<1>8. \A i \in DOMAIN old : i \in DOMAIN more /\ more[i] = old[i]
  BY <1>2
<1> QED BY <1>2, <1>7, <1>8 DEF old, more

LEMMA PackLonger ==
    ASSUME NEW p \in Packs, NEW b \in Blocks, NEW rest \in Int
    PROVE  LET r == [p EXCEPT !.budget = rest, !.blocks = Append(p.blocks, b)]
           IN  /\ r \in Packs /\ r.budget = rest /\ r.trimmed = p.trimmed
               /\ r.blocks = Append(p.blocks, b)
<1> DEFINE more == Append(p.blocks, b)
           r == [p EXCEPT !.budget = rest, !.blocks = more]
<1>1. /\ p = [budget |-> p.budget, blocks |-> p.blocks, trimmed |-> p.trimmed]
      /\ p.trimmed \in Seq(Notes) /\ p.blocks \in Seq(Blocks)
  BY DEF Packs
<1>2. more \in Seq(Blocks)
  BY <1>1
<1> HIDE DEF more
<1>3. r = [[p EXCEPT !.budget = rest] EXCEPT !.blocks = more]
  OBVIOUS
<1> HIDE DEF r
<1>4. [p EXCEPT !.budget = rest] = [budget |-> rest, blocks |-> p.blocks, trimmed |-> p.trimmed]
  BY <1>1
<1>5. r = [budget |-> rest, blocks |-> more, trimmed |-> p.trimmed]
  BY <1>3, <1>4
<1>6. [budget |-> rest, blocks |-> more, trimmed |-> p.trimmed] \in Packs
  BY <1>1, <1>2 DEF Packs
<1>7. r \in Packs /\ r.budget = rest /\ r.blocks = more /\ r.trimmed = p.trimmed
  BY <1>5, <1>6
<1> QED BY <1>7 DEF r, more

LEMMA PackNoted ==
    ASSUME NEW p \in Packs, NEW k \in 1 .. 9, NEW length \in Nat
    PROVE  LET r == Trim(p, k, length)
           IN  /\ r \in Packs /\ r.budget = p.budget /\ r.blocks = p.blocks
               /\ r.trimmed = Append(p.trimmed, [section |-> k, length |-> length])
<1> DEFINE t == [section |-> k, length |-> length]
           more == Append(p.trimmed, t)
           r == Trim(p, k, length)
<1>1. /\ p = [budget |-> p.budget, blocks |-> p.blocks, trimmed |-> p.trimmed]
      /\ p.budget \in Int /\ p.blocks \in Seq(Blocks) /\ p.trimmed \in Seq(Notes)
  BY DEF Packs
<1>2. t \in Notes
  BY DEF Notes
<1>3. r = [p EXCEPT !.trimmed = more]
  BY DEF Trim
<1> HIDE DEF t
<1>4. more \in Seq(Notes)
  BY <1>1, <1>2
<1> HIDE DEF more, r
<1>5. r = [budget |-> p.budget, blocks |-> p.blocks, trimmed |-> more]
  BY <1>1, <1>3
<1>6. [budget |-> p.budget, blocks |-> p.blocks, trimmed |-> more] \in Packs
  BY <1>1, <1>4 DEF Packs
<1>7. r \in Packs /\ r.budget = p.budget /\ r.blocks = p.blocks /\ r.trimmed = more
  BY <1>5, <1>6
<1> QED BY <1>7 DEF r, more, t

LEMMA PackTotals ==
    ASSUME NEW p \in Packs
    PROVE  Total(Lengths(p.trimmed)) \in Int /\ Len(p.trimmed) \in Nat /\ Len(p.blocks) \in Nat
<1>1. p.trimmed \in Seq(Notes) /\ p.blocks \in Seq(Blocks)
  BY DEF Packs
<1>2. Total(Lengths(p.trimmed)) \in Int
  BY <1>1, NotesType, TotalOfMore
<1> QED BY <1>1, <1>2

LEMMA PackStillHolds ==
    ASSUME NEW p, NEW k \in Int, NEW n \in Int, PackHolds(p, k, n),
           NEW l \in Int, NEW m \in Int, k <= l, n <= m
    PROVE  PackHolds(p, l, m)
<1> DEFINE T == Total(Lengths(p.trimmed))
           a == Len(p.blocks)
           b == Len(p.trimmed)
<1>1. p \in Packs /\ a <= k /\ b <= n /\ T <= 137 * n
  BY DEF PackHolds
<1>2. T \in Int /\ a \in Int /\ b \in Int
  BY <1>1, PackTotals
<1> HIDE DEF T, a, b
<1>3. a <= l /\ b <= m /\ T <= 137 * m
  <2>1. 137 * n <= 137 * m /\ 137 * n \in Int /\ 137 * m \in Int
    OBVIOUS
  <2> QED BY <1>1, <1>2, <2>1
<1> QED BY <1>3 DEF PackHolds, T, a, b

\* The note about a section that lost lines, or that was left out.
LEMMA NotedHolds ==
    ASSUME NEW k \in 1 .. 8, NEW p, NEW n \in Nat, PackHolds(p, k, n),
           NEW length \in Nat, length <= 137
    PROVE  LET r == Trim(p, k, length)
           IN  PackHolds(r, k, n + 1) /\ Told(r, k) /\ \A j : Told(p, j) => Told(r, j)
<1> DEFINE t == [section |-> k, length |-> length]
           r == Trim(p, k, length)
           old == p.trimmed
           more == Append(p.trimmed, t)
<1>1. t \in Notes /\ t.section = k /\ t.length = length
  BY DEF Notes
<1>2. p \in Packs /\ r \in Packs /\ r.budget = p.budget /\ r.blocks = p.blocks /\ r.trimmed = more
  <2>1. p \in Packs /\ k \in 1 .. 9
    BY DEF PackHolds
  <2> QED BY <2>1, PackNoted, Zenon
<1> HIDE DEF t, r
<1>3. /\ Len(more) = Len(old) + 1 /\ Len(old) \in Nat
      /\ DOMAIN more = 1 .. Len(old) + 1 /\ more[Len(old) + 1] = t
      /\ \A i \in DOMAIN old : i \in DOMAIN more /\ more[i] = old[i]
      /\ Total(Lengths(more)) = Total(Lengths(old)) + length
      /\ Total(Lengths(old)) \in Int
  BY <1>1, <1>2, OneMoreNote, PackTotals
<1> HIDE DEF more, old
<1>4. PackHolds(r, k, n + 1)
  <2> DEFINE T == Total(Lengths(old))
             m == Len(old)
  <2>1. T <= 137 * n /\ m <= n /\ T \in Int /\ m \in Nat
    BY <1>3 DEF PackHolds, old
  <2>2. Total(Lengths(more)) = T + length /\ Len(more) = m + 1
    BY <1>3
  <2> HIDE DEF T, m
  <2>3. T + length <= 137 * (n + 1) /\ m + 1 <= n + 1
    BY <2>1
  <2> QED BY <1>2, <2>2, <2>3 DEF PackHolds
<1>5. Told(r, k)
  <2>1. Len(old) + 1 \in DOMAIN more /\ more[Len(old) + 1].section = k
    BY <1>1, <1>3
  <2> QED BY <1>2, <2>1 DEF Told
<1>6. ASSUME NEW j, Told(p, j) PROVE Told(r, j)
  <2>1. CASE \E i \in DOMAIN old : old[i].section = j
    <3>1. PICK i \in DOMAIN old : old[i].section = j
      BY <2>1
    <3>2. i \in DOMAIN more /\ more[i].section = j
      BY <1>3, <3>1
    <3> QED BY <1>2, <3>2 DEF Told
  <2>2. CASE ~\E i \in DOMAIN old : old[i].section = j
    BY <1>2, <1>6, <2>2 DEF Told, old
  <2> QED BY <2>1, <2>2
<1> QED BY <1>4, <1>5, <1>6 DEF r

\* The block of a section, or of the report.
LEMMA BlockHolds ==
    ASSUME conversation \in Conversations, NEW k \in 1 .. 9, NEW n \in Nat,
           NEW p, PackHolds(p, k - 1, n), NEW b \in Blocks, b.section = k,
           NEW r \in Packs, r.trimmed = p.trimmed, r.blocks = Append(p.blocks, b),
           r.budget = p.budget - (b.length + NameOf(k) + 5), r.budget >= -119
    PROVE  PackHolds(r, k, n) /\ (b.dropped = 0 => Told(r, k)) /\ \A j : Told(p, j) => Told(r, j)
<1> DEFINE old == p.blocks
           more == r.blocks
           rest == r.budget
           length == b.length
<1>1. length \in Int /\ rest \in Int
  BY DEF Blocks, Packs
<1>2. p \in Packs /\ p.budget \in Int /\ Len(old) <= k - 1
      /\ Total(BlockLengths(old)) = 22500 - p.budget - Len(old)
      /\ Len(p.trimmed) <= n /\ Total(Lengths(p.trimmed)) <= 137 * n
  BY DEF PackHolds, Packs
<1>4. /\ Len(more) = Len(old) + 1 /\ Len(old) \in Nat
      /\ DOMAIN more = 1 .. Len(old) + 1 /\ more[Len(old) + 1] = b
      /\ \A i \in DOMAIN old : i \in DOMAIN more /\ more[i] = old[i]
      /\ Total(BlockLengths(more)) = Total(BlockLengths(old)) + (4 + NameOf(k) + length)
  <2>1. p \in Packs /\ Len(old) \in Nat
    BY <1>2, PackTotals
  <2> DEFINE last == Append(old, b)
  <2>2. /\ Len(last) = Len(old) + 1
        /\ DOMAIN last = 1 .. Len(old) + 1 /\ last[Len(old) + 1] = b
        /\ \A i \in DOMAIN old : i \in DOMAIN last /\ last[i] = old[i]
        /\ Total(BlockLengths(last)) = Total(BlockLengths(old)) + (4 + NameOf(b.section) + b.length)
    BY <2>1, OneMoreBlock, Zenon
  <2>3. more = last
    OBVIOUS
  <2> HIDE DEF more, old, last
  <2> QED BY <2>1, <2>2, <2>3
<1>5. NameOf(k) \in Nat
  BY NameFacts
<1> HIDE DEF more, old
<1>6. PackHolds(r, k, n)
  <2> DEFINE T == Total(BlockLengths(old))
             U == Total(BlockLengths(more))
             name == NameOf(k)
             left == p.budget
             m == Len(old)
  <2>1. T = 22500 - left - m /\ U = T + (4 + name + length) /\ m <= k - 1
        /\ rest = left - (length + name + 5) /\ name \in Int
        /\ left \in Int /\ m \in Int
    BY <1>2, <1>4, <1>5
  <2> HIDE DEF T, U, name, left, m, rest, length
  <2>2. U = 22500 - rest - (m + 1) /\ m + 1 <= k
    BY <1>1, <2>1
  <2>3. Len(more) = m + 1
    BY <1>4 DEF m
  <2> QED BY <1>2, <2>2, <2>3 DEF PackHolds, U, more, rest
<1>7. b.dropped = 0 => Told(r, k)
  <2> SUFFICES ASSUME b.dropped = 0 PROVE Told(r, k)
    OBVIOUS
  <2>1. Len(old) + 1 \in DOMAIN more /\ more[Len(old) + 1].section = k
        /\ more[Len(old) + 1].dropped = 0
    BY <1>4
  <2> QED BY <2>1 DEF Told, more
<1>8. ASSUME NEW j, Told(p, j) PROVE Told(r, j)
  <2>1. CASE \E i \in DOMAIN old : old[i].section = j /\ old[i].dropped = 0
    <3>1. PICK i \in DOMAIN old : old[i].section = j /\ old[i].dropped = 0
      BY <2>1
    <3>2. i \in DOMAIN more /\ more[i].section = j /\ more[i].dropped = 0
      BY <1>4, <3>1
    <3> QED BY <3>2 DEF Told, more
  <2>2. CASE ~\E i \in DOMAIN old : old[i].section = j /\ old[i].dropped = 0
    BY <1>8, <2>2 DEF Told, old
  <2> QED BY <2>1, <2>2
<1> QED BY <1>6, <1>7, <1>8

\* A section more, whole or told not to be.
LEMMA SectionAdded ==
    ASSUME conversation \in Conversations, NEW k \in 1 .. 8, NEW p, PackHolds(p, k - 1, k - 1)
    PROVE  LET r == AddSection(p, Sections[k])
           IN  PackHolds(r, k, k) /\ Told(r, k) /\ \A j : Told(p, j) => Told(r, j)
<1> DEFINE s == Sections[k]
           name == s.name
           what == s.what
           left == p.budget
           allowed == Least(s.share, left)
           block == Fit(s.lines, what, allowed)
           size == block.length
           dropped == block.dropped
           rest == left - (size + name + 5)
           added == [p EXCEPT !.budget = rest, !.blocks = Append(p.blocks, Part(k, size, dropped))]
           short == 84 + name
           room == 59 + Digits(dropped) + Digits(Len(s.lines)) + what + name
           r == AddSection(p, s)
<1>1. /\ s.number = k /\ s.lines \in Seq(Nat) /\ s.share \in Nat
      /\ name \in Nat /\ what \in Nat /\ name + what <= 59 /\ name <= 53
  <2>1. FineSection(s, k)
    BY SectionFacts
  <2> HIDE DEF s
  <2> QED BY <2>1 DEF FineSection
<1>2. left \in Int /\ left >= -119
  BY DEF PackHolds, Packs
<1>3. NameOf(k) = name
  BY NameFacts
<1>4. r = IF s.lines = <<>> THEN p
          ELSE IF allowed <= 0 THEN Trim(p, k, short)
          ELSE IF dropped = 0 THEN added ELSE Trim(added, k, room)
  <2> HIDE DEF s
  <2> QED BY <1>1 DEF AddSection
<1>5. PackHolds(p, k, k - 1)
  BY PackStillHolds
<1>6. r = AddSection(p, Sections[k])
  OBVIOUS
<1> HIDE DEF s, name, what, left, r
<1>7. CASE s.lines = <<>>
  <2>1. PackHolds(p, k, k)
    BY PackStillHolds
  <2>2. Told(p, k)
    BY <1>7 DEF Told, s
  <2> QED BY <1>4, <1>6, <1>7, <2>1, <2>2
<1>8. CASE s.lines # <<>> /\ allowed <= 0
  <2>1. r = Trim(p, k, short)
    BY <1>4, <1>8
  <2>2. short \in Nat /\ short <= 137 /\ k - 1 \in Nat /\ (k - 1) + 1 = k
    BY <1>1
  <2> HIDE DEF short
  <2>3. PackHolds(r, k, (k - 1) + 1) /\ Told(r, k) /\ \A j : Told(p, j) => Told(r, j)
    BY <1>5, <2>1, <2>2, NotedHolds
  <2> QED BY <1>6, <2>2, <2>3
<1>9. CASE s.lines # <<>> /\ ~(allowed <= 0)
  <2>1. allowed \in Nat /\ allowed <= left
    BY <1>1, <1>2, <1>9 DEF Least
  <2>2. r = IF dropped = 0 THEN added ELSE Trim(added, k, room)
    BY <1>4, <1>9
  <2> HIDE DEF allowed
  <2>3. dropped \in Nat /\ size \in Int /\ size <= allowed + 55 + what
    BY <1>1, <2>1, FitFacts
  <2> HIDE DEF block, size, dropped
  <2>4. rest \in Int /\ rest >= -119
    BY <1>1, <1>2, <2>1, <2>3
  <2>5. rest = p.budget - (size + NameOf(k) + 5)
    BY <1>3 DEF left
  <2> HIDE DEF rest
  <2>6. k \in 1 .. 9 /\ k - 1 \in Nat /\ (k - 1) + 1 = k
    OBVIOUS
  <2>7. PackHolds(added, k, k - 1) /\ (dropped = 0 => Told(added, k))
        /\ \A j : Told(p, j) => Told(added, j)
    <3> DEFINE b == Part(k, size, dropped)
    <3>1. b \in Blocks /\ b.section = k /\ b.length = size /\ b.dropped = dropped
      BY <2>3, <2>6 DEF Part, Blocks
    <3> HIDE DEF b
    <3>2. p \in Packs
      BY DEF PackHolds
    <3>3. /\ added \in Packs /\ added.budget = rest /\ added.trimmed = p.trimmed
          /\ added.blocks = Append(p.blocks, b)
      <4>1. [p EXCEPT !.budget = rest, !.blocks = Append(p.blocks, b)] = added
        BY DEF b
      <4> HIDE DEF added
      <4> QED BY <2>4, <3>1, <3>2, <4>1, PackLonger, ZenonT(40)
    <3> HIDE DEF added
    <3>4. /\ added.budget = p.budget - (b.length + NameOf(k) + 5) /\ added.budget >= -119
          /\ k \in 1 .. 9 /\ k - 1 \in Nat
      BY <2>4, <2>5, <2>6, <3>1, <3>3
    <3>5. PackHolds(added, k, k - 1) /\ (b.dropped = 0 => Told(added, k))
          /\ \A j : Told(p, j) => Told(added, j)
      BY <3>1, <3>3, <3>4, BlockHolds, Zenon
    <3> QED BY <3>1, <3>5
  <2> HIDE DEF added
  <2>8. CASE dropped = 0
    <3>1. PackHolds(added, k, k)
      BY <2>7, PackStillHolds
    <3> QED BY <1>6, <2>2, <2>7, <2>8, <3>1
  <2>9. CASE dropped # 0
    <3>1. room \in Nat /\ room <= 137
      <4> DEFINE g == Digits(dropped)
                 h == Digits(Len(s.lines))
      <4>1. Len(s.lines) \in Int
        BY <1>1
      <4>2. g \in 1 .. 6 /\ h \in 1 .. 6
        BY <2>3, <4>1, DigitsFew
      <4> HIDE DEF g, h
      <4>3. 59 + g + h + what + name \in Nat /\ 59 + g + h + what + name <= 137
        BY <1>1, <4>2
      <4> QED BY <4>3 DEF g, h
    <3> HIDE DEF room
    <3>2. r = Trim(added, k, room)
      BY <2>2, <2>9
    <3>3. PackHolds(r, k, (k - 1) + 1) /\ Told(r, k) /\ \A j : Told(added, j) => Told(r, j)
      BY <2>6, <2>7, <3>1, <3>2, NotedHolds
    <3> QED BY <1>6, <2>6, <2>7, <3>3
  <2> QED BY <2>8, <2>9
<1> QED BY <1>7, <1>8, <1>9

\* The packs as one section after the other is added to an empty one.
PacksTo(f, n) ==
    f = [k \in 0 .. n |-> IF k = 0 THEN NewPack ELSE AddSection(f[k - 1], Sections[k])]

LEMMA PacksExist == ASSUME NEW n \in Nat PROVE \E f : PacksTo(f, n)
<1> DEFINE S == {m \in 0 .. n : \E f : PacksTo(f, m)}
<1>1. 0 \in S
  <2>1. PacksTo([k \in 0 .. 0 |-> NewPack], 0)
    BY DEF PacksTo
  <2> QED BY <2>1
<1>2. ASSUME NEW m \in 1 .. n, m - 1 \in S PROVE m \in S
  <2>1. PICK f : PacksTo(f, m - 1)
    BY <1>2
  <2> DEFINE g == [k \in 0 .. m |-> IF k = 0 THEN NewPack ELSE AddSection(f[k - 1], Sections[k])]
  <2>2. \A k \in 0 .. m - 1 : g[k] = f[k]
    <3>1. \A k \in 0 .. m - 1 : k \in 0 .. m
      OBVIOUS
    <3>2. \A k \in 0 .. m - 1 : f[k] = IF k = 0 THEN NewPack ELSE AddSection(f[k - 1], Sections[k])
      BY <2>1 DEF PacksTo
    <3> QED BY <3>1, <3>2
  <2>3. \A k \in 0 .. m : k # 0 => k - 1 \in 0 .. m - 1
    OBVIOUS
  <2>4. PacksTo(g, m)
    BY <2>2, <2>3 DEF PacksTo
  <2> HIDE DEF g
  <2> QED BY <2>4
<1>3. \A k \in 0 .. n : k \in S
  <2> HIDE DEF S
  <2> QED BY <1>1, <1>2, NumberByNumber
<1> QED BY <1>3

LEMMA EmptyPack == PackHolds(NewPack, 0, 0)
<1>1. NewPack = [budget |-> 22500, blocks |-> <<>>, trimmed |-> <<>>]
  BY DEF NewPack, MAX_PACK_CHARS, TRIM_NOTE_RESERVE
<1>2. NewPack \in Packs /\ NewPack.budget = 22500 /\ NewPack.blocks = <<>> /\ NewPack.trimmed = <<>>
  BY <1>1 DEF Packs
<1>3. BlockLengths(<<>>) = <<>> /\ Lengths(<<>>) = <<>>
  BY DEF BlockLengths, Lengths
<1>4. Len(<<>>) = 0
  OBVIOUS
<1> QED BY <1>2, <1>3, <1>4, TotalOfNone DEF PackHolds

\* All the sections, each whole or told not to be.
LEMMA SectionsAdded ==
    ASSUME conversation \in Conversations
    PROVE  /\ PackHolds(AddSections(NewPack), 8, 8)
           /\ \A j \in 1 .. 8 : Told(AddSections(NewPack), j)
<1> PICK f : PacksTo(f, 8) /\ AddSections(NewPack) = f[8]
  <2> DEFINE g == CHOOSE h : PacksTo(h, 8)
  <2>1. AddSections(NewPack) = g[8]
    BY SectionFacts DEF AddSections, PacksTo
  <2>2. PacksTo(g, 8)
    BY PacksExist
  <2> QED BY <2>1, <2>2
<1>1. f[0] = NewPack /\ \A k \in 1 .. 8 : f[k] = AddSection(f[k - 1], Sections[k])
  <2>1. \A k \in 0 .. 8 : f[k] = IF k = 0 THEN NewPack ELSE AddSection(f[k - 1], Sections[k])
    BY DEF PacksTo
  <2>2. 0 \in 0 .. 8 /\ \A k \in 1 .. 8 : k \in 0 .. 8 /\ k # 0
    OBVIOUS
  <2> QED BY <2>1, <2>2
<1> DEFINE S == {k \in 0 .. 8 : PackHolds(f[k], k, k) /\ \A j \in 1 .. k : Told(f[k], j)}
<1>2. 0 \in S
  BY <1>1, EmptyPack
<1>3. ASSUME NEW k \in 1 .. 8, k - 1 \in S PROVE k \in S
  <2>1. PackHolds(f[k - 1], k - 1, k - 1) /\ \A j \in 1 .. k - 1 : Told(f[k - 1], j)
    BY <1>3
  <2>2. f[k] = AddSection(f[k - 1], Sections[k])
    BY <1>1
  <2>3. PackHolds(f[k], k, k) /\ Told(f[k], k) /\ \A j : Told(f[k - 1], j) => Told(f[k], j)
    <3> DEFINE p == f[k - 1]
    <3>1. PackHolds(p, k - 1, k - 1) /\ f[k] = AddSection(p, Sections[k])
      BY <2>1, <2>2
    <3> HIDE DEF p
    <3>2. LET r == AddSection(p, Sections[k])
          IN  PackHolds(r, k, k) /\ Told(r, k) /\ \A j : Told(p, j) => Told(r, j)
      BY <3>1, SectionAdded, Zenon
    <3>3. PackHolds(f[k], k, k) /\ Told(f[k], k) /\ \A j : Told(p, j) => Told(f[k], j)
      BY <3>1, <3>2
    <3> QED BY <3>3 DEF p
  <2>4. \A j \in 1 .. k : j = k \/ j \in 1 .. k - 1
    OBVIOUS
  <2>5. \A j \in 1 .. k : Told(f[k], j)
    BY <2>1, <2>3, <2>4
  <2> QED BY <2>3, <2>5
<1>4. \A k \in 0 .. 8 : k \in S
  <2>1. 8 \in Nat
    OBVIOUS
  <2> HIDE DEF S
  <2> QED BY <1>2, <1>3, <2>1, NumberByNumber
<1>5. 8 \in S
  BY <1>4
<1> QED BY <1>5

\* The report takes what is left, and a character more.
LEMMA ReportAdded ==
    ASSUME conversation \in Conversations, NEW p, PackHolds(p, 8, 8)
    PROVE  PackHolds(AddReport(p), 9, 8) /\ \A j : Told(p, j) => Told(AddReport(p), j)
<1> DEFINE left == p.budget
           report == TheRun.report
           cap == Least(MAX_REPORT_CHARS, left - ReportName)
           size == IF report <= cap THEN report ELSE cap + 1
           rest == left - (size + ReportName + 5)
           b == Part(9, size, 0)
           added == [p EXCEPT !.budget = rest, !.blocks = Append(p.blocks, b)]
           r == AddReport(p)
<1>1. left \in Int /\ p \in Packs
  BY DEF PackHolds, Packs
<1>2. report \in Nat
  BY RunFacts
<1>3. r = IF cap <= 0 \/ report = 0 THEN p ELSE added
  <2>1. Len(Sections) = 8
    BY SectionFacts
  <2>2. Len(Sections) + 1 = 9
    BY <2>1
  <2> QED BY <2>2 DEF AddReport
<1>4. r = AddReport(p)
  OBVIOUS
<1> HIDE DEF r, left, report
<1>5. CASE cap <= 0 \/ report = 0
  <2>1. r = p
    BY <1>3, <1>5
  <2>2. PackHolds(p, 9, 8)
    BY PackStillHolds
  <2> QED BY <1>4, <2>1, <2>2
<1>6. CASE ~(cap <= 0 \/ report = 0)
  <2>1. cap \in Nat /\ cap <= left - 34
    BY <1>1, <1>6 DEF Least, MAX_REPORT_CHARS, ReportName
  <2> HIDE DEF cap
  <2>2. size \in Nat /\ size <= cap + 1
    BY <1>2, <2>1
  <2> HIDE DEF size
  <2>3. rest \in Int /\ rest >= -119
    BY <1>1, <2>1, <2>2 DEF ReportName
  <2>4. rest = p.budget - (size + NameOf(9) + 5)
    <3>1. NameOf(9) = 34
      BY NameFacts
    <3> QED BY <3>1 DEF left, ReportName
  <2>5. b \in Blocks /\ b.section = 9 /\ b.length = size
    BY <2>2 DEF Part, Blocks
  <2>6. r = added
    BY <1>3, <1>6 DEF cap, size
  <2> HIDE DEF b, rest
  <2>7. /\ added \in Packs /\ added.budget = rest /\ added.trimmed = p.trimmed
        /\ added.blocks = Append(p.blocks, b)
    BY <1>1, <2>3, <2>5, PackLonger, Zenon
  <2> HIDE DEF added
  <2>8. PackHolds(p, 9 - 1, 8) /\ 9 \in 1 .. 9 /\ 8 \in Nat
    OBVIOUS
  <2>9. PackHolds(added, 9, 8) /\ \A j : Told(p, j) => Told(added, j)
    BY <2>3, <2>4, <2>5, <2>7, <2>8, BlockHolds
  <2> QED BY <1>4, <2>6, <2>9
<1> QED BY <1>5, <1>6

LEMMA RenderedFits ==
    ASSUME conversation \in Conversations, NEW p, PackHolds(p, 9, 8)
    PROVE  RenderedPack(p) <= MAX_PACK_CHARS
<1> DEFINE sizes == BlockLengths(p.blocks)
           x == 37 + Total(Lengths(p.trimmed)) + Len(p.trimmed) - 1
           parts == sizes \o IF p.trimmed = <<>> THEN <<>> ELSE <<x>>
           T == Total(sizes)
           n == Len(p.blocks)
<1>1. p \in Packs /\ T = 22500 - p.budget - n /\ p.budget >= -119 /\ n <= 9
      /\ Len(p.trimmed) <= 8 /\ Total(Lengths(p.trimmed)) <= 137 * 8
  BY DEF PackHolds
<1>2. p.budget \in Int /\ p.blocks \in Seq(Blocks) /\ n \in Nat
      /\ Total(Lengths(p.trimmed)) \in Int /\ Len(p.trimmed) \in Nat
  <2>1. p.budget \in Int /\ p.blocks \in Seq(Blocks)
    BY <1>1 DEF Packs
  <2> QED BY <1>1, <2>1, PackTotals
<1>3. sizes \in Seq(Int) /\ Len(sizes) = n
  BY <1>2, BlockLengthsType
<1>4. RenderedPack(p) = IF parts = <<>> THEN 0 ELSE Total(parts) + 2 * (Len(parts) - 1)
  BY DEF RenderedPack, BlockLengths, NameOf
<1>5. x \in Int /\ x <= 1140
  <2> DEFINE a == Total(Lengths(p.trimmed))
             m == Len(p.trimmed)
  <2>1. a \in Int /\ m \in Nat /\ a <= 1096 /\ m <= 8
    BY <1>1, <1>2
  <2>2. x = 37 + a + m - 1
    OBVIOUS
  <2> HIDE DEF a, m, x
  <2> QED BY <2>1, <2>2
<1>6. T \in Int /\ T + n <= 22619 /\ n \in Nat /\ n <= 9
  <2> DEFINE left == p.budget
  <2>1. T = 22500 - left - n /\ left >= -119 /\ n <= 9 /\ n \in Nat /\ left \in Int
    BY <1>1, <1>2
  <2> HIDE DEF T, n, left
  <2> QED BY <2>1
<1> HIDE DEF sizes, x
<1>7. (Total(parts) = T /\ Len(parts) = n) \/ (Total(parts) = T + x /\ Len(parts) = n + 1)
  <2>1. CASE p.trimmed = <<>>
    <3>1. parts = sizes
      BY <1>3, <2>1
    <3> QED BY <1>3, <3>1
  <2>2. CASE p.trimmed # <<>>
    <3>1. parts = Append(sizes, x)
      BY <1>3, <1>5, <2>2
    <3>2. Total(Append(sizes, x)) = T + x
      BY <1>3, <1>5, TotalOfMore
    <3>3. Len(Append(sizes, x)) = n + 1
      BY <1>3
    <3> QED BY <3>1, <3>2, <3>3
  <2> QED BY <2>1, <2>2
<1> DEFINE U == Total(parts)
           m == Len(parts)
<1> HIDE DEF T, n, parts
<1>8. U + 2 * (m - 1) <= 24000
  <2>1. (U = T /\ m = n) \/ (U = T + x /\ m = n + 1)
    BY <1>7
  <2> HIDE DEF U, m
  <2> QED BY <1>5, <1>6, <2>1
<1> QED BY <1>4, <1>8 DEF MAX_PACK_CHARS

-----------------------------------------------------------------------------
\* What the promise says of a pack.
Sound(p) ==
    /\ RenderedPack(p) <= MAX_PACK_CHARS
    /\ \A k \in DOMAIN Sections : Told(p, k)

LEMMA BuiltSound == ASSUME conversation \in Conversations PROVE Sound(BuildPack)
<1> DEFINE p == AddSections(NewPack)
<1>1. PackHolds(p, 8, 8) /\ \A j \in 1 .. 8 : Told(p, j)
  BY SectionsAdded
<1>2. BuildPack = AddReport(p)
  BY DEF BuildPack
<1> HIDE DEF p
<1>3. PackHolds(BuildPack, 9, 8) /\ \A j : Told(p, j) => Told(BuildPack, j)
  BY <1>1, <1>2, ReportAdded
<1>4. RenderedPack(BuildPack) <= MAX_PACK_CHARS
  BY <1>3, RenderedFits
<1>5. DOMAIN Sections = 1 .. 8
  BY SectionFacts
<1> QED BY <1>1, <1>3, <1>4, <1>5 DEF Sound

\* The sections are those of the conversation.
LEMMA SameSections == ASSUME UNCHANGED conversation PROVE Sections' = Sections
<1>1. UNCHANGED <<TheRun, Limits>>
  BY DEF TheRun, Limits
<1>2. UNCHANGED <<GlobalRules, SubtypeRules, Earlier, CoveredEntries, GuidanceLines, Inventory, Aggregates>>
  BY <1>1 DEF GlobalRules, SubtypeRules, Earlier, CoveredEntries, GuidanceLines, Inventory, Aggregates
<1>3. UNCHANGED <<HistoryLines, CoverageLines>>
  BY <1>1, <1>2 DEF HistoryLines, CoverageLines
<1> QED BY <1>1, <1>2, <1>3 DEF Sections

PackIInv ==
    /\ conversation \in Conversations
    /\ chat = "streaming" => Sound(pack.given)

LEMMA PackKept == ASSUME PackIInv, [ChatNext]_chatVars PROVE PackIInv'
<1>1. ASSUME UNCHANGED conversation, NEW p, pack'.given = p, Sound(p) PROVE Sound(pack.given)'
  <2>1. Sections' = Sections
    BY <1>1, SameSections
  <2> HIDE DEF Sections
  <2> QED BY <1>1, <2>1 DEF Sound, RenderedPack, Told
<1>2. CASE AskModel /\ MayNotAsk = ""
  <2>1. UNCHANGED conversation /\ pack'.given = BuildPack
    <3>1. UNCHANGED conversation /\ pack' = [turns |-> TurnsKept, given |-> BuildPack]
      BY <1>2 DEF AskModel
    <3> DEFINE built == BuildPack
    <3>2. pack' = [turns |-> TurnsKept, given |-> built]
      BY <3>1
    <3> HIDE DEF built
    <3>3. pack'.given = built
      BY <3>2
    <3> QED BY <3>1, <3>3 DEF built
  <2>2. conversation \in Conversations /\ Sound(BuildPack)
    BY BuiltSound DEF PackIInv
  <2>3. Sound(pack.given)'
    BY <1>1, <2>1, <2>2
  <2> QED BY <2>1, <2>2, <2>3 DEF PackIInv
<1>3. ASSUME UNCHANGED <<conversation, pack>>, chat' = "streaming" => chat = "streaming"
      PROVE  PackIInv'
  <2>1. CASE chat' = "streaming"
    <3>1. Sound(pack.given)
      BY <1>3, <2>1 DEF PackIInv
    <3>2. Sound(pack.given)'
      BY <1>1, <1>3, <3>1
    <3> QED BY <1>3, <3>2 DEF PackIInv
  <2>2. CASE chat' # "streaming"
    BY <1>3, <2>2 DEF PackIInv
  <2> QED BY <2>1, <2>2
<1>4. CASE OpenPanel
  BY <1>3, <1>4 DEF OpenPanel
<1>5. CASE AskModel /\ MayNotAsk # ""
  BY <1>3, <1>5 DEF AskModel
<1>6. CASE EndOfStream \/ ModelFails
  BY <1>3, <1>6 DEF EndOfStream, ModelFails
<1>7. CASE \E n \in 1 .. Len(FullAnswer) : Piece(n)
  BY <1>3, <1>7 DEF Piece
<1>8. CASE UNCHANGED chatVars
  BY <1>3, <1>8 DEF chatVars
<1> QED BY <1>2, <1>4, <1>5, <1>6, <1>7, <1>8 DEF ChatNext

\* The pack put before the model never exceeds its ceiling, the notes about what was left out
\* included, and of each section either every line is in it or there is such a note, whatever
\* is stored about the run (chat/pack.py build_pack).
THEOREM PacksKeepTheirCeiling == ChatSpec => []PackKeepsItsCeiling
<1>1. ChatInit => PackIInv
  BY DEF ChatInit, NothingAsked, PackIInv
<1>2. PackIInv /\ [ChatNext]_chatVars => PackIInv'
  BY PackKept
<1>3. PackIInv => PackKeepsItsCeiling
  BY DEF PackIInv, PackKeepsItsCeiling, Sound, Told
<1> QED BY <1>1, <1>2, <1>3, PTL DEF ChatSpec
=============================================================================
