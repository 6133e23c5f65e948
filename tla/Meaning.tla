---- MODULE Meaning ----
(***************************************************************************)
(* What the business meanings and the validation guides say, and the       *)
(* checks compiled from them (meaning/, checks/guides.py, and the handlers *)
(* of api/routers/meaning.py).                                             *)
(*                                                                         *)
(* A confirmed meaning compiles into a check and, when it suggests one, a  *)
(* compliance rule; a guide entry that can be located compiles into a      *)
(* check. Rejecting or deleting retires what was compiled. Between those   *)
(* moments the compiled rows are ordinary rules of the Rules screen.       *)
(* Two writers change what is written without compiling it: the model's    *)
(* interview, which lasts as long as its calls, and the revert of an       *)
(* artifact type, which puts an old guide back.                            *)
(*                                                                         *)
(* A content stands for everything an entry says; Yields is what it is     *)
(* concrete enough to compile into when the samples resolve it.            *)
(***************************************************************************)
EXTENDS FiniteSets

CONSTANTS Entries,   \* (scope, key) of the business meanings
          Guides,    \* guide entries of one artifact type
          Contents,  \* what an entry may say
          Yields,    \* Contents -> what each compiles into
          NoContent

Targets == {"check", "compliance_rule"}
Written == Entries \cup Guides

ASSUME MeaningAssumption ==
    /\ Yields \in [Contents -> SUBSET Targets]
    /\ NoContent \notin Contents
    /\ Entries \cap Guides = {}

VARIABLES entry,      \* meaning_entries, and the guide entries of the type
          compiled,   \* the rows compiled from each
          readable,   \* whether the samples in scope resolve the entries' cells
          interview,  \* what propose has read
          byScreen,   \* history: compiled rows the Rules screen brought back
          unwritten   \* history: entries rewritten without compiling

meaningVars == <<entry, compiled, readable, interview, byScreen, unwritten>>

EntryStatuses == {"proposed", "open", "confirmed", "rejected"}
Absent == [status |-> "none", content |-> NoContent]
NotCompiled == [state |-> "none", content |-> NoContent]

Live(row) == row.state \in {"shadow", "active", "disabled"}
IsRunning(row) == row.state \in {"shadow", "active"}

\* compile_entry asks for an example on a sample before it makes a check; guides do too.
Wanted(e, content) ==
    {k \in Yields[content] : k = "check" => readable} \ (IF e \in Guides THEN {"compliance_rule"} ELSE {})

\* Faulty variant: a row that is live keeps the wording it has.
CompiledRowOnce(row, content, wanted) ==
    IF wanted THEN [state |-> IF Live(row) THEN row.state ELSE "shadow",
                    content |-> IF Live(row) THEN row.content ELSE content]
    ELSE IF Live(row) THEN [row EXCEPT !.state = "deleted"] ELSE row

\* compile_entry and guides.compile_checks: a missing row starts in shadow, a deleted one
\* comes back in shadow, a live one keeps its state; what is no longer wanted is deleted.
CompiledRow(row, content, wanted) ==
    IF wanted THEN [state |-> IF Live(row) THEN row.state ELSE "shadow", content |-> content]
    ELSE IF Live(row) THEN [row EXCEPT !.state = "deleted"] ELSE row

Compile(e, content) ==
    [k \in Targets |-> CompiledRow(compiled[e][k], content, k \in Wanted(e, content))]

\* Faulty variant: the compliance rule is forgotten.
RetireCheckOnly(e) ==
    [k \in Targets |-> IF k = "check" /\ Live(compiled[e][k])
                       THEN [compiled[e][k] EXCEPT !.state = "deleted"] ELSE compiled[e][k]]

\* retire_entry.
Retire(e) ==
    [k \in Targets |-> IF Live(compiled[e][k]) THEN [compiled[e][k] EXCEPT !.state = "deleted"]
                       ELSE compiled[e][k]]

\* The exceptions the last compilation of an entry ends.
Settled(S) == /\ byScreen' = {b \in byScreen : b[1] \notin S}
              /\ unwritten' = unwritten \ S

----------------------------------------------------------------------------
MeaningInit ==
    /\ entry = [e \in Written |-> Absent]
    /\ compiled = [e \in Written |-> [k \in Targets |-> NotCompiled]]
    /\ readable \in BOOLEAN
    /\ interview = [asking |-> FALSE]
    /\ byScreen = {}
    /\ unwritten = {}

Confirm(e, content) ==
    /\ entry' = [entry EXCEPT ![e] = [status |-> "confirmed", content |-> content]]
    /\ compiled' = [compiled EXCEPT ![e] = Compile(e, content)]
    /\ Settled({e})
    /\ UNCHANGED <<readable, interview>>

(* create_entry: an administrator's entry is confirmed as it is written.   *)
CreateEntry(e, content) ==
    /\ e \in Entries /\ entry[e] = Absent
    /\ Confirm(e, content)

(* edit_entry: the fields, then _decide when a status came with them.      *)
EditEntry(e, content, status) ==
    /\ e \in Entries /\ entry[e] # Absent
    /\ \/ /\ \/ status = "confirmed"
             \/ status = "" /\ entry[e].status = "confirmed"
          /\ Confirm(e, content)
       \/ /\ status = "rejected"
          /\ entry' = [entry EXCEPT ![e] = [status |-> status, content |-> content]]
          /\ compiled' = [compiled EXCEPT ![e] = Retire(e)]
          /\ Settled({e})
          /\ UNCHANGED <<readable, interview>>
       \/ /\ \/ status \in {"proposed", "open"}
             \/ status = "" /\ entry[e].status # "confirmed"
          /\ entry' = [entry EXCEPT ![e] =
                 [status |-> IF status = "" THEN entry[e].status ELSE status, content |-> content]]
          /\ UNCHANGED <<compiled, readable, interview, byScreen, unwritten>>

(* bulk: every entry chosen, in one transaction.                           *)
Bulk(S, action) ==
    /\ S # {} /\ S \subseteq Entries /\ \A e \in S : entry[e] # Absent
    /\ entry' = [e \in Written |->
           IF e \notin S THEN entry[e]
           ELSE CASE action = "confirm" -> [entry[e] EXCEPT !.status = "confirmed"]
                  [] action = "reject"  -> [entry[e] EXCEPT !.status = "rejected"]
                  [] action = "delete"  -> Absent]
    /\ compiled' = [e \in Written |->
           IF e \notin S THEN compiled[e]
           ELSE IF action = "confirm" THEN Compile(e, entry[e].content) ELSE Retire(e)]
    /\ Settled(S)
    /\ UNCHANGED <<readable, interview>>

----------------------------------------------------------------------------
(* interview.propose: the entries are read, the model is asked section by  *)
(* section, and every entry it names that was not confirmed is rewritten.  *)
ProposeRead ==
    /\ ~interview.asking
    /\ interview' = [asking |-> TRUE, read |-> [e \in Entries |-> entry[e]]]
    /\ UNCHANGED <<entry, compiled, readable, byScreen, unwritten>>

\* The mapper writes the columns whose value differs from what was read.
Rewritten(now, read, status, content) ==
    [status  |-> IF status = read.status THEN now.status ELSE status,
     content |-> IF content = read.content THEN now.content ELSE content]

ProposeCommit(says, status) ==
    /\ interview.asking
    /\ LET read == interview.read
           named == {e \in Entries : says[e] # NoContent /\ read[e].status # "confirmed"}
           new(e) == Rewritten(entry[e], read[e], status[e], says[e])
       IN /\ \A e \in named : (read[e] = Absent) <=> (entry[e] = Absent)
          /\ entry' = [e \in Written |-> IF e \in named THEN new(e) ELSE entry[e]]
          /\ unwritten' = unwritten \cup {e \in named : entry[e].status = "confirmed"}
    /\ interview' = [asking |-> FALSE]
    /\ UNCHANGED <<compiled, readable, byScreen>>

\* The model failed, or an entry was created or deleted under the interview: rolled back.
ProposeFails ==
    /\ interview.asking
    /\ interview' = [asking |-> FALSE]
    /\ UNCHANGED <<entry, compiled, readable, byScreen, unwritten>>

----------------------------------------------------------------------------
(* admin.save_guide: the type's guide is replaced and its checks compiled. *)
SaveGuide(says) ==
    /\ entry' = [e \in Written |->
           IF e \notin Guides THEN entry[e]
           ELSE IF says[e] = NoContent THEN Absent
           ELSE [status |-> "confirmed", content |-> says[e]]]
    /\ compiled' = [e \in Written |->
           IF e \notin Guides THEN compiled[e]
           ELSE IF says[e] = NoContent THEN Retire(e) ELSE Compile(e, says[e])]
    /\ Settled(Guides)
    /\ UNCHANGED <<readable, interview>>

(* versions._restore_artifact puts a guide back as an earlier version had  *)
(* it, and compiles nothing.                                               *)
RevertGuide(says) ==
    /\ entry' = [e \in Written |->
           IF e \notin Guides THEN entry[e]
           ELSE IF says[e] = NoContent THEN Absent
           ELSE [status |-> "confirmed", content |-> says[e]]]
    /\ unwritten' = unwritten \cup {e \in Guides : entry[e] # entry'[e]}
    /\ UNCHANGED <<compiled, readable, interview, byScreen>>

\* A sample is uploaded or deleted: nothing is compiled again.
SamplesChange ==
    /\ readable' = ~readable
    /\ UNCHANGED <<entry, compiled, interview, byScreen, unwritten>>

(* The Rules screen moves a compiled row like any other.                   *)
MoveCompiled(e, k, to) ==
    /\ compiled[e][k].state # "none"
    /\ compiled' = [compiled EXCEPT ![e][k].state = to]
    /\ byScreen' = IF compiled[e][k].state = "deleted" /\ to # "deleted"
                   THEN byScreen \cup {<<e, k>>} ELSE byScreen
    /\ UNCHANGED <<entry, readable, interview, unwritten>>

----------------------------------------------------------------------------
MeaningNext ==
    \/ \E e \in Entries, content \in Contents :
           \/ CreateEntry(e, content)
           \/ \E status \in EntryStatuses \cup {""} : EditEntry(e, content, status)
    \/ \E S \in SUBSET Entries, action \in {"confirm", "reject", "delete"} : Bulk(S, action)
    \/ ProposeRead
    \/ \E says \in [Entries -> Contents \cup {NoContent}], status \in [Entries -> {"proposed", "open"}] :
           ProposeCommit(says, status)
    \/ ProposeFails
    \/ \E says \in [Guides -> Contents \cup {NoContent}] : SaveGuide(says) \/ RevertGuide(says)
    \/ SamplesChange
    \/ \E e \in Written, k \in Targets, to \in {"active", "disabled", "deleted"} :
           MoveCompiled(e, k, to)

MeaningSpec == MeaningInit /\ [][MeaningNext]_meaningVars

----------------------------------------------------------------------------
AnEntry == [status : EntryStatuses \cup {"none"}, content : Contents \cup {NoContent}]
ARow == [state : {"none", "shadow", "active", "disabled", "deleted"},
         content : Contents \cup {NoContent}]

\* The types of the entries, of the rows compiled from them, and of the interview.
MeaningTypeOK ==
    /\ entry \in [Written -> AnEntry]
    /\ compiled \in [Written -> [Targets -> ARow]]
    /\ readable \in BOOLEAN
    /\ interview.asking \in BOOLEAN
    /\ interview.asking => interview.read \in [Entries -> AnEntry]
    /\ byScreen \subseteq Written \X Targets
    /\ unwritten \subseteq Written

\* Nothing runs for an entry that is rejected, deleted or taken out of its guide, unless
\* the Rules screen brought it back or a revert took the entry away: retire_entry and
\* compile_checks stand down every row compile_entry ever made.
NothingRunsForTheRejected ==
    \A e \in Written, k \in Targets :
        /\ entry[e].status \in {"none", "rejected"} /\ IsRunning(compiled[e][k])
        => <<e, k>> \in byScreen \/ e \in unwritten

\* What runs for a confirmed entry is what the entry says: neither an edit, a sample
\* that goes, nor a confirmation after a rejection leaves an earlier wording running.
\* Excepted are rows the Rules screen brought back, and entries an interview or a revert
\* rewrote after they were compiled.
ConfirmedSaysWhatRuns ==
    \A e \in Written, k \in Targets :
        /\ entry[e].status = "confirmed" /\ IsRunning(compiled[e][k])
        => \/ compiled[e][k].content = entry[e].content /\ k \in Yields[entry[e].content]
           \/ <<e, k>> \in byScreen
           \/ e \in unwritten
====
