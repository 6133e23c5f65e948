---- MODULE LearnedRules ----
(***************************************************************************)
(* How a reviewer's sentence becomes a rule that runs, and how a rule is   *)
(* switched, superseded, deleted, restored and forgotten (training/,       *)
(* api/routers/training.py, and the rule screens of api/routers/admin.py). *)
(*                                                                         *)
(* A rule's row says two things about whether it runs, `state` and         *)
(* `active` (is_active), and several handlers write only one of them.      *)
(* Approving a candidate reads the rules it overlaps and writes them at    *)
(* its commit: a request is two steps, and its second writes only the      *)
(* columns it changed since it read them, as the object mapper does.       *)
(* Asking a model to draft rules takes as long as the model takes.         *)
(*                                                                         *)
(* A body stands for what a rule tests and where (its fingerprint). The    *)
(* wording of statements, severities and notes is left out.                *)
(***************************************************************************)
EXTENDS Naturals, FiniteSets

CONSTANTS Statements,   \* training_observations rows that may come to exist
          MaxCandidates, \* rule_candidates rows are 1 .. MaxCandidates
          MaxRules,     \* rows of the rule tables are 1 .. MaxRules
          Kinds,        \* the rule tables in play
          Names,        \* names checks and compliance rules are saved under
          Bodies,       \* what rules test
          Blank,        \* the body a tombstone has
          Teachers,     \* requests of the training screens that take two steps
          RestoreWindow \* RESTORE_WINDOW_DAYS

ASSUME RulesAssumption ==
    /\ {"check", "compliance_rule"} \subseteq Kinds
    /\ Kinds \subseteq {"check", "compliance_rule", "field_constraint"}
    /\ Blank \notin Bodies
    /\ MaxCandidates \in Nat /\ MaxRules \in Nat /\ RestoreWindow \in Nat

Candidates == 1 .. MaxCandidates
Rules == 1 .. MaxRules
NoCandidate == 0        \* the candidate_id of a rule nobody taught

VARIABLES statement,  \* status of each training_observations row
          candidate,  \* rule_candidates
          rule,       \* the rule tables
          teacher,    \* what a two-step request has read
          byHand,     \* history: rules an administrator switched on or rewrote
          decided     \* history: pairs an approver said should both run

rulesVars == <<statement, candidate, rule, teacher, byHand, decided>>

States == {"shadow", "active", "disabled", "deleted"}

NoRule == [kind |-> "none", state |-> "none", active |-> FALSE, name |-> Blank,
           version |-> 0, body |-> Blank, gone |-> 0, from |-> NoCandidate]
Removed == "removed"    \* a row that was deleted for good; its id is not used again

NotAsking == [doing |-> "nothing"]

\* gone: 0 when deleted_at is empty, else one more than the days since.
Forever == RestoreWindow + 2

Exists(r) == rule[r].state \in States
Fresh(r) == rule[r].state = "none" /\ \A s \in 1 .. r - 1 : rule[s].state # "none"
Learned(r) == rule[r].from # NoCandidate
OutOfWindow(row) == row.state = "deleted" /\ row.gone > RestoreWindow + 1

\* A rule the next run loads: load_admin_config asks `active` or shadow of the tables
\* that have the column, and the state of the one that has not.
Runs(r) == LET row == rule[r] IN
    IF row.kind = "field_constraint" THEN row.state \in {"active", "shadow"}
    ELSE Exists(r) /\ row.state # "deleted" /\ (row.active \/ row.state = "shadow")

\* Faulty variant: only active rules are looked at.
ConflictsActiveOnly(kind, body) ==
    {r \in Rules : /\ Exists(r) /\ rule[r].state = "active"
                   /\ rule[r].kind = kind /\ rule[r].body = body}

\* find_conflicts: every rule of the table that is not deleted and tests the same.
Conflicts(kind, body) ==
    {r \in Rules : /\ Exists(r) /\ rule[r].state # "deleted"
                   /\ rule[r].kind = kind /\ rule[r].body = body}

\* The fields set_state gives a row, whatever it was.
Moved(row, to) ==
    [row EXCEPT !.state = to,
                !.gone = IF to = "deleted" THEN 1 ELSE 0,
                !.active = row.kind # "field_constraint" /\ to = "active"]

\* What a flush writes: the columns that differ from what was read.
Flushed(now, read, new) ==
    [now EXCEPT !.state  = IF new.state = read.state THEN now.state ELSE new.state,
                !.active = IF new.active = read.active THEN now.active ELSE new.active,
                !.gone   = IF new.gone = read.gone THEN now.gone ELSE new.gone]

----------------------------------------------------------------------------
RulesInit ==
    /\ statement = [o \in Statements |-> "none"]
    /\ candidate = [c \in Candidates |-> [status |-> "none", kind |-> "none", sources |-> {}]]
    /\ rule = [r \in Rules |-> NoRule]
    /\ teacher = [q \in Teachers |-> NotAsking]
    /\ byHand = {}
    /\ decided = {}

(* create_observation, withdraw_observation, reject_observation. *)
Observe(o) ==
    /\ statement[o] = "none"
    /\ statement' = [statement EXCEPT ![o] = "new"]
    /\ UNCHANGED <<candidate, rule, teacher, byHand, decided>>

Withdraw(o) ==
    /\ statement[o] \in {"new", "rejected"}
    /\ statement' = [statement EXCEPT ![o] = "withdrawn"]
    /\ UNCHANGED <<candidate, rule, teacher, byHand, decided>>

RejectStatement(o) ==
    /\ statement[o] # "none"
    /\ statement' = [statement EXCEPT ![o] = "rejected"]
    /\ UNCHANGED <<candidate, rule, teacher, byHand, decided>>

\* synthesize: what the model drafted from a set of statements. A rule that does not
\* validate becomes a candidate that is rejected at once.
Drafted(S, new, kinds, sound) ==
    /\ new # {} /\ \A c \in new : candidate[c].status = "none"
    /\ \A c \in new : \A d \in 1 .. c - 1 : d \in new \/ candidate[d].status # "none"
    /\ candidate' = [c \in Candidates |->
           IF c \notin new THEN candidate[c]
           ELSE [status |-> IF c \in sound THEN "draft" ELSE "rejected",
                 kind |-> kinds[c], sources |-> S]]
    /\ statement' = [o \in Statements |-> IF o \in S THEN "synthesized" ELSE statement[o]]

(* synthesize_candidates up to the call of the model, and from its answer on. *)
SynthesizeRead(q, S) ==
    /\ teacher[q] = NotAsking
    /\ S # {} /\ \A o \in S : statement[o] \notin {"none", "synthesized"}
    /\ teacher' = [teacher EXCEPT ![q] = [doing |-> "synthesize", statements |-> S]]
    /\ UNCHANGED <<statement, candidate, rule, byHand, decided>>

SynthesizeCommit(q, new, kinds, sound) ==
    /\ teacher[q].doing = "synthesize"
    /\ Drafted(teacher[q].statements, new, kinds, sound)
    /\ teacher' = [teacher EXCEPT ![q] = NotAsking]
    /\ UNCHANGED <<rule, byHand, decided>>

\* The model failed, or drafted nothing: nothing is marked.
SynthesizeFails(q) ==
    /\ teacher[q].doing = "synthesize"
    /\ teacher' = [teacher EXCEPT ![q] = NotAsking]
    /\ UNCHANGED <<statement, candidate, rule, byHand, decided>>

\* front_door.place: a statement and the draft made of it, in one transaction.
FrontDoor(o, new, kinds, sound) ==
    /\ statement[o] = "none"
    /\ Drafted({o}, new, kinds, sound)
    /\ UNCHANGED <<rule, teacher, byHand, decided>>

----------------------------------------------------------------------------
\* Faulty variant: a candidate that was decided on is approved again.
ApproveReadAgain(q, c, body, resolution) ==
    /\ teacher[q] = NotAsking
    /\ candidate[c].status \in {"draft", "approved"}
    /\ LET same == Conflicts(candidate[c].kind, body) IN
        /\ same # {} => resolution \in {"supersede", "keep_both"}
        /\ teacher' = [teacher EXCEPT ![q] =
               [doing |-> "approve", candidate |-> c, body |-> body, resolution |-> resolution,
                conflicts |-> same, read |-> [r \in same |-> rule[r]]]]
    /\ UNCHANGED <<statement, candidate, rule, byHand, decided>>

(* approve_candidate: the checks of synthesis.approve, then its writes.    *)
ApproveRead(q, c, body, resolution) ==
    /\ teacher[q] = NotAsking
    /\ candidate[c].status = "draft"
    /\ LET same == Conflicts(candidate[c].kind, body) IN
        /\ same # {} => resolution \in {"supersede", "keep_both"}
        /\ teacher' = [teacher EXCEPT ![q] =
               [doing |-> "approve", candidate |-> c, body |-> body, resolution |-> resolution,
                conflicts |-> same, read |-> [r \in same |-> rule[r]]]]
    /\ UNCHANGED <<statement, candidate, rule, byHand, decided>>

NewRow(kind, state, name, body, from) ==
    [kind |-> kind, state |-> state, active |-> kind # "field_constraint" /\ state = "active",
     name |-> name, version |-> 1, body |-> body, gone |-> 0, from |-> from]

\* The names of compliance rules are unique.
NameIsFree(kind, name) ==
    kind = "compliance_rule" =>
        \A r \in Rules : Exists(r) /\ rule[r].kind = kind => rule[r].name # name

\* The rows of _supersede: everything the approver was shown, disabled.
Superseded(asked, r) ==
    IF asked.resolution = "supersede" /\ r \in asked.conflicts /\ Exists(r)
    THEN Flushed(rule[r], asked.read[r], Moved(asked.read[r], "disabled"))
    ELSE rule[r]

ApproveCommit(q, r, state, name) ==
    /\ teacher[q].doing = "approve"
    /\ Fresh(r) /\ state \in {"shadow", "active"}
    /\ LET asked == teacher[q]
           c == asked.candidate
       IN /\ NameIsFree(candidate[c].kind, name)
          /\ candidate' = [candidate EXCEPT ![c].status = "approved"]
          /\ rule' = [s \in Rules |->
                 IF s = r THEN NewRow(candidate[c].kind, state, name, asked.body, c)
                 ELSE Superseded(asked, s)]
          /\ decided' = decided \cup
                 (IF asked.resolution = "keep_both" THEN {{r, s} : s \in asked.conflicts} ELSE {})
    /\ teacher' = [teacher EXCEPT ![q] = NotAsking]
    /\ UNCHANGED <<statement, byHand>>

\* Its name is taken, or the connection went: the transaction is rolled back.
ApproveFails(q) ==
    /\ teacher[q].doing = "approve"
    /\ teacher' = [teacher EXCEPT ![q] = NotAsking]
    /\ UNCHANGED <<statement, candidate, rule, byHand, decided>>

(* reject_candidate asks nothing of the candidate's status. *)
RejectCandidate(c) ==
    /\ candidate[c].status # "none"
    /\ candidate' = [candidate EXCEPT ![c].status = "rejected"]
    /\ UNCHANGED <<statement, rule, teacher, byHand, decided>>

----------------------------------------------------------------------------
(* The Rules screen: lifecycle.set_state behind enable, disable, delete    *)
(* and restore. act_on_rules does several of these in one transaction.     *)
SetState(r, to) ==
    /\ Exists(r)
    /\ to # "deleted" => ~OutOfWindow(rule[r])
    /\ rule' = [rule EXCEPT ![r] = Moved(rule[r], to)]
    /\ UNCHANGED <<statement, candidate, teacher, decided>>

Enable(r)  == SetState(r, "active") /\ byHand' = byHand \cup {r}
Disable(r) == SetState(r, "disabled") /\ UNCHANGED byHand
Delete(r)  == SetState(r, "deleted") /\ UNCHANGED byHand
Restore(r) == SetState(r, "disabled") /\ rule[r].state = "deleted" /\ UNCHANGED byHand

(* admin.save_check: a new version, and the newest one so far switched off. *)
SaveCheck(r, name, body, on) ==
    /\ Fresh(r)
    /\ LET versions == {s \in Rules : Exists(s) /\ rule[s].kind = "check" /\ rule[s].name = name}
           newest == {s \in versions : \A t \in versions : rule[t].version <= rule[s].version}
       IN \E last \in IF versions = {} THEN {r} ELSE newest :
            rule' = [rule EXCEPT ![last].active = FALSE,
                                 ![r] = [NewRow("check", "active", name, body, NoCandidate)
                                            EXCEPT !.active = on,
                                                   !.version = rule[last].version + 1]]
    /\ byHand' = byHand \cup {r}
    /\ UNCHANGED <<statement, candidate, teacher, decided>>

(* admin.set_check_active: the switch without the state. *)
SetCheckActive(r, on) ==
    /\ Exists(r) /\ rule[r].kind = "check"
    /\ rule' = [rule EXCEPT ![r].active = on]
    /\ byHand' = IF on THEN byHand \cup {r} ELSE byHand
    /\ UNCHANGED <<statement, candidate, teacher, decided>>

(* admin.save_compliance_rule: creates or overwrites the rule of a name.   *)
SaveCompliance(r, name, body, on) ==
    /\ \/ Exists(r) /\ rule[r].kind = "compliance_rule" /\ rule[r].name = name
       \/ Fresh(r) /\ NameIsFree("compliance_rule", name)
    /\ rule' = [rule EXCEPT ![r] =
           [IF Exists(r) THEN rule[r] ELSE NewRow("compliance_rule", "active", name, body, NoCandidate)
               EXCEPT !.body = body, !.active = on]]
    /\ byHand' = byHand \cup {r}
    /\ UNCHANGED <<statement, candidate, teacher, decided>>

(* admin.edit_compliance_rule, and admin.delete_compliance_rule.           *)
EditCompliance(r, body) ==
    /\ Exists(r) /\ rule[r].kind = "compliance_rule" /\ rule[r].state # "deleted"
    /\ rule' = [rule EXCEPT ![r].body = body]
    /\ byHand' = byHand \cup {r}
    /\ UNCHANGED <<statement, candidate, teacher, decided>>

DeleteCompliance(r) ==
    /\ Exists(r) /\ rule[r].kind = "compliance_rule"
    /\ rule' = [rule EXCEPT ![r].state = Removed, ![r].active = FALSE]
    /\ UNCHANGED <<statement, candidate, teacher, byHand, decided>>

(* A day passes; purge_deleted_rules, in the sweep of the worker.          *)
Day ==
    /\ \E r \in Rules : rule[r].gone \in 1 .. Forever - 1
    /\ rule' = [r \in Rules |->
           IF rule[r].gone \in 1 .. Forever - 1 THEN [rule[r] EXCEPT !.gone = rule[r].gone + 1]
           ELSE rule[r]]
    /\ UNCHANGED <<statement, candidate, teacher, byHand, decided>>

PurgeRules ==
    /\ \E r \in Rules : OutOfWindow(rule[r]) /\ rule[r].body # Blank
    /\ rule' = [r \in Rules |->
           IF OutOfWindow(rule[r]) THEN [rule[r] EXCEPT !.body = Blank] ELSE rule[r]]
    /\ UNCHANGED <<statement, candidate, teacher, byHand, decided>>

----------------------------------------------------------------------------
TeacherStep(q) ==
    \/ \E S \in SUBSET Statements : SynthesizeRead(q, S)
    \/ \E new \in SUBSET Candidates : \E sound \in SUBSET new, kinds \in [Candidates -> Kinds] :
           SynthesizeCommit(q, new, kinds, sound)
    \/ SynthesizeFails(q)
    \/ \E c \in Candidates, body \in Bodies, how \in {"", "supersede", "keep_both"} :
           ApproveRead(q, c, body, how)
    \/ \E r \in Rules, state \in {"shadow", "active"}, name \in Names :
           ApproveCommit(q, r, state, name)
    \/ ApproveFails(q)

StatementStep(o) ==
    \/ Observe(o) \/ Withdraw(o) \/ RejectStatement(o)
    \/ \E new \in SUBSET Candidates : \E sound \in SUBSET new, kinds \in [Candidates -> Kinds] :
           FrontDoor(o, new, kinds, sound)

RuleStep(r) ==
    \/ Enable(r) \/ Disable(r) \/ Delete(r) \/ Restore(r)
    \/ \E name \in Names, body \in Bodies, on \in BOOLEAN :
           SaveCheck(r, name, body, on) \/ SaveCompliance(r, name, body, on)
    \/ \E on \in BOOLEAN : SetCheckActive(r, on)
    \/ \E body \in Bodies : EditCompliance(r, body)
    \/ DeleteCompliance(r)

RulesNext ==
    \/ \E q \in Teachers : TeacherStep(q)
    \/ \E o \in Statements : StatementStep(o)
    \/ \E c \in Candidates : RejectCandidate(c)
    \/ \E r \in Rules : RuleStep(r)
    \/ Day
    \/ PurgeRules

RulesSpec == RulesInit /\ [][RulesNext]_rulesVars

----------------------------------------------------------------------------
Row == [kind : Kinds \cup {"none"}, state : States \cup {"none", Removed}, active : BOOLEAN,
        name : Names \cup {Blank}, version : Nat, body : Bodies \cup {Blank},
        gone : 0 .. Forever, from : Candidates \cup {NoCandidate}]

IsAsking(a) ==
    \/ a = NotAsking
    \/ a \in [doing : {"synthesize"}, statements : SUBSET Statements]
    \/ \E same \in SUBSET Rules :
           a \in [doing : {"approve"}, candidate : Candidates, body : Bodies,
                 resolution : {"", "supersede", "keep_both"}, conflicts : {same},
                 read : [same -> Row]]

\* The types of the training tables, the rule tables and what requests have read.
RulesTypeOK ==
    /\ statement \in [Statements -> {"none", "new", "synthesized", "rejected", "withdrawn"}]
    /\ candidate \in [Candidates -> [status : {"none", "draft", "approved", "rejected"},
                                     kind : Kinds \cup {"none"}, sources : SUBSET Statements]]
    /\ rule \in [Rules -> Row]
    /\ DOMAIN teacher = Teachers /\ \A q \in Teachers : IsAsking(teacher[q])
    /\ byHand \subseteq Rules
    /\ decided \subseteq SUBSET Rules

\* Two learned rules that test the same and both run do so because the person who
\* approved the later one said so, or because an administrator put one of them to run by
\* hand: synthesis.approve finds overlaps when it approves, not when it drafts, and
\* _supersede stands the others down. One approval at a time.
OverlapsAreDecided ==
    \A r, s \in Rules :
        /\ r # s /\ Learned(r) /\ Learned(s) /\ Runs(r) /\ Runs(s)
        /\ rule[r].kind = rule[s].kind /\ rule[r].body = rule[s].body /\ rule[r].body # Blank
        => {r, s} \in decided \/ r \in byHand \/ s \in byHand

\* A candidate becomes one rule, whatever is decided about it again afterwards: approve
\* asks for a draft, reject_candidate for nothing. One approval at a time.
OneRulePerCandidate ==
    \A r, s \in Rules : Learned(r) /\ rule[r].from = rule[s].from => r = s
====
