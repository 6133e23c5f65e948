------------------------------ MODULE Training_proofs ------------------------------
(***************************************************************************)
(* Proofs about what reviewers and administrators teach: the life of a     *)
(* learned rule, and the checks compiled from business meanings.           *)
(***************************************************************************)
EXTENDS LearnedRules, Meaning, TLAPS

-----------------------------------------------------------------------------
(***************************************************************************)
(* Proofs about LearnedRules, for any statements, candidates, rules, names *)
(* and bodies.                                                             *)
(*                                                                         *)
(* An approver decides on the overlaps there were when the request read    *)
(* them. What makes that enough is that a rule nobody touches by hand only *)
(* ever quietens down: Quiet is what happens to such a row in any step,    *)
(* and between what an approval read and what it finds at its commit.      *)
(***************************************************************************)
OneTeacher == \A p, q \in Teachers : p = q

Approving(q) == teacher[q].doing = "approve"

\* A row goes on testing what it tests, and does not come to run.
Quiet(old, new) ==
    /\ new.kind = old.kind /\ new.from = old.from
    /\ new.body = old.body \/ new.body = Blank
    /\ new.active => old.active /\ new.state = old.state
    /\ new.state = "shadow" => old.state = "shadow"
    /\ new.state = "active" => old.state = "active"

\* A row stays one, and whose it is.
Keeps(old, new) ==
    /\ new.from = old.from
    /\ new.state = "none" => old.state = "none"

NothingBeforeARule == \A r \in Rules : rule[r].state = "none" => ~Learned(r)

\* A draft has no rule yet.
DecidedOnce ==
    \A r \in Rules : Learned(r) => candidate[rule[r].from].status \notin {"none", "draft"}

\* A candidate that is being approved has no rule yet either.
ApprovalsAreFirst ==
    \A q \in Teachers : Approving(q) =>
        /\ candidate[teacher[q].candidate].status # "none"
        /\ \A r \in Rules : rule[r].from # teacher[q].candidate

\* The request read every overlap that matters, and what it read has only quietened.
ApprovalsKnowTheOverlaps ==
    \A q \in Teachers : Approving(q) =>
        /\ teacher[q].conflicts # {} => teacher[q].resolution \in {"supersede", "keep_both"}
        /\ \A s \in Rules :
              /\ Learned(s) /\ Runs(s) /\ s \notin byHand
              /\ rule[s].kind = candidate[teacher[q].candidate].kind
              /\ rule[s].body = teacher[q].body
              => s \in teacher[q].conflicts
        /\ \A s \in teacher[q].conflicts :
              s \in byHand \/ Quiet(teacher[q].read[s], rule[s])

RulesIInv == /\ RulesTypeOK /\ NothingBeforeARule /\ DecidedOnce /\ ApprovalsAreFirst
        /\ ApprovalsKnowTheOverlaps /\ OverlapsAreDecided /\ OneRulePerCandidate

-----------------------------------------------------------------------------
(* Rows. *)

\* Two quiet moves are one.
LEMMA QuietTwice ==
    ASSUME NEW a, NEW b, NEW c, Quiet(a, b), Quiet(b, c)
    PROVE  Quiet(a, c)
BY DEF Quiet

\* The sentinel of a row that is not there is one.
LEMMA NoRuleType == NoRule \in Row /\ NoRule.from = NoCandidate /\ NoRule.state = "none"
<1>1. 0 \in 0 .. Forever /\ 0 \in Nat  BY RulesAssumption DEF Forever
<1> QED  BY <1>1 DEF NoRule, Row, NoCandidate, States

\* set_state keeps a row one; only towards "active" may it come to run.
LEMMA MovedRow ==
    ASSUME NEW row \in Row, NEW to \in {"active", "disabled", "deleted"}
    PROVE  /\ Moved(row, to) \in Row
           /\ Keeps(row, Moved(row, to))
           /\ to # "active" => Quiet(row, Moved(row, to))
<1>1. (IF to = "deleted" THEN 1 ELSE 0) \in 0 .. Forever  BY RulesAssumption DEF Forever
<1>2. (row.kind # "field_constraint" /\ to = "active") \in BOOLEAN  OBVIOUS
<1>3. to # "active" => (row.kind # "field_constraint" /\ to = "active") = FALSE  OBVIOUS
<1> DEFINE gone == IF to = "deleted" THEN 1 ELSE 0
           on == row.kind # "field_constraint" /\ to = "active"
<1>4. Moved(row, to) = [row EXCEPT !.state = to, !.gone = gone, !.active = on]  BY DEF Moved
<1>5. gone \in 0 .. Forever /\ on \in BOOLEAN /\ (to # "active" => on = FALSE)
  BY <1>1, <1>2, <1>3
<1> HIDE DEF gone, on
<1>6. Moved(row, to) \in Row  BY <1>4, <1>5 DEF Row, States
<1>7. /\ Moved(row, to).state = to /\ Moved(row, to).kind = row.kind
      /\ Moved(row, to).from = row.from /\ Moved(row, to).body = row.body
      /\ Moved(row, to).active = on
  BY <1>4 DEF Row
<1> QED  BY <1>5, <1>6, <1>7 DEF Keeps, Quiet

\* A rule that was superseded by a request keeps a row one, and if it has only quietened
\* since the request read it, it goes on to and runs no more.
Stopped(row) == /\ row.state \notin {"active", "shadow"} /\ ~row.active

LEMMA FlushedRow ==
    ASSUME NEW now \in Row, NEW read \in Row
    PROVE  LET new == Flushed(now, read, Moved(read, "disabled")) IN
           /\ new \in Row
           /\ Keeps(now, new)
           /\ Quiet(read, now) => Quiet(now, new) /\ Stopped(new)
<1> DEFINE to == Moved(read, "disabled")
           new == Flushed(now, read, to)
           state == IF read.state = "disabled" THEN now.state ELSE "disabled"
           on == IF read.active THEN FALSE ELSE now.active
           gone == IF to.gone = read.gone THEN now.gone ELSE to.gone
<1>1. to.state = "disabled" /\ to.active = FALSE /\ to.gone = 0
  BY DEF Moved, Row
<1>2. read.active \in BOOLEAN /\ now.active \in BOOLEAN  BY DEF Row
<1>3. (IF to.active = read.active THEN now.active ELSE to.active) = on
  BY <1>1, <1>2
<1>4. (IF to.state = read.state THEN now.state ELSE to.state) = state
  BY <1>1
<1>5. new = [now EXCEPT !.state = state, !.active = on, !.gone = gone]
  BY <1>3, <1>4 DEF Flushed
<1>6. state \in States \cup {"none", Removed}  BY DEF Row, States
<1>7. on \in BOOLEAN  BY <1>2
<1>8. gone \in 0 .. Forever  BY <1>1, RulesAssumption DEF Row, Forever
<1>9. state = "none" => now.state = "none"  OBVIOUS
<1>10. Quiet(read, now) => on = FALSE  BY <1>2 DEF Quiet
<1>11. Quiet(read, now) => state \notin {"active", "shadow"}  BY DEF Quiet
<1> HIDE DEF to, new, state, on, gone
<1>12. new \in Row  BY <1>5, <1>6, <1>7, <1>8 DEF Row
<1>13. /\ new.state = state /\ new.active = on
       /\ new.kind = now.kind /\ new.from = now.from /\ new.body = now.body
  BY <1>5 DEF Row
<1>14. Keeps(now, new)  BY <1>9, <1>13 DEF Keeps
<1>15. Quiet(read, now) => Quiet(now, new) /\ Stopped(new)
  BY <1>10, <1>11, <1>13 DEF Quiet, Stopped
<1> QED  BY <1>12, <1>14, <1>15 DEF new, to

\* What stopped does not run; what quietens does not come to run.
LEMMA StoppedRests ==
    ASSUME NEW r \in Rules, Stopped(rule[r]) PROVE ~Runs(r)
BY DEF Stopped, Runs, States

LEMMA QuietRuns ==
    ASSUME NEW r \in Rules, Quiet(rule[r], rule'[r]), Runs(r)'
    PROVE  Runs(r)
BY DEF Quiet, Runs, Exists, States

\* What a request has read.
LEMMA ApprovalTypes ==
    ASSUME RulesTypeOK, NEW q \in Teachers, Approving(q)
    PROVE  /\ teacher[q].candidate \in Candidates /\ teacher[q].body \in Bodies
           /\ teacher[q].resolution \in {"", "supersede", "keep_both"}
           /\ teacher[q].conflicts \in SUBSET Rules
           /\ teacher[q].read \in [teacher[q].conflicts -> Row]
<1>1. IsAsking(teacher[q])  BY DEF RulesTypeOK
<1>2. CASE teacher[q] = NotAsking
  <2>1. NotAsking.doing = "nothing"  BY DEF NotAsking
  <2> QED  BY <1>2, <2>1 DEF Approving
<1>3. CASE teacher[q] \in [doing : {"synthesize"}, statements : SUBSET Statements]
  BY <1>3 DEF Approving
<1>4. CASE \E same \in SUBSET Rules :
             teacher[q] \in [doing : {"approve"}, candidate : Candidates, body : Bodies,
                             resolution : {"", "supersede", "keep_both"},
                             conflicts : {same}, read : [same -> Row]]
  BY <1>4
<1> QED  BY <1>1, <1>2, <1>3, <1>4 DEF IsAsking

-----------------------------------------------------------------------------
(* What keeps the invariant. *)

\* Rows change; who did it by hand is known, and the others quieten.
LEMMA RowsChange ==
    ASSUME RulesIInv, rule' \in [Rules -> Row],
           byHand' \in SUBSET Rules, byHand \subseteq byHand',
           \A r \in Rules : Keeps(rule[r], rule'[r]),
           \A r \in Rules : r \in byHand' \/ Quiet(rule[r], rule'[r]),
           UNCHANGED <<statement, candidate, teacher, decided>>
    PROVE  RulesIInv'
<1> USE DEF RulesIInv
<1>1. RulesTypeOK'  BY DEF RulesTypeOK
<1>2. \A r \in Rules : /\ rule'[r].from = rule[r].from
                       /\ Learned(r)' => Learned(r)
                       /\ rule'[r].state = "none" => rule[r].state = "none"
  BY DEF Keeps, Learned
<1>3. NothingBeforeARule'  BY <1>2 DEF NothingBeforeARule
<1>4. DecidedOnce'  BY <1>2 DEF DecidedOnce
<1>5. ApprovalsAreFirst'
  <2> SUFFICES ASSUME NEW q \in Teachers, Approving(q)
               PROVE  /\ candidate[teacher[q].candidate].status # "none"
                      /\ \A r \in Rules : rule'[r].from # teacher[q].candidate
    BY DEF ApprovalsAreFirst, Approving
  <2> QED  BY <1>2 DEF ApprovalsAreFirst
<1>6. ApprovalsKnowTheOverlaps'
  <2> SUFFICES ASSUME NEW q \in Teachers, Approving(q)
               PROVE  /\ teacher[q].conflicts # {} =>
                             teacher[q].resolution \in {"supersede", "keep_both"}
                      /\ \A s \in Rules :
                            /\ Learned(s)' /\ Runs(s)' /\ s \notin byHand'
                            /\ rule'[s].kind = candidate[teacher[q].candidate].kind
                            /\ rule'[s].body = teacher[q].body
                            => s \in teacher[q].conflicts
                      /\ \A s \in teacher[q].conflicts :
                            s \in byHand' \/ Quiet(teacher[q].read[s], rule'[s])
    BY DEF ApprovalsKnowTheOverlaps, Approving
  <2>1. teacher[q].conflicts # {} => teacher[q].resolution \in {"supersede", "keep_both"}
    BY DEF ApprovalsKnowTheOverlaps
  <2>2. teacher[q].conflicts \subseteq Rules /\ teacher[q].body \in Bodies
    BY ApprovalTypes
  <2>3. ASSUME NEW s \in Rules, Learned(s)', Runs(s)', s \notin byHand',
               rule'[s].kind = candidate[teacher[q].candidate].kind,
               rule'[s].body = teacher[q].body
        PROVE  s \in teacher[q].conflicts
    <3>1. Quiet(rule[s], rule'[s]) /\ s \notin byHand  BY <2>3
    <3>2. Learned(s) /\ Runs(s)  BY <1>2, <2>3, <3>1, QuietRuns
    <3>3. rule[s].kind = candidate[teacher[q].candidate].kind
          /\ rule[s].body = teacher[q].body
      BY <2>2, <2>3, <3>1, RulesAssumption DEF Quiet
    <3> QED  BY <3>1, <3>2, <3>3 DEF ApprovalsKnowTheOverlaps
  <2>4. ASSUME NEW s \in teacher[q].conflicts, s \notin byHand'
        PROVE  Quiet(teacher[q].read[s], rule'[s])
    <3>1. s \in Rules /\ s \notin byHand  BY <2>2, <2>4
    <3>2. Quiet(rule[s], rule'[s])  BY <2>4, <3>1
    <3>3. Quiet(teacher[q].read[s], rule[s])
      BY <3>1 DEF ApprovalsKnowTheOverlaps
    <3> QED  BY <3>2, <3>3, QuietTwice
  <2> QED  BY <2>1, <2>3, <2>4
<1>7. OverlapsAreDecided'
  <2> SUFFICES ASSUME NEW r \in Rules, NEW s \in Rules, r # s,
                      Learned(r)', Learned(s)', Runs(r)', Runs(s)',
                      rule'[r].kind = rule'[s].kind, rule'[r].body = rule'[s].body,
                      rule'[r].body # Blank, r \notin byHand', s \notin byHand'
               PROVE  {r, s} \in decided
    BY DEF OverlapsAreDecided
  <2>1. Quiet(rule[r], rule'[r]) /\ Quiet(rule[s], rule'[s])  OBVIOUS
  <2>2. Learned(r) /\ Learned(s) /\ Runs(r) /\ Runs(s)  BY <1>2, <2>1, QuietRuns
  <2>3. /\ rule[r].kind = rule[s].kind /\ rule[r].body = rule[s].body
        /\ rule[r].body # Blank
    BY <2>1 DEF Quiet
  <2> QED  BY <2>2, <2>3 DEF OverlapsAreDecided
<1>8. OneRulePerCandidate'  BY <1>2 DEF OneRulePerCandidate
<1> QED  BY <1>1, <1>3, <1>4, <1>5, <1>6, <1>7, <1>8

\* Statements, drafts and requests change; no rule does, and no approval begins.
LEMMA PapersChange ==
    ASSUME RulesIInv, RulesTypeOK',
           UNCHANGED <<rule, byHand, decided>>,
           \A c \in Candidates : candidate[c].status # "none" =>
               /\ candidate'[c].kind = candidate[c].kind
               /\ candidate'[c].status # "none"
               /\ candidate'[c].status = "draft" => candidate[c].status = "draft",
           \A q \in Teachers : Approving(q)' => teacher'[q] = teacher[q]
    PROVE  RulesIInv'
<1> USE DEF RulesIInv
<1>1. \A r \in Rules : /\ rule[r].from \in Candidates \cup {NoCandidate}
                       /\ Learned(r) => rule[r].from \in Candidates
  BY DEF RulesTypeOK, Row, Learned
<1>2. NothingBeforeARule'  BY DEF NothingBeforeARule, Learned
<1>3. DecidedOnce'
  <2> SUFFICES ASSUME NEW r \in Rules, Learned(r)
               PROVE  candidate'[rule[r].from].status \notin {"none", "draft"}
    BY DEF DecidedOnce, Learned
  <2> QED  BY <1>1 DEF DecidedOnce
<1>4. \A q \in Teachers : Approving(q)' =>
          /\ Approving(q) /\ teacher'[q] = teacher[q]
          /\ teacher[q].candidate \in Candidates
          /\ candidate[teacher[q].candidate].status # "none"
  <2> SUFFICES ASSUME NEW q \in Teachers, Approving(q)'
               PROVE  /\ Approving(q) /\ teacher'[q] = teacher[q]
                      /\ teacher[q].candidate \in Candidates
                      /\ candidate[teacher[q].candidate].status # "none"
    OBVIOUS
  <2>1. teacher'[q] = teacher[q] /\ Approving(q)  BY DEF Approving
  <2> QED  BY <2>1, ApprovalTypes DEF ApprovalsAreFirst
<1>5. ApprovalsAreFirst'
  <2> SUFFICES ASSUME NEW q \in Teachers, Approving(q)'
               PROVE  /\ candidate'[teacher'[q].candidate].status # "none"
                      /\ \A r \in Rules : rule[r].from # teacher'[q].candidate
    BY DEF ApprovalsAreFirst
  <2> QED  BY <1>4 DEF ApprovalsAreFirst
<1>6. ApprovalsKnowTheOverlaps'
  <2> SUFFICES ASSUME NEW q \in Teachers, Approving(q)'
               PROVE  /\ teacher'[q].conflicts # {} =>
                             teacher'[q].resolution \in {"supersede", "keep_both"}
                      /\ \A s \in Rules :
                            /\ Learned(s) /\ Runs(s) /\ s \notin byHand
                            /\ rule[s].kind = candidate'[teacher'[q].candidate].kind
                            /\ rule[s].body = teacher'[q].body
                            => s \in teacher'[q].conflicts
                      /\ \A s \in teacher'[q].conflicts :
                            s \in byHand \/ Quiet(teacher'[q].read[s], rule[s])
    BY DEF ApprovalsKnowTheOverlaps, Learned, Runs, Exists
  <2>1. /\ Approving(q) /\ teacher'[q] = teacher[q]
        /\ candidate'[teacher[q].candidate].kind = candidate[teacher[q].candidate].kind
    BY <1>4
  <2> QED  BY <2>1 DEF ApprovalsKnowTheOverlaps
<1>7. OverlapsAreDecided'  BY DEF OverlapsAreDecided, Learned, Runs, Exists
<1>8. OneRulePerCandidate'  BY DEF OneRulePerCandidate, Learned
<1> QED  BY <1>2, <1>3, <1>5, <1>6, <1>7, <1>8

\* A request ends.
LEMMA RequestEnds ==
    ASSUME RulesIInv, NEW q \in Teachers, teacher' = [teacher EXCEPT ![q] = NotAsking],
           UNCHANGED <<rule, byHand, decided>>,
           statement' \in [Statements -> {"none", "new", "synthesized", "rejected", "withdrawn"}],
           candidate' \in [Candidates -> [status : {"none", "draft", "approved", "rejected"},
                                          kind : Kinds \cup {"none"}, sources : SUBSET Statements]],
           \A c \in Candidates : candidate[c].status # "none" => candidate'[c] = candidate[c]
    PROVE  RulesIInv'
<1>0. RulesTypeOK  BY DEF RulesIInv
<1>1. /\ DOMAIN teacher' = Teachers /\ teacher'[q] = NotAsking
      /\ \A p \in Teachers \ {q} : teacher'[p] = teacher[p]
  BY <1>0 DEF RulesTypeOK
<1>2. IsAsking(NotAsking) /\ NotAsking.doing = "nothing"  BY DEF IsAsking, NotAsking
<1>3. \A p \in Teachers : IsAsking(teacher'[p])
  BY <1>0, <1>1, <1>2 DEF RulesTypeOK
<1>4. RulesTypeOK'
  <2>1. \A p \in Teachers : IsAsking(teacher[p])'  BY <1>3 DEF IsAsking
  <2> QED  BY <1>0, <1>1, <2>1 DEF RulesTypeOK
<1>5. \A p \in Teachers : Approving(p)' => teacher'[p] = teacher[p]
  BY <1>1, <1>2 DEF Approving
<1> QED  BY <1>4, <1>5, PapersChange

\* NoCandidate is none.
LEMMA CandidatesAreSome == \A c \in Candidates : c # NoCandidate
BY RulesAssumption DEF Candidates, NoCandidate

\* A request reads the overlaps of a draft.
LEMMA ApprovalBegins ==
    ASSUME RulesIInv, NEW q \in Teachers, NEW c \in Candidates, NEW body \in Bodies,
           NEW how \in {"", "supersede", "keep_both"}, ApproveRead(q, c, body, how)
    PROVE  RulesIInv'
<1> USE DEF RulesIInv
<1> DEFINE same == Conflicts(candidate[c].kind, body)
           asked == [doing |-> "approve", candidate |-> c, body |-> body,
                     resolution |-> how, conflicts |-> same, read |-> [r \in same |-> rule[r]]]
<1>1. /\ candidate[c].status = "draft"
      /\ same # {} => how \in {"supersede", "keep_both"}
      /\ teacher' = [teacher EXCEPT ![q] = asked]
      /\ UNCHANGED <<statement, candidate, rule, byHand, decided>>
  BY DEF ApproveRead
<1>2. same \in SUBSET Rules
  BY DEF Conflicts
<1>3. \A s \in Rules : /\ Runs(s) /\ rule[s].kind = candidate[c].kind /\ rule[s].body = body
                       => s \in same
  BY DEF Conflicts, Runs, Exists, States
<1>4. \A s \in same : rule[s] \in Row /\ Quiet([r \in same |-> rule[r]][s], rule[s])
  BY <1>2 DEF RulesTypeOK, Quiet
<1> HIDE DEF same
<1>5. /\ asked.doing = "approve" /\ asked.candidate = c /\ asked.body = body
      /\ asked.resolution = how /\ asked.conflicts = same
      /\ \A s \in same : Quiet(asked.read[s], rule[s])
  BY <1>4
<1>6. IsAsking(asked)
  <2>1. [r \in same |-> rule[r]] \in [same -> Row]  BY <1>4
  <2>2. asked \in [doing : {"approve"}, candidate : Candidates, body : Bodies,
                   resolution : {"", "supersede", "keep_both"}, conflicts : {same},
                   read : [same -> Row]]
    BY <2>1
  <2> QED  BY <1>2, <2>2 DEF IsAsking
<1> HIDE DEF asked
<1>7. /\ DOMAIN teacher' = Teachers /\ teacher'[q] = asked
      /\ \A p \in Teachers \ {q} : teacher'[p] = teacher[p]
  BY <1>1 DEF RulesTypeOK
<1>8. RulesTypeOK'
  <2>1. \A p \in Teachers : IsAsking(teacher'[p])  BY <1>6, <1>7 DEF RulesTypeOK
  <2>2. \A p \in Teachers : IsAsking(teacher[p])'  BY <2>1 DEF IsAsking
  <2> QED  BY <1>1, <1>7, <2>2 DEF RulesTypeOK
<1>9. NothingBeforeARule'  BY <1>1 DEF NothingBeforeARule, Learned
<1>10. DecidedOnce'  BY <1>1 DEF DecidedOnce, Learned
<1>11. \A r \in Rules : rule[r].from # c
  <2>1. c # NoCandidate  BY CandidatesAreSome
  <2> QED  BY <1>1, <2>1 DEF DecidedOnce, Learned
<1>12. ApprovalsAreFirst'
  <2> SUFFICES ASSUME NEW p \in Teachers, Approving(p)'
               PROVE  /\ candidate[teacher'[p].candidate].status # "none"
                      /\ \A r \in Rules : rule[r].from # teacher'[p].candidate
    BY <1>1 DEF ApprovalsAreFirst
  <2>1. CASE p = q  BY <1>1, <1>5, <1>7, <1>11, <2>1
  <2>2. CASE p # q
    <3>1. Approving(p) /\ teacher'[p] = teacher[p]  BY <1>7, <2>2 DEF Approving
    <3> QED  BY <3>1 DEF ApprovalsAreFirst
  <2> QED  BY <2>1, <2>2
<1>13. ApprovalsKnowTheOverlaps'
  <2> SUFFICES ASSUME NEW p \in Teachers, Approving(p)'
               PROVE  /\ teacher'[p].conflicts # {} =>
                             teacher'[p].resolution \in {"supersede", "keep_both"}
                      /\ \A s \in Rules :
                            /\ Learned(s) /\ Runs(s) /\ s \notin byHand
                            /\ rule[s].kind = candidate[teacher'[p].candidate].kind
                            /\ rule[s].body = teacher'[p].body
                            => s \in teacher'[p].conflicts
                      /\ \A s \in teacher'[p].conflicts :
                            s \in byHand \/ Quiet(teacher'[p].read[s], rule[s])
    BY <1>1 DEF ApprovalsKnowTheOverlaps, Learned, Runs, Exists
  <2>1. CASE p = q  BY <1>1, <1>3, <1>5, <1>7, <2>1
  <2>2. CASE p # q
    <3>1. Approving(p) /\ teacher'[p] = teacher[p]  BY <1>7, <2>2 DEF Approving
    <3> QED  BY <3>1 DEF ApprovalsKnowTheOverlaps
  <2> QED  BY <2>1, <2>2
<1>14. OverlapsAreDecided'  BY <1>1, ZenonT(60) DEF OverlapsAreDecided, Learned, Runs, Exists
<1>15. OneRulePerCandidate'  BY <1>1 DEF OneRulePerCandidate, Learned
<1> QED  BY <1>8, <1>9, <1>10, <1>12, <1>13, <1>14, <1>15

\* What an approval stops.
LEMMA SupersededRow ==
    ASSUME RulesIInv, NEW q \in Teachers, Approving(q), NEW s \in Rules
    PROVE  LET new == Superseded(teacher[q], s) IN
           /\ new \in Row /\ Keeps(rule[s], new)
           /\ s \notin byHand => Quiet(rule[s], new)
           /\ /\ teacher[q].resolution = "supersede" /\ s \in teacher[q].conflicts
              /\ Exists(s) /\ s \notin byHand
              => Stopped(new)
<1> USE DEF RulesIInv
<1>1. rule[s] \in Row  BY DEF RulesTypeOK
<1>2. CASE teacher[q].resolution = "supersede" /\ s \in teacher[q].conflicts /\ Exists(s)
  <2>1. Superseded(teacher[q], s) =
            Flushed(rule[s], teacher[q].read[s], Moved(teacher[q].read[s], "disabled"))
    BY <1>2 DEF Superseded
  <2>2. teacher[q].read[s] \in Row  BY <1>2, ApprovalTypes DEF RulesTypeOK
  <2>3. s \notin byHand => Quiet(teacher[q].read[s], rule[s])
    BY <1>2 DEF ApprovalsKnowTheOverlaps
  <2> QED  BY <1>1, <2>1, <2>2, <2>3, FlushedRow
<1>3. CASE ~(teacher[q].resolution = "supersede" /\ s \in teacher[q].conflicts /\ Exists(s))
  <2>1. Superseded(teacher[q], s) = rule[s]  BY <1>3 DEF Superseded
  <2>2. Keeps(rule[s], rule[s]) /\ Quiet(rule[s], rule[s])  BY DEF Keeps, Quiet
  <2> QED  BY <1>1, <1>3, <2>1, <2>2
<1> QED  BY <1>2, <1>3

\* The approval commits, and no other request is open.
LEMMA ApprovalCommits ==
    ASSUME RulesIInv, OneTeacher, NEW q \in Teachers, NEW r \in Rules,
           NEW state \in {"shadow", "active"}, NEW name \in Names,
           ApproveCommit(q, r, state, name)
    PROVE  RulesIInv'
<1> USE DEF RulesIInv
<1> DEFINE asked == teacher[q]
           c == asked.candidate
           kind == candidate[c].kind
           new == NewRow(kind, state, name, asked.body, c)
<1>1. /\ Approving(q) /\ Fresh(r)
      /\ candidate' = [candidate EXCEPT ![c].status = "approved"]
      /\ rule' = [s \in Rules |-> IF s = r THEN new ELSE Superseded(asked, s)]
      /\ decided' = decided \cup
             (IF asked.resolution = "keep_both" THEN {{r, s} : s \in asked.conflicts} ELSE {})
      /\ teacher' = [teacher EXCEPT ![q] = NotAsking]
      /\ UNCHANGED <<statement, byHand>>
  BY DEF ApproveCommit, Approving
<1>2. /\ c \in Candidates /\ asked.body \in Bodies
      /\ asked.resolution \in {"", "supersede", "keep_both"}
      /\ asked.conflicts \in SUBSET Rules
  BY <1>1, ApprovalTypes
<1>3. candidate[c] \in [status : {"none", "draft", "approved", "rejected"},
                        kind : Kinds \cup {"none"}, sources : SUBSET Statements]
  BY <1>2 DEF RulesTypeOK
<1>4. new \in Row /\ new.from = c /\ new.state = state /\ new.kind = kind /\ new.body = asked.body
  <2>1. kind \in Kinds \cup {"none"} /\ state \in States /\ asked.body \in Bodies
        /\ c \in Candidates \cup {NoCandidate}
    BY <1>2, <1>3 DEF States
  <2> HIDE DEF kind, c, asked
  <2> DEFINE on == kind # "field_constraint" /\ state = "active"
  <2>2. new = [kind |-> kind, state |-> state, active |-> on, name |-> name, version |-> 1,
               body |-> asked.body, gone |-> 0, from |-> c]
    BY DEF NewRow
  <2>3. 0 \in 0 .. Forever /\ 1 \in Nat /\ on \in BOOLEAN  BY RulesAssumption DEF Forever
  <2> HIDE DEF on, new
  <2> QED  BY <2>1, <2>2, <2>3 DEF Row
<1>5. \A s \in Rules :
          /\ Superseded(asked, s) \in Row /\ Keeps(rule[s], Superseded(asked, s))
          /\ s \notin byHand => Quiet(rule[s], Superseded(asked, s))
          /\ /\ asked.resolution = "supersede" /\ s \in asked.conflicts
             /\ Exists(s) /\ s \notin byHand
             => Stopped(Superseded(asked, s))
  BY <1>1, SupersededRow
<1>6. /\ rule' \in [Rules -> Row] /\ rule'[r] = new
      /\ \A s \in Rules \ {r} : rule'[s] = Superseded(asked, s)
  BY <1>1, <1>4, <1>5
<1>7. /\ \A d \in Candidates \ {c} : candidate'[d] = candidate[d]
      /\ candidate'[c] = [candidate[c] EXCEPT !.status = "approved"]
      /\ candidate'[c].status = "approved" /\ candidate'[c].kind = kind
      /\ candidate' \in [Candidates -> [status : {"none", "draft", "approved", "rejected"},
                                        kind : Kinds \cup {"none"}, sources : SUBSET Statements]]
  BY <1>1, <1>2, <1>3 DEF RulesTypeOK
<1>8. /\ DOMAIN teacher' = Teachers /\ \A p \in Teachers : teacher'[p] = NotAsking
      /\ IsAsking(NotAsking) /\ NotAsking.doing = "nothing"
  BY <1>1 DEF RulesTypeOK, OneTeacher, IsAsking, NotAsking
<1>9. \A s \in Rules : rule[s].from # c  BY <1>1 DEF ApprovalsAreFirst
<1>10. c # NoCandidate  BY <1>2, CandidatesAreSome
<1>11. Learned(r)' /\ ~Learned(r) /\ \A s \in Rules \ {r} :
           /\ rule'[s].from = rule[s].from /\ (Learned(s)' => Learned(s))
           /\ rule'[s].state = "none" => rule[s].state = "none"
  <2>1. ~Learned(r)  BY <1>1 DEF Fresh, NothingBeforeARule
  <2>2. Learned(r)'  BY <1>4, <1>6, <1>10 DEF Learned
  <2> QED  BY <1>5, <1>6, <2>1, <2>2 DEF Keeps, Learned
<1> HIDE DEF asked, c, kind, new
<1>12. RulesTypeOK'
  <2>1. \A p \in Teachers : IsAsking(teacher[p])'  BY <1>8 DEF IsAsking
  <2>2. {{r, s} : s \in asked.conflicts} \subseteq SUBSET Rules
    <3>1. \A s \in asked.conflicts : {r, s} \in SUBSET Rules  BY <1>2
    <3> QED  BY <3>1
  <2>3. decided \subseteq SUBSET Rules  BY DEF RulesTypeOK
  <2>4. decided' \subseteq SUBSET Rules  BY <1>1, <2>2, <2>3
  <2> QED  BY <1>1, <1>6, <1>7, <1>8, <2>1, <2>4 DEF RulesTypeOK
<1>13. NothingBeforeARule'
  BY <1>4, <1>6, <1>11 DEF NothingBeforeARule, States
<1>14. DecidedOnce'
  <2> SUFFICES ASSUME NEW s \in Rules, Learned(s)'
               PROVE  candidate'[rule'[s].from].status \notin {"none", "draft"}
    BY DEF DecidedOnce
  <2>1. CASE s = r  BY <1>4, <1>6, <1>7, <2>1
  <2>2. CASE s # r
    <3>1. Learned(s) /\ rule'[s].from = rule[s].from  BY <1>11, <2>2
    <3>2. rule[s].from \in Candidates \ {c}
      BY <1>9, <3>1 DEF RulesTypeOK, Row, Learned
    <3> QED  BY <1>7, <3>1, <3>2 DEF DecidedOnce
  <2> QED  BY <2>1, <2>2
<1>15. ApprovalsAreFirst' /\ ApprovalsKnowTheOverlaps'
  BY <1>8 DEF ApprovalsAreFirst, ApprovalsKnowTheOverlaps, Approving
<1>16. ASSUME NEW s \in Rules, s # r, s \notin byHand, Learned(s)', Runs(s)',
              rule'[s].kind = kind, rule'[s].body = asked.body
       PROVE  {r, s} \in decided'
  <2>1. Quiet(rule[s], rule'[s])  BY <1>5, <1>6, <1>16
  <2>2. Learned(s) /\ Runs(s)  BY <1>11, <1>16, <2>1, QuietRuns
  <2>3. rule[s].kind = kind /\ rule[s].body = asked.body
    BY <1>2, <1>16, <2>1, RulesAssumption DEF Quiet
  <2>4. s \in asked.conflicts
    BY <1>1, <1>16, <2>2, <2>3 DEF ApprovalsKnowTheOverlaps, asked, c, kind
  <2>5. asked.resolution \in {"supersede", "keep_both"}
    BY <1>1, <2>4 DEF ApprovalsKnowTheOverlaps, asked
  <2>6. CASE asked.resolution = "supersede"
    <3>1. Exists(s)  BY <2>2 DEF Runs, Exists, States
    <3>2. Stopped(rule'[s])  BY <1>5, <1>6, <1>16, <2>4, <2>6, <3>1
    <3>3. ~Runs(s)'  BY <3>2 DEF Stopped, Runs, States
    <3> QED  BY <1>16, <3>3
  <2>7. CASE asked.resolution = "keep_both"  BY <1>1, <2>4, <2>7
  <2> QED  BY <2>5, <2>6, <2>7
<1>17. OverlapsAreDecided'
  <2> SUFFICES ASSUME NEW s \in Rules, NEW t \in Rules, s # t,
                      Learned(s)', Learned(t)', Runs(s)', Runs(t)',
                      rule'[s].kind = rule'[t].kind, rule'[s].body = rule'[t].body,
                      rule'[s].body # Blank, s \notin byHand, t \notin byHand
               PROVE  {s, t} \in decided'
    BY <1>1 DEF OverlapsAreDecided
  <2>1. CASE s = r
    <3>1. rule'[t].kind = kind /\ rule'[t].body = asked.body  BY <1>4, <1>6, <2>1
    <3> QED  BY <1>16, <2>1, <3>1
  <2>2. CASE t = r
    <3>1. rule'[s].kind = kind /\ rule'[s].body = asked.body  BY <1>4, <1>6, <2>2
    <3>2. {r, s} \in decided'  BY <1>16, <2>2, <3>1
    <3> QED  BY <2>2, <3>2
  <2>3. CASE s # r /\ t # r
    <3>1. Quiet(rule[s], rule'[s]) /\ Quiet(rule[t], rule'[t])  BY <1>5, <1>6, <2>3
    <3>2. Learned(s) /\ Learned(t) /\ Runs(s) /\ Runs(t)  BY <1>11, <2>3, <3>1, QuietRuns
    <3>3. /\ rule[s].kind = rule[t].kind /\ rule[s].body = rule[t].body
          /\ rule[s].body # Blank
      BY <3>1 DEF Quiet
    <3>4. {s, t} \in decided  BY <3>2, <3>3 DEF OverlapsAreDecided
    <3> QED  BY <1>1, <3>4
  <2> QED  BY <2>1, <2>2, <2>3
<1>18. OneRulePerCandidate'
  <2> SUFFICES ASSUME NEW s \in Rules, NEW t \in Rules, Learned(s)',
                      rule'[s].from = rule'[t].from, s # t
               PROVE  FALSE
    BY DEF OneRulePerCandidate
  <2>1. \A u \in Rules \ {r} : rule'[u].from = rule[u].from /\ rule[u].from # c
    BY <1>9, <1>11
  <2>2. s # r /\ t # r  BY <1>4, <1>6, <2>1
  <2>3. Learned(s) /\ rule[s].from = rule[t].from  BY <1>11, <2>1, <2>2
  <2> QED  BY <2>3 DEF OneRulePerCandidate
<1> QED  BY <1>12, <1>13, <1>14, <1>15, <1>17, <1>18

\* One row changes.
LEMMA OneRow ==
    ASSUME RulesIInv, NEW r \in Rules, NEW new \in Row, Keeps(rule[r], new),
           rule' = [rule EXCEPT ![r] = new],
           byHand' = byHand \cup {r} \/ (byHand' = byHand /\ Quiet(rule[r], new)),
           UNCHANGED <<statement, candidate, teacher, decided>>
    PROVE  RulesIInv'
<1>1. RulesTypeOK  BY DEF RulesIInv
<1>2. rule' \in [Rules -> Row]  BY <1>1 DEF RulesTypeOK
<1>3. rule'[r] = new /\ \A s \in Rules \ {r} : rule'[s] = rule[s]
  BY <1>1 DEF RulesTypeOK
<1>4. \A s \in Rules : Keeps(rule[s], rule[s]) /\ Quiet(rule[s], rule[s])
  BY DEF Keeps, Quiet
<1>5. byHand' \in SUBSET Rules /\ byHand \subseteq byHand'  BY <1>1 DEF RulesTypeOK
<1>6. \A s \in Rules : Keeps(rule[s], rule'[s])  BY <1>3, <1>4
<1>7. \A s \in Rules : s \in byHand' \/ Quiet(rule[s], rule'[s])  BY <1>3, <1>4
<1> QED  BY <1>2, <1>5, <1>6, <1>7, RowsChange

\* Enable, disable, delete and restore.
LEMMA Switched ==
    ASSUME RulesIInv, NEW r \in Rules, Enable(r) \/ Disable(r) \/ Delete(r) \/ Restore(r)
    PROVE  RulesIInv'
<1>1. rule[r] \in Row  BY DEF RulesIInv, RulesTypeOK
<1>2. PICK to \in {"active", "disabled", "deleted"} :
          SetState(r, to) /\ (IF to = "active" THEN byHand' = byHand \cup {r} ELSE byHand' = byHand)
  BY DEF Enable, Disable, Delete, Restore
<1>3. rule' = [rule EXCEPT ![r] = Moved(rule[r], to)]
      /\ UNCHANGED <<statement, candidate, teacher, decided>>
  BY <1>2 DEF SetState
<1>4. /\ Moved(rule[r], to) \in Row /\ Keeps(rule[r], Moved(rule[r], to))
      /\ to # "active" => Quiet(rule[r], Moved(rule[r], to))
  BY <1>1, MovedRow
<1> QED  BY <1>2, <1>3, <1>4, OneRow

\* Fields of a row are set by hand, or by a deletion for good, or by the sweep.
LEMMA SwitchSet ==
    ASSUME NEW row \in Row, NEW on \in BOOLEAN
    PROVE  LET new == [row EXCEPT !.active = on] IN
           new \in Row /\ Keeps(row, new) /\ (~on => Quiet(row, new))
<1>1. LET new == [row EXCEPT !.active = on] IN new \in Row /\ Keeps(row, new)
  BY DEF Row, Keeps
<1>2. ASSUME ~on PROVE Quiet(row, [row EXCEPT !.active = on])
  <2>1. on = FALSE  BY <1>2
  <2>2. [row EXCEPT !.active = FALSE].active = FALSE  BY DEF Row
  <2> QED  BY <2>1, <2>2 DEF Quiet, Row
<1> QED  BY <1>1, <1>2

LEMMA BodySet ==
    ASSUME NEW row \in Row, NEW body \in Bodies \cup {Blank}
    PROVE  LET new == [row EXCEPT !.body = body] IN
           new \in Row /\ Keeps(row, new) /\ (body = Blank => Quiet(row, new))
BY DEF Row, Keeps, Quiet

LEMMA BothSet ==
    ASSUME NEW row \in Row, NEW body \in Bodies, NEW on \in BOOLEAN
    PROVE  LET new == [row EXCEPT !.body = body, !.active = on] IN
           new \in Row /\ Keeps(row, new)
BY DEF Row, Keeps

LEMMA ForeverGone ==
    ASSUME NEW row \in Row
    PROVE  LET new == [row EXCEPT !.state = Removed, !.active = FALSE] IN
           new \in Row /\ Keeps(row, new) /\ Quiet(row, new)
BY DEF Row, Keeps, Quiet, Removed

\* The switch of a check, and the editing and the deletion of a compliance rule.
LEMMA CheckSwitched ==
    ASSUME RulesIInv, NEW r \in Rules, NEW on \in BOOLEAN, SetCheckActive(r, on)
    PROVE  RulesIInv'
<1>1. rule[r] \in Row  BY DEF RulesIInv, RulesTypeOK
<1> DEFINE new == [rule[r] EXCEPT !.active = on]
<1>2. /\ rule' = [rule EXCEPT ![r] = new]
      /\ byHand' = (IF on THEN byHand \cup {r} ELSE byHand)
      /\ UNCHANGED <<statement, candidate, teacher, decided>>
  BY DEF SetCheckActive
<1>3. new \in Row /\ Keeps(rule[r], new) /\ (~on => Quiet(rule[r], new))
  BY <1>1, SwitchSet
<1> HIDE DEF new
<1>4. byHand' = byHand \cup {r} \/ (byHand' = byHand /\ Quiet(rule[r], new))
  BY <1>2, <1>3
<1> QED  BY <1>2, <1>3, <1>4, OneRow

LEMMA ComplianceEdited ==
    ASSUME RulesIInv, NEW r \in Rules, NEW body \in Bodies, EditCompliance(r, body)
    PROVE  RulesIInv'
<1>1. rule[r] \in Row  BY DEF RulesIInv, RulesTypeOK
<1> DEFINE new == [rule[r] EXCEPT !.body = body]
<1>2. /\ rule' = [rule EXCEPT ![r] = new] /\ byHand' = byHand \cup {r}
      /\ UNCHANGED <<statement, candidate, teacher, decided>>
  BY DEF EditCompliance
<1>3. new \in Row /\ Keeps(rule[r], new)  BY <1>1, BodySet
<1> HIDE DEF new
<1> QED  BY <1>2, <1>3, OneRow

LEMMA ComplianceDeleted ==
    ASSUME RulesIInv, NEW r \in Rules, DeleteCompliance(r)
    PROVE  RulesIInv'
<1>1. rule[r] \in Row /\ rule \in [Rules -> Row]  BY DEF RulesIInv, RulesTypeOK
<1> DEFINE new == [rule[r] EXCEPT !.state = Removed, !.active = FALSE]
<1>2. /\ rule' = [rule EXCEPT ![r] = new] /\ byHand' = byHand
      /\ UNCHANGED <<statement, candidate, teacher, decided>>
  BY <1>1 DEF DeleteCompliance
<1>3. new \in Row /\ Keeps(rule[r], new) /\ Quiet(rule[r], new)  BY <1>1, ForeverGone
<1> HIDE DEF new
<1> QED  BY <1>2, <1>3, OneRow

\* A row an administrator writes.
ByAdmin(kind, name, body) == NewRow(kind, "active", name, body, NoCandidate)
Versioned(row, on, version) == [row EXCEPT !.active = on, !.version = version]
Overwritten(row, body, on) == [row EXCEPT !.body = body, !.active = on]
WrittenBy(row) == row \in Row /\ row.from = NoCandidate /\ row.state = "active"

LEMMA ByAdminRow ==
    ASSUME NEW kind \in {"check", "compliance_rule"}, NEW name \in Names, NEW body \in Bodies
    PROVE  WrittenBy(ByAdmin(kind, name, body))
<1> DEFINE row == ByAdmin(kind, name, body)
<1>1. row = [kind |-> kind, state |-> "active", active |-> TRUE, name |-> name,
             version |-> 1, body |-> body, gone |-> 0, from |-> NoCandidate]
  BY DEF NewRow, ByAdmin
<1>2. 0 \in 0 .. Forever /\ 1 \in Nat /\ kind \in Kinds  BY RulesAssumption DEF Forever
<1> HIDE DEF row
<1>3. WrittenBy(row)  BY <1>1, <1>2 DEF Row, States, WrittenBy
<1> QED  BY <1>3 DEF row

LEMMA VersionedRow ==
    ASSUME NEW row, WrittenBy(row), NEW on \in BOOLEAN, NEW version \in Nat
    PROVE  WrittenBy(Versioned(row, on, version))
BY DEF Row, WrittenBy, Versioned

LEMMA OverwrittenRow ==
    ASSUME NEW row, WrittenBy(row), NEW body \in Bodies, NEW on \in BOOLEAN
    PROVE  WrittenBy(Overwritten(row, body, on))
BY DEF Row, WrittenBy, Overwritten

\* A compliance rule is created, or overwritten by its name.
LEMMA SavedCompliance ==
    ASSUME RulesIInv, NEW r \in Rules, NEW name \in Names, NEW body \in Bodies, NEW on \in BOOLEAN,
           SaveCompliance(r, name, body, on)
    PROVE  RulesIInv'
<1>1. rule[r] \in Row /\ rule \in [Rules -> Row]  BY DEF RulesIInv, RulesTypeOK
<1>2. byHand' = byHand \cup {r} /\ UNCHANGED <<statement, candidate, teacher, decided>>
  BY DEF SaveCompliance
<1>3. CASE Exists(r)
  <2> DEFINE new == [rule[r] EXCEPT !.body = body, !.active = on]
  <2>1. rule' = [rule EXCEPT ![r] = new]  BY <1>3 DEF SaveCompliance
  <2>2. new \in Row /\ Keeps(rule[r], new)  BY <1>1, BothSet
  <2> HIDE DEF new
  <2> QED  BY <1>2, <2>1, <2>2, OneRow
<1>4. CASE ~Exists(r)
  <2> DEFINE new == Overwritten(ByAdmin("compliance_rule", name, body), body, on)
  <2>1. rule' = [rule EXCEPT ![r] = new] /\ rule[r].state = "none"
    BY <1>4 DEF SaveCompliance, Fresh, Overwritten, ByAdmin
  <2>2. WrittenBy(new)  BY ByAdminRow, OverwrittenRow
  <2> HIDE DEF new
  <2>3. new \in Row /\ Keeps(rule[r], new)
    BY <2>1, <2>2 DEF WrittenBy, Keeps, RulesIInv, NothingBeforeARule, Learned
  <2> QED  BY <1>2, <2>1, <2>3, OneRow
<1> QED  BY <1>3, <1>4

\* A version of a check is saved, and the one before it is switched off.
LEMMA SavedCheck ==
    ASSUME RulesIInv, NEW r \in Rules, NEW name \in Names, NEW body \in Bodies, NEW on \in BOOLEAN,
           SaveCheck(r, name, body, on)
    PROVE  RulesIInv'
<1>1. RulesTypeOK /\ rule \in [Rules -> Row]  BY DEF RulesIInv, RulesTypeOK
<1>2. /\ byHand' = byHand \cup {r} /\ rule[r].state = "none"
      /\ UNCHANGED <<statement, candidate, teacher, decided>>
  BY DEF SaveCheck, Fresh
<1>3. PICK last \in Rules :
          rule' = [rule EXCEPT ![last].active = FALSE,
                               ![r] = [NewRow("check", "active", name, body, NoCandidate)
                                          EXCEPT !.active = on,
                                                 !.version = rule[last].version + 1]]
  <2> DEFINE versions == {s \in Rules : Exists(s) /\ rule[s].kind = "check" /\ rule[s].name = name}
             newest == {s \in versions : \A t \in versions : rule[t].version <= rule[s].version}
  <2>1. (IF versions = {} THEN {r} ELSE newest) \subseteq Rules  OBVIOUS
  <2> QED  BY <2>1 DEF SaveCheck
<1> DEFINE new == Versioned(ByAdmin("check", name, body), on, rule[last].version + 1)
           off == [rule[last] EXCEPT !.active = FALSE]
<1>4. rule[last].version + 1 \in Nat  BY <1>1 DEF Row
<1>5. new \in Row /\ new.from = NoCandidate /\ new.state = "active"
  <2>1. WrittenBy(ByAdmin("check", name, body))  BY ByAdminRow
  <2> QED  BY <1>4, <2>1, VersionedRow DEF WrittenBy
<1>6. off \in Row /\ Keeps(rule[last], off) /\ Quiet(rule[last], off)
  <2>1. rule[last] \in Row  BY <1>1
  <2>2. off.active = FALSE  BY <2>1 DEF Row
  <2> QED  BY <2>1, <2>2 DEF Row, Keeps, Quiet
<1>7. rule' = [[rule EXCEPT ![last] = off] EXCEPT ![r] = new]
  BY <1>3 DEF Versioned, ByAdmin
<1> HIDE DEF new, off
<1>8. /\ rule' \in [Rules -> Row] /\ rule'[r] = new
      /\ \A s \in Rules \ {r} : rule'[s] = IF s = last THEN off ELSE rule[s]
  BY <1>1, <1>5, <1>6, <1>7
<1>9. Keeps(rule[r], new)  BY <1>2, <1>5 DEF Keeps, RulesIInv, NothingBeforeARule, Learned
<1>10. \A s \in Rules : Keeps(rule[s], rule[s]) /\ Quiet(rule[s], rule[s])
  BY DEF Keeps, Quiet
<1>11. \A s \in Rules : Keeps(rule[s], rule'[s])  BY <1>6, <1>8, <1>9, <1>10
<1>12. \A s \in Rules : s \in byHand' \/ Quiet(rule[s], rule'[s])
  BY <1>2, <1>6, <1>8, <1>10
<1>13. byHand' \in SUBSET Rules /\ byHand \subseteq byHand'  BY <1>1, <1>2 DEF RulesTypeOK
<1> QED  BY <1>2, <1>8, <1>11, <1>12, <1>13, RowsChange

\* A day passes, and the sweep forgets what was deleted long ago.
LEMMA Swept ==
    ASSUME RulesIInv, Day \/ PurgeRules
    PROVE  RulesIInv'
<1>1. rule \in [Rules -> Row]  BY DEF RulesIInv, RulesTypeOK
<1>2. byHand' = byHand /\ byHand' \in SUBSET Rules
      /\ UNCHANGED <<statement, candidate, teacher, decided>>
  BY DEF Day, PurgeRules, RulesIInv, RulesTypeOK
<1>3. \A r \in Rules : Keeps(rule[r], rule[r]) /\ Quiet(rule[r], rule[r])
  BY DEF Keeps, Quiet
<1>4. CASE Day
  <2>1. ASSUME NEW r \in Rules, rule[r].gone \in 1 .. Forever - 1
        PROVE  LET new == [rule[r] EXCEPT !.gone = rule[r].gone + 1] IN
               new \in Row /\ Keeps(rule[r], new) /\ Quiet(rule[r], new)
    <3>1. rule[r].gone + 1 \in 0 .. Forever  BY <2>1, RulesAssumption DEF Forever
    <3>2. rule[r] \in Row  BY <1>1
    <3> QED  BY <3>1, <3>2 DEF Row, Keeps, Quiet
  <2>2. rule' = [r \in Rules |-> IF rule[r].gone \in 1 .. Forever - 1
                                 THEN [rule[r] EXCEPT !.gone = rule[r].gone + 1] ELSE rule[r]]
    BY <1>4 DEF Day
  <2>3. \A r \in Rules : /\ rule'[r] \in Row /\ Keeps(rule[r], rule'[r])
                         /\ Quiet(rule[r], rule'[r])
    BY <1>1, <1>3, <2>1, <2>2
  <2>4. rule' \in [Rules -> Row]  BY <2>2, <2>3
  <2> QED  BY <1>2, <2>3, <2>4, RowsChange
<1>5. CASE PurgeRules
  <2>1. rule' = [r \in Rules |-> IF OutOfWindow(rule[r]) THEN [rule[r] EXCEPT !.body = Blank]
                                 ELSE rule[r]]
    BY <1>5 DEF PurgeRules
  <2>2. ASSUME NEW r \in Rules
        PROVE  LET new == [rule[r] EXCEPT !.body = Blank] IN
               new \in Row /\ Keeps(rule[r], new) /\ Quiet(rule[r], new)
    <3>1. rule[r] \in Row  BY <1>1
    <3> QED  BY <3>1 DEF Row, Keeps, Quiet
  <2>3. \A r \in Rules : /\ rule'[r] \in Row /\ Keeps(rule[r], rule'[r])
                         /\ Quiet(rule[r], rule'[r])
    BY <1>1, <1>3, <2>1, <2>2
  <2>4. rule' \in [Rules -> Row]  BY <2>1, <2>3
  <2> QED  BY <1>2, <2>3, <2>4, RowsChange
<1> QED  BY <1>4, <1>5

\* What a model drafted, and what people say of statements and drafts.
LEMMA DraftedTypes ==
    ASSUME RulesIInv, NEW S \in SUBSET Statements, NEW new \in SUBSET Candidates,
           NEW kinds \in [Candidates -> Kinds], NEW sound \in SUBSET new,
           Drafted(S, new, kinds, sound)
    PROVE  /\ statement' \in [Statements -> {"none", "new", "synthesized", "rejected", "withdrawn"}]
           /\ candidate' \in [Candidates -> [status : {"none", "draft", "approved", "rejected"},
                                             kind : Kinds \cup {"none"}, sources : SUBSET Statements]]
           /\ \A c \in Candidates : candidate[c].status # "none" => candidate'[c] = candidate[c]
<1> USE DEF RulesIInv
<1>1. ASSUME NEW c \in Candidates
      PROVE  [status |-> IF c \in sound THEN "draft" ELSE "rejected",
              kind |-> kinds[c], sources |-> S]
             \in [status : {"none", "draft", "approved", "rejected"},
                  kind : Kinds \cup {"none"}, sources : SUBSET Statements]
  OBVIOUS
<1>2. candidate' \in [Candidates -> [status : {"none", "draft", "approved", "rejected"},
                                     kind : Kinds \cup {"none"}, sources : SUBSET Statements]]
  BY <1>1 DEF Drafted, RulesTypeOK
<1>3. statement' \in [Statements -> {"none", "new", "synthesized", "rejected", "withdrawn"}]
  BY DEF Drafted, RulesTypeOK
<1>4. \A c \in Candidates : candidate[c].status # "none" => candidate'[c] = candidate[c]
  BY DEF Drafted
<1> QED  BY <1>2, <1>3, <1>4

LEMMA Papers ==
    ASSUME RulesIInv,
           \/ \E o \in Statements : Observe(o) \/ Withdraw(o) \/ RejectStatement(o)
           \/ \E o \in Statements, new \in SUBSET Candidates, kinds \in [Candidates -> Kinds] :
                 \E sound \in SUBSET new : FrontDoor(o, new, kinds, sound)
           \/ \E c \in Candidates : RejectCandidate(c)
    PROVE  RulesIInv'
<1>0. RulesTypeOK  BY DEF RulesIInv
<1>1. ASSUME UNCHANGED <<rule, teacher, byHand, decided>>,
             statement' \in [Statements -> {"none", "new", "synthesized", "rejected", "withdrawn"}],
             candidate' \in [Candidates -> [status : {"none", "draft", "approved", "rejected"},
                                            kind : Kinds \cup {"none"}, sources : SUBSET Statements]],
             \A c \in Candidates : candidate[c].status # "none" =>
                 /\ candidate'[c].kind = candidate[c].kind
                 /\ candidate'[c].status # "none"
                 /\ candidate'[c].status = "draft" => candidate[c].status = "draft"
      PROVE  RulesIInv'
  <2>1. \A p \in Teachers : IsAsking(teacher[p])'
    BY <1>0, <1>1 DEF RulesTypeOK, IsAsking
  <2>2. RulesTypeOK'  BY <1>0, <1>1, <2>1 DEF RulesTypeOK
  <2> QED  BY <1>1, <2>2, PapersChange
<1>2. CASE \E o \in Statements : Observe(o) \/ Withdraw(o) \/ RejectStatement(o)
  BY <1>0, <1>1, <1>2 DEF Observe, Withdraw, RejectStatement, RulesTypeOK
<1>3. CASE \E o \in Statements, new \in SUBSET Candidates, kinds \in [Candidates -> Kinds] :
               \E sound \in SUBSET new : FrontDoor(o, new, kinds, sound)
  <2> PICK o \in Statements, new \in SUBSET Candidates, kinds \in [Candidates -> Kinds] :
           \E sound \in SUBSET new : FrontDoor(o, new, kinds, sound)
    BY <1>3
  <2> PICK sound \in SUBSET new : FrontDoor(o, new, kinds, sound)  OBVIOUS
  <2>1. Drafted({o}, new, kinds, sound) /\ UNCHANGED <<rule, teacher, byHand, decided>>
    BY DEF FrontDoor
  <2> QED  BY <1>1, <2>1, DraftedTypes
<1>4. CASE \E c \in Candidates : RejectCandidate(c)
  <2> PICK c \in Candidates : RejectCandidate(c)  BY <1>4
  <2>1. /\ UNCHANGED <<rule, teacher, byHand, decided, statement>>
        /\ candidate' = [candidate EXCEPT ![c] = [candidate[c] EXCEPT !.status = "rejected"]]
    BY DEF RejectCandidate
  <2>2. LET new == [candidate[c] EXCEPT !.status = "rejected"] IN
        /\ new \in [status : {"none", "draft", "approved", "rejected"},
                    kind : Kinds \cup {"none"}, sources : SUBSET Statements]
        /\ new.kind = candidate[c].kind /\ new.status = "rejected"
    BY <1>0 DEF RulesTypeOK
  <2> QED  BY <1>0, <1>1, <2>1, <2>2 DEF RulesTypeOK
<1> QED  BY <1>2, <1>3, <1>4

\* The steps of a request of the training screens.
LEMMA Taught ==
    ASSUME RulesIInv, OneTeacher, NEW q \in Teachers, TeacherStep(q)
    PROVE  RulesIInv'
<1>0. RulesTypeOK  BY DEF RulesIInv
<1>1. CASE \E S \in SUBSET Statements : SynthesizeRead(q, S)
  <2> PICK S \in SUBSET Statements : SynthesizeRead(q, S)  BY <1>1
  <2> DEFINE asked == [doing |-> "synthesize", statements |-> S]
  <2>1. teacher' = [teacher EXCEPT ![q] = asked]
        /\ UNCHANGED <<statement, candidate, rule, byHand, decided>>
    BY DEF SynthesizeRead
  <2>2. IsAsking(asked) /\ asked.doing = "synthesize"  BY DEF IsAsking
  <2> HIDE DEF asked
  <2>3. /\ DOMAIN teacher' = Teachers /\ teacher'[q] = asked
        /\ \A p \in Teachers \ {q} : teacher'[p] = teacher[p]
    BY <1>0, <2>1 DEF RulesTypeOK
  <2>4. \A p \in Teachers : IsAsking(teacher'[p])  BY <1>0, <2>2, <2>3 DEF RulesTypeOK
  <2>5. \A p \in Teachers : IsAsking(teacher[p])'  BY <2>4 DEF IsAsking
  <2>6. RulesTypeOK'  BY <1>0, <2>1, <2>3, <2>5 DEF RulesTypeOK
  <2>7. \A p \in Teachers : Approving(p)' => teacher'[p] = teacher[p]
    BY <2>2, <2>3 DEF Approving
  <2> QED  BY <2>1, <2>6, <2>7, PapersChange
<1>2. CASE \E new \in SUBSET Candidates : \E sound \in SUBSET new, kinds \in [Candidates -> Kinds] :
               SynthesizeCommit(q, new, kinds, sound)
  <2> PICK new \in SUBSET Candidates : \E sound \in SUBSET new, kinds \in [Candidates -> Kinds] :
               SynthesizeCommit(q, new, kinds, sound)
    BY <1>2
  <2> PICK sound \in SUBSET new, kinds \in [Candidates -> Kinds] :
               SynthesizeCommit(q, new, kinds, sound)
    OBVIOUS
  <2>1. /\ Drafted(teacher[q].statements, new, kinds, sound)
        /\ teacher' = [teacher EXCEPT ![q] = NotAsking]
        /\ UNCHANGED <<rule, byHand, decided>>
        /\ teacher[q].doing = "synthesize"
    BY DEF SynthesizeCommit
  <2>2. teacher[q].statements \in SUBSET Statements
    <3>1. IsAsking(teacher[q])  BY <1>0 DEF RulesTypeOK
    <3>2. teacher[q] # NotAsking  BY <2>1 DEF NotAsking
    <3> QED  BY <2>1, <3>1, <3>2 DEF IsAsking
  <2> QED  BY <2>1, <2>2, DraftedTypes, RequestEnds
<1>3. CASE SynthesizeFails(q) \/ ApproveFails(q)
  BY <1>0, <1>3, RequestEnds DEF SynthesizeFails, ApproveFails, RulesTypeOK
<1>4. CASE \E c \in Candidates, body \in Bodies, how \in {"", "supersede", "keep_both"} :
               ApproveRead(q, c, body, how)
  BY <1>4, ApprovalBegins
<1>5. CASE \E r \in Rules, state \in {"shadow", "active"}, name \in Names :
               ApproveCommit(q, r, state, name)
  BY <1>5, ApprovalCommits
<1> QED  BY <1>1, <1>2, <1>3, <1>4, <1>5 DEF TeacherStep

-----------------------------------------------------------------------------
\* The initial states have the invariant.
LEMMA RulesInitIInv == RulesInit => RulesIInv
<1> SUFFICES ASSUME RulesInit PROVE RulesIInv  OBVIOUS
<1> DEFINE none == [status |-> "none", kind |-> "none", sources |-> {}]
<1>1. none \in [status : {"none", "draft", "approved", "rejected"},
                kind : Kinds \cup {"none"}, sources : SUBSET Statements]
  OBVIOUS
<1>2. \A r \in Rules : ~Learned(r)  BY NoRuleType DEF RulesInit, Learned
<1>3. IsAsking(NotAsking) /\ NotAsking.doing = "nothing"  BY DEF IsAsking, NotAsking
<1>4. \A q \in Teachers : ~Approving(q)  BY <1>3 DEF RulesInit, Approving
<1>5. RulesTypeOK
  <2>1. candidate \in [Candidates -> [status : {"none", "draft", "approved", "rejected"},
                                      kind : Kinds \cup {"none"}, sources : SUBSET Statements]]
    BY <1>1 DEF RulesInit
  <2>2. \A q \in Teachers : IsAsking(teacher[q])  BY <1>3 DEF RulesInit
  <2> QED  BY <2>1, <2>2, NoRuleType DEF RulesInit, RulesTypeOK
<1> QED
  BY <1>2, <1>4, <1>5 DEF RulesIInv, NothingBeforeARule, DecidedOnce, ApprovalsAreFirst,
     ApprovalsKnowTheOverlaps, OverlapsAreDecided, OneRulePerCandidate

\* Every step keeps it, when the training screens serve one request at a time.
LEMMA RulesStepIInv ==
    ASSUME OneTeacher PROVE RulesIInv /\ [RulesNext]_rulesVars => RulesIInv'
<1> SUFFICES ASSUME RulesIInv, [RulesNext]_rulesVars PROVE RulesIInv'  OBVIOUS
<1>0. RulesTypeOK  BY DEF RulesIInv
<1>1. CASE UNCHANGED rulesVars
  <2>1. UNCHANGED <<statement, candidate, rule, teacher, byHand, decided>>
    BY <1>1 DEF rulesVars
  <2>2. \A q \in Teachers : IsAsking(teacher[q])'
    BY <1>0, <2>1 DEF RulesTypeOK, IsAsking
  <2>3. RulesTypeOK'  BY <1>0, <2>1, <2>2 DEF RulesTypeOK
  <2> QED  BY <1>0, <2>1, <2>3, PapersChange DEF RulesTypeOK
<1>2. CASE \E q \in Teachers : TeacherStep(q)  BY <1>2, Taught
<1>3. CASE \E o \in Statements : StatementStep(o)
  BY <1>3, Papers DEF StatementStep
<1>4. CASE \E c \in Candidates : RejectCandidate(c)  BY <1>4, Papers
<1>5. CASE \E r \in Rules : RuleStep(r)
  <2> PICK r \in Rules : RuleStep(r)  BY <1>5
  <2>1. CASE Enable(r) \/ Disable(r) \/ Delete(r) \/ Restore(r)  BY <2>1, Switched
  <2>2. CASE \E name \in Names, body \in Bodies, on \in BOOLEAN :
                 SaveCheck(r, name, body, on) \/ SaveCompliance(r, name, body, on)
    BY <2>2, SavedCheck, SavedCompliance
  <2>3. CASE \E on \in BOOLEAN : SetCheckActive(r, on)  BY <2>3, CheckSwitched
  <2>4. CASE \E body \in Bodies : EditCompliance(r, body)  BY <2>4, ComplianceEdited
  <2>5. CASE DeleteCompliance(r)  BY <2>5, ComplianceDeleted
  <2> QED  BY <2>1, <2>2, <2>3, <2>4, <2>5 DEF RuleStep
<1>6. CASE Day \/ PurgeRules  BY <1>6, Swept
<1> QED  BY <1>1, <1>2, <1>3, <1>4, <1>5, <1>6 DEF RulesNext

-----------------------------------------------------------------------------
\* The inductive invariant of the rules holds in every reachable state.
THEOREM RulesInvariance == ASSUME OneTeacher PROVE RulesSpec => []RulesIInv
<1>1. RulesInit => RulesIInv  BY RulesInitIInv
<1>2. RulesIInv /\ [RulesNext]_rulesVars => RulesIInv'  BY RulesStepIInv
<1> QED  BY <1>1, <1>2, PTL DEF RulesSpec

\* Every reachable state is well typed.
THEOREM RulesTypeCorrect == ASSUME OneTeacher PROVE RulesSpec => []RulesTypeOK
<1>1. RulesIInv => RulesTypeOK  BY DEF RulesIInv
<1> QED  BY <1>1, RulesInvariance, PTL

\* Overlapping rules run side by side only because somebody said so: what synthesis.approve
\* decides on is enough, for any rules and candidates, when approvals do not overlap.
THEOREM OverlapsWereDecided == ASSUME OneTeacher PROVE RulesSpec => []OverlapsAreDecided
<1>1. RulesIInv => OverlapsAreDecided  BY DEF RulesIInv
<1> QED  BY <1>1, RulesInvariance, PTL

\* A candidate becomes one rule, for any rules and candidates, when approvals do not
\* overlap: whatever is decided about it afterwards makes it no draft again.
THEOREM CandidatesBecomeOneRule == ASSUME OneTeacher PROVE RulesSpec => []OneRulePerCandidate
<1>1. RulesIInv => OneRulePerCandidate  BY DEF RulesIInv
<1> QED  BY <1>1, RulesInvariance, PTL

-----------------------------------------------------------------------------
(***************************************************************************)
(* Proofs about Meaning, for any entries, guides and contents.             *)
(*                                                                         *)
(* The properties speak of rows that run; what is inductive speaks of all  *)
(* rows that are not deleted, since the Rules screen may switch a disabled *)
(* one on without anybody asking what its entry says.                      *)
(***************************************************************************)
\* A row that is not deleted has somebody to stand by it: an entry nobody decided on, an
\* entry that says the same, or one of the exceptions.
Stands(e, k) ==
    Live(compiled[e][k]) =>
        \/ entry[e].status \in {"proposed", "open"}
        \/ /\ entry[e].status = "confirmed"
           /\ compiled[e][k].content = entry[e].content
           /\ k \in Yields[entry[e].content]
        \/ <<e, k>> \in byScreen
        \/ e \in unwritten

AllStand == \A e \in Written, k \in Targets : Stands(e, k)

MeaningIInv == MeaningTypeOK /\ AllStand

-----------------------------------------------------------------------------
(* Lemmas about compiling and retiring. *)

LEMMA CompiledRowFacts ==
    ASSUME NEW row \in ARow, NEW content \in Contents \cup {NoContent}, NEW wanted \in BOOLEAN
    PROVE  /\ CompiledRow(row, content, wanted) \in ARow
           /\ Live(CompiledRow(row, content, wanted)) =>
                  wanted /\ CompiledRow(row, content, wanted).content = content
<1>1. CASE wanted
  BY <1>1 DEF CompiledRow, ARow, Live
<1>2. CASE ~wanted /\ Live(row)
  BY <1>2 DEF CompiledRow, ARow, Live
<1>3. CASE ~wanted /\ ~Live(row)
  BY <1>3 DEF CompiledRow
<1> QED  BY <1>1, <1>2, <1>3

\* What compiling leaves live is what the content yields.
LEMMA CompileFacts ==
    ASSUME MeaningTypeOK, NEW e \in Written, NEW content \in Contents \cup {NoContent}
    PROVE  /\ Compile(e, content) \in [Targets -> ARow]
           /\ \A k \in Targets : Live(Compile(e, content)[k]) =>
                  /\ Compile(e, content)[k].content = content
                  /\ k \in Yields[content]
<1>1. \A k \in Targets : compiled[e][k] \in ARow  BY DEF MeaningTypeOK
<1>2. \A k \in Targets : /\ Compile(e, content)[k] =
                                CompiledRow(compiled[e][k], content, k \in Wanted(e, content))
                         /\ Compile(e, content)[k] \in ARow
                         /\ Live(Compile(e, content)[k]) =>
                                /\ k \in Wanted(e, content)
                                /\ Compile(e, content)[k].content = content
  <2> TAKE k \in Targets
  <2> DEFINE wanted == k \in Wanted(e, content)
  <2>1. Compile(e, content)[k] = CompiledRow(compiled[e][k], content, wanted)
    BY DEF Compile
  <2>2. wanted \in BOOLEAN  OBVIOUS
  <2> HIDE DEF wanted
  <2>3. /\ CompiledRow(compiled[e][k], content, wanted) \in ARow
        /\ Live(CompiledRow(compiled[e][k], content, wanted)) =>
               wanted /\ CompiledRow(compiled[e][k], content, wanted).content = content
    BY <1>1, <2>2, CompiledRowFacts
  <2> QED  BY <2>1, <2>3 DEF wanted
<1>3. Compile(e, content) \in [Targets -> ARow]
  <2>1. Compile(e, content) = [k \in Targets |-> Compile(e, content)[k]]  BY DEF Compile
  <2> QED  BY <1>2, <2>1
<1>4. \A k \in Wanted(e, content) : k \in Yields[content]  BY DEF Wanted
<1> QED  BY <1>2, <1>3, <1>4

\* Retiring leaves nothing live.
LEMMA RetireFacts ==
    ASSUME MeaningTypeOK, NEW e \in Written
    PROVE  /\ Retire(e) \in [Targets -> ARow]
           /\ \A k \in Targets : ~Live(Retire(e)[k])
<1>1. \A k \in Targets : compiled[e][k] \in ARow  BY DEF MeaningTypeOK
<1>2. \A k \in Targets : Retire(e)[k] =
          IF Live(compiled[e][k]) THEN [compiled[e][k] EXCEPT !.state = "deleted"]
          ELSE compiled[e][k]
  BY DEF Retire
<1>3. \A k \in Targets : [compiled[e][k] EXCEPT !.state = "deleted"] \in ARow
                         /\ ~Live([compiled[e][k] EXCEPT !.state = "deleted"])
  BY <1>1 DEF ARow, Live
<1>4. \A k \in Targets : Retire(e)[k] \in ARow /\ ~Live(Retire(e)[k])
  BY <1>1, <1>2, <1>3
<1>5. Retire(e) = [k \in Targets |-> Retire(e)[k]]  BY DEF Retire
<1> QED  BY <1>4, <1>5

\* Some entries are decided: each of them is compiled or retired, the others stay.
LEMMA Decided ==
    ASSUME MeaningIInv, NEW S \in SUBSET Written,
           entry' \in [Written -> AnEntry],
           compiled' \in [Written -> [Targets -> ARow]],
           \A e \in Written \ S : entry'[e] = entry[e] /\ compiled'[e] = compiled[e],
           \A e \in S : \/ \A k \in Targets : ~Live(compiled'[e][k])
                        \/ /\ entry'[e].status = "confirmed"
                           /\ compiled'[e] = Compile(e, entry'[e].content),
           Settled(S), UNCHANGED <<readable, interview>>
    PROVE  MeaningIInv'
<1> MeaningTypeOK  BY DEF MeaningIInv
<1>1. MeaningTypeOK'  BY DEF MeaningTypeOK, Settled
<1>2. ASSUME NEW e \in Written, NEW k \in Targets PROVE Stands(e, k)'
  <2>1. CASE e \notin S
    <3>1. Stands(e, k)  BY DEF MeaningIInv, AllStand
    <3>2. /\ <<e, k>> \in byScreen => <<e, k>> \in byScreen'
          /\ e \in unwritten => e \in unwritten'
      BY <2>1 DEF Settled
    <3>3. entry'[e] = entry[e] /\ compiled'[e] = compiled[e]  BY <2>1
    <3> QED  BY <3>1, <3>2, <3>3 DEF Stands, Live
  <2>2. CASE e \in S /\ \A j \in Targets : ~Live(compiled'[e][j])
    BY <2>2 DEF Stands, Live
  <2>3. CASE entry'[e].status = "confirmed" /\ compiled'[e] = Compile(e, entry'[e].content)
    <3>1. entry'[e].content \in Contents \cup {NoContent}  BY DEF AnEntry
    <3>2. Live(compiled'[e][k]) =>
              compiled'[e][k].content = entry'[e].content /\ k \in Yields[entry'[e].content]
      BY <2>3, <3>1, CompileFacts
    <3> QED  BY <2>3, <3>2 DEF Stands, Live
  <2> QED  BY <2>1, <2>2, <2>3
<1> QED  BY <1>1, <1>2 DEF MeaningIInv, AllStand

\* Some entries are rewritten and nothing is compiled.
LEMMA Unwritten ==
    ASSUME MeaningIInv, NEW S \in SUBSET Written,
           entry' \in [Written -> AnEntry],
           \A e \in Written \ S : entry'[e] = entry[e],
           \A e \in S : \/ e \in unwritten'
                        \/ entry'[e].status \in {"proposed", "open"}
                        \/ entry'[e].status = entry[e].status /\ entry[e].status # "confirmed",
           unwritten \subseteq unwritten', unwritten' \subseteq Written,
           (interview'.asking \in BOOLEAN) /\ (interview'.asking => interview'.read \in [Entries -> AnEntry]),
           UNCHANGED <<compiled, readable, byScreen>>
    PROVE  MeaningIInv'
<1> MeaningTypeOK  BY DEF MeaningIInv
<1>1. MeaningTypeOK'  BY DEF MeaningTypeOK
<1>2. ASSUME NEW e \in Written, NEW k \in Targets PROVE Stands(e, k)'
  <2>1. Stands(e, k)  BY DEF MeaningIInv, AllStand
  <2>2. CASE e \notin S
    <3>1. entry'[e] = entry[e]  BY <2>2
    <3> QED  BY <2>1, <3>1 DEF Stands, Live
  <2>3. CASE e \in unwritten'  BY <2>3 DEF Stands
  <2>4. CASE entry'[e].status \in {"proposed", "open"}  BY <2>4 DEF Stands
  <2>5. CASE entry'[e].status = entry[e].status /\ entry[e].status # "confirmed"
    BY <2>1, <2>5 DEF Stands, Live
  <2> QED  BY <2>2, <2>3, <2>4, <2>5
<1> QED  BY <1>1, <1>2 DEF MeaningIInv, AllStand

-----------------------------------------------------------------------------
\* The initial states have the invariant.
LEMMA MeaningInitIInv == MeaningInit => MeaningIInv
<1> SUFFICES ASSUME MeaningInit PROVE MeaningIInv  OBVIOUS
<1>1. Absent \in AnEntry /\ NotCompiled \in ARow /\ ~Live(NotCompiled)
  BY DEF Absent, AnEntry, NotCompiled, ARow, Live
<1>2. MeaningTypeOK  BY <1>1 DEF MeaningInit, MeaningTypeOK
<1>3. AllStand  BY <1>1 DEF MeaningInit, AllStand, Stands
<1> QED  BY <1>2, <1>3 DEF MeaningIInv

\* An entry is confirmed with a content.
LEMMA Confirmed ==
    ASSUME MeaningIInv, NEW e \in Written, NEW content \in Contents, Confirm(e, content)
    PROVE  MeaningIInv'
<1> MeaningTypeOK  BY DEF MeaningIInv
<1>1. /\ entry' = [entry EXCEPT ![e] = [status |-> "confirmed", content |-> content]]
      /\ compiled' = [compiled EXCEPT ![e] = Compile(e, content)]
      /\ Settled({e}) /\ UNCHANGED <<readable, interview>>
  BY DEF Confirm
<1>2. [status |-> "confirmed", content |-> content] \in AnEntry  BY DEF AnEntry, EntryStatuses
<1>3. Compile(e, content) \in [Targets -> ARow]  BY CompileFacts
<1>4. entry' \in [Written -> AnEntry] /\ compiled' \in [Written -> [Targets -> ARow]]
  BY <1>1, <1>2, <1>3 DEF MeaningTypeOK
<1>5. \A f \in Written \ {e} : entry'[f] = entry[f] /\ compiled'[f] = compiled[f]
  BY <1>1 DEF MeaningTypeOK
<1>6. entry'[e] = [status |-> "confirmed", content |-> content]
      /\ compiled'[e] = Compile(e, content)
  BY <1>1 DEF MeaningTypeOK
<1> QED  BY <1>1, <1>4, <1>5, <1>6, Decided

\* An administrator edits an entry.
LEMMA Edited ==
    ASSUME MeaningIInv, NEW e \in Entries, NEW content \in Contents,
           NEW status \in EntryStatuses \cup {""}, EditEntry(e, content, status)
    PROVE  MeaningIInv'
<1> MeaningTypeOK /\ e \in Written  BY DEF MeaningIInv, Written
<1>1. CASE Confirm(e, content)  BY <1>1, Confirmed
<1>2. CASE /\ status = "rejected"
           /\ entry' = [entry EXCEPT ![e] = [status |-> status, content |-> content]]
           /\ compiled' = [compiled EXCEPT ![e] = Retire(e)]
           /\ Settled({e}) /\ UNCHANGED <<readable, interview>>
  <2>1. [status |-> status, content |-> content] \in AnEntry
    BY <1>2 DEF AnEntry, EntryStatuses
  <2>2. Retire(e) \in [Targets -> ARow] /\ \A k \in Targets : ~Live(Retire(e)[k])
    BY RetireFacts
  <2>3. entry' \in [Written -> AnEntry] /\ compiled' \in [Written -> [Targets -> ARow]]
    BY <1>2, <2>1, <2>2 DEF MeaningTypeOK
  <2>4. \A f \in Written \ {e} : entry'[f] = entry[f] /\ compiled'[f] = compiled[f]
    BY <1>2 DEF MeaningTypeOK
  <2>5. compiled'[e] = Retire(e)  BY <1>2 DEF MeaningTypeOK
  <2> QED  BY <1>2, <2>2, <2>3, <2>4, <2>5, Decided
<1>3. CASE /\ \/ status \in {"proposed", "open"}
              \/ status = "" /\ entry[e].status # "confirmed"
           /\ entry' = [entry EXCEPT ![e] =
                  [status |-> IF status = "" THEN entry[e].status ELSE status, content |-> content]]
           /\ UNCHANGED <<compiled, readable, interview, byScreen, unwritten>>
  <2> DEFINE next == IF status = "" THEN entry[e].status ELSE status
  <2>1. next \in EntryStatuses \cup {"none"} /\ [status |-> next, content |-> content] \in AnEntry
    BY <1>3 DEF MeaningTypeOK, AnEntry, EntryStatuses
  <2>2. \/ next \in {"proposed", "open"}
        \/ next = entry[e].status /\ entry[e].status # "confirmed"
    BY <1>3
  <2>3. entry' = [entry EXCEPT ![e] = [status |-> next, content |-> content]]  BY <1>3
  <2> HIDE DEF next
  <2>4. entry' \in [Written -> AnEntry]  BY <2>1, <2>3 DEF MeaningTypeOK
  <2>5. /\ \A f \in Written \ {e} : entry'[f] = entry[f]
        /\ entry'[e].status = next
    BY <2>3 DEF MeaningTypeOK
  <2>6. \A f \in {e} : \/ entry'[f].status \in {"proposed", "open"}
                       \/ entry'[f].status = entry[f].status /\ entry[f].status # "confirmed"
    <3>1. \/ entry'[e].status \in {"proposed", "open"}
          \/ entry'[e].status = entry[e].status /\ entry[e].status # "confirmed"
      <4>1. entry'[e].status = next  BY <2>5
      <4> QED  BY <2>2, <4>1
    <3> QED  BY <3>1
  <2>7. /\ unwritten \subseteq unwritten' /\ unwritten' \subseteq Written
        /\ interview'.asking \in BOOLEAN
        /\ interview'.asking => interview'.read \in [Entries -> AnEntry]
    BY <1>3 DEF MeaningTypeOK
  <2>8. UNCHANGED <<compiled, readable, byScreen>> /\ {e} \in SUBSET Written  BY <1>3
  <2> QED  BY <2>4, <2>5, <2>6, <2>7, <2>8, Unwritten
<1> QED  BY <1>1, <1>2, <1>3 DEF EditEntry

\* Several are decided at once.
LEMMA Bulked ==
    ASSUME MeaningIInv, NEW S \in SUBSET Entries, NEW action \in {"confirm", "reject", "delete"},
           Bulk(S, action)
    PROVE  MeaningIInv'
<1> MeaningTypeOK /\ S \in SUBSET Written  BY DEF MeaningIInv, Written
<1>1. /\ DOMAIN entry' = Written
      /\ \A e \in Written \ S : entry'[e] = entry[e] /\ compiled'[e] = compiled[e]
      /\ Settled(S) /\ UNCHANGED <<readable, interview>>
  BY DEF Bulk
<1>2. \A e \in S : entry[e] \in AnEntry  BY DEF MeaningTypeOK
<1>3. CASE action = "confirm"
  <2>1. \A e \in S : /\ entry'[e] = [entry[e] EXCEPT !.status = "confirmed"]
                     /\ compiled'[e] = Compile(e, entry[e].content)
    BY <1>3 DEF Bulk
  <2>2. \A e \in S : /\ entry'[e] \in AnEntry /\ entry'[e].status = "confirmed"
                     /\ entry'[e].content = entry[e].content
                     /\ entry[e].content \in Contents \cup {NoContent}
    BY <1>2, <2>1 DEF AnEntry, EntryStatuses
  <2>3. \A e \in S : Compile(e, entry[e].content) \in [Targets -> ARow]
    BY <2>2, CompileFacts
  <2>4. entry' \in [Written -> AnEntry]
    BY <1>1, <2>2 DEF Bulk, MeaningTypeOK
  <2>5. compiled' \in [Written -> [Targets -> ARow]]
    <3>1. ASSUME NEW e \in Written PROVE compiled'[e] \in [Targets -> ARow]
      <4>1. CASE e \in S
        <5>1. compiled'[e] = Compile(e, entry[e].content)  BY <2>1, <4>1
        <5> QED  BY <2>3, <4>1, <5>1
      <4>2. CASE e \notin S  BY <1>1, <4>2 DEF MeaningTypeOK
      <4> QED  BY <4>1, <4>2
    <3>2. compiled' = [e \in Written |-> compiled'[e]]  BY DEF Bulk
    <3> QED  BY <3>1, <3>2
  <2> QED  BY <1>1, <2>1, <2>2, <2>4, <2>5, Decided
<1>4. CASE action \in {"reject", "delete"}
  <2>1. \A e \in S : compiled'[e] = Retire(e)  BY <1>4 DEF Bulk
  <2>2. \A e \in S : Retire(e) \in [Targets -> ARow] /\ \A k \in Targets : ~Live(Retire(e)[k])
    BY RetireFacts
  <2>3. \A e \in S : entry'[e] \in AnEntry
    <3>1. CASE action = "reject"
      <4>1. \A e \in S : entry'[e] = [entry[e] EXCEPT !.status = "rejected"]
        BY <3>1 DEF Bulk
      <4> QED  BY <1>2, <4>1 DEF AnEntry, EntryStatuses
    <3>2. CASE action = "delete"
      <4>1. \A e \in S : entry'[e] = Absent  BY <3>2 DEF Bulk
      <4> QED  BY <4>1 DEF Absent, AnEntry
    <3> QED  BY <1>4, <3>1, <3>2
  <2>4. entry' \in [Written -> AnEntry]
    <3>1. \A e \in Written : entry'[e] \in AnEntry  BY <1>1, <2>3 DEF MeaningTypeOK
    <3>2. entry' = [e \in Written |-> entry'[e]]  BY DEF Bulk
    <3> QED  BY <3>1, <3>2
  <2>5. compiled' \in [Written -> [Targets -> ARow]]
    <3>1. \A e \in Written : compiled'[e] \in [Targets -> ARow]
      BY <1>1, <2>1, <2>2 DEF MeaningTypeOK
    <3>2. compiled' = [e \in Written |-> compiled'[e]]  BY DEF Bulk
    <3> QED  BY <3>1, <3>2
  <2> QED  BY <1>1, <2>1, <2>2, <2>4, <2>5, Decided
<1> QED  BY <1>3, <1>4

\* The interview rewrites what it named.
LEMMA Proposed ==
    ASSUME MeaningIInv, NEW says \in [Entries -> Contents \cup {NoContent}],
           NEW status \in [Entries -> {"proposed", "open"}], ProposeCommit(says, status)
    PROVE  MeaningIInv'
<1> MeaningTypeOK  BY DEF MeaningIInv
<1> DEFINE read == interview.read
           named == {e \in Entries : says[e] # NoContent /\ read[e].status # "confirmed"}
           new(e) == Rewritten(entry[e], read[e], status[e], says[e])
<1>1. /\ entry' = [e \in Written |-> IF e \in named THEN new(e) ELSE entry[e]]
      /\ unwritten' = unwritten \cup {e \in named : entry[e].status = "confirmed"}
      /\ interview' = [asking |-> FALSE] /\ UNCHANGED <<compiled, readable, byScreen>>
  BY DEF ProposeCommit
<1>2. named \in SUBSET Written /\ named \subseteq Entries  BY DEF Written
<1>3. ASSUME NEW e \in named
      PROVE  /\ new(e) \in AnEntry
             /\ new(e).status = entry[e].status \/ new(e).status \in {"proposed", "open"}
  <2>1. e \in Entries /\ e \in Written /\ entry[e] \in AnEntry  BY DEF MeaningTypeOK, Written
  <2>2. says[e] \in Contents \cup {NoContent} /\ status[e] \in {"proposed", "open"}
    BY <2>1
  <2> HIDE DEF named, read
  <2> QED  BY <2>1, <2>2 DEF Rewritten, AnEntry, EntryStatuses
<1> HIDE DEF named, new, read
<1>4. entry' \in [Written -> AnEntry]  BY <1>1, <1>3 DEF MeaningTypeOK
<1>5. \A e \in Written \ named : entry'[e] = entry[e]  BY <1>1
<1>6. \A e \in named : \/ e \in unwritten'
                       \/ entry'[e].status \in {"proposed", "open"}
                       \/ entry'[e].status = entry[e].status /\ entry[e].status # "confirmed"
  <2> TAKE e \in named
  <2>1. entry'[e] = new(e)  BY <1>1, <1>2
  <2> QED  BY <1>1, <1>3, <2>1
<1>7. unwritten \subseteq unwritten' /\ unwritten' \subseteq Written
  BY <1>1, <1>2 DEF MeaningTypeOK
<1>8. interview'.asking = FALSE  BY <1>1
<1> QED  BY <1>1, <1>2, <1>4, <1>5, <1>6, <1>7, <1>8, Unwritten

\* A guide is saved and compiled, or put back and not compiled.
LEMMA GuideFacts ==
    ASSUME MeaningTypeOK, NEW says \in [Guides -> Contents \cup {NoContent}],
           entry' = [e \in Written |->
               IF e \notin Guides THEN entry[e]
               ELSE IF says[e] = NoContent THEN Absent
               ELSE [status |-> "confirmed", content |-> says[e]]]
    PROVE  /\ entry' \in [Written -> AnEntry]
           /\ \A e \in Written \ Guides : entry'[e] = entry[e]
           /\ \A e \in Guides : says[e] # NoContent =>
                  entry'[e].status = "confirmed" /\ entry'[e].content = says[e]
<1>1. Guides \subseteq Written  BY DEF Written
<1>2. Absent \in AnEntry  BY DEF Absent, AnEntry
<1>3. \A e \in Guides : [status |-> "confirmed", content |-> says[e]] \in AnEntry
  BY DEF AnEntry, EntryStatuses
<1>4. \A e \in Written : entry'[e] \in AnEntry  BY <1>2, <1>3 DEF MeaningTypeOK
<1> QED  BY <1>1, <1>4

LEMMA GuideSaved ==
    ASSUME MeaningIInv, NEW says \in [Guides -> Contents \cup {NoContent}], SaveGuide(says)
    PROVE  MeaningIInv'
<1> MeaningTypeOK /\ Guides \in SUBSET Written  BY DEF MeaningIInv, Written
<1>1. /\ entry' \in [Written -> AnEntry]
      /\ \A e \in Written \ Guides : entry'[e] = entry[e]
      /\ \A e \in Guides : says[e] # NoContent =>
             entry'[e].status = "confirmed" /\ entry'[e].content = says[e]
  BY GuideFacts DEF SaveGuide
<1>2. compiled' = [e \in Written |->
          IF e \notin Guides THEN compiled[e]
          ELSE IF says[e] = NoContent THEN Retire(e) ELSE Compile(e, says[e])]
  BY DEF SaveGuide
<1>3. \A e \in Written \ Guides : compiled'[e] = compiled[e]  BY <1>2
<1>4. \A e \in Guides : /\ says[e] = NoContent => compiled'[e] = Retire(e)
                        /\ says[e] # NoContent => compiled'[e] = Compile(e, says[e])
  BY <1>2
<1>5. \A e \in Guides : /\ Retire(e) \in [Targets -> ARow]
                        /\ \A k \in Targets : ~Live(Retire(e)[k])
                        /\ Compile(e, says[e]) \in [Targets -> ARow]
  BY RetireFacts, CompileFacts
<1>6. compiled' \in [Written -> [Targets -> ARow]]
  <2>1. \A e \in Written : compiled'[e] \in [Targets -> ARow]
    BY <1>3, <1>4, <1>5 DEF MeaningTypeOK
  <2>2. compiled' = [e \in Written |-> compiled'[e]]  BY <1>2
  <2> QED  BY <2>1, <2>2
<1>7. \A e \in Guides : \/ \A k \in Targets : ~Live(compiled'[e][k])
                        \/ /\ entry'[e].status = "confirmed"
                           /\ compiled'[e] = Compile(e, entry'[e].content)
  BY <1>1, <1>4, <1>5
<1>8. Settled(Guides) /\ UNCHANGED <<readable, interview>>  BY DEF SaveGuide
<1> QED  BY <1>1, <1>3, <1>6, <1>7, <1>8, Decided

LEMMA GuideReverted ==
    ASSUME MeaningIInv, NEW says \in [Guides -> Contents \cup {NoContent}], RevertGuide(says)
    PROVE  MeaningIInv'
<1> MeaningTypeOK  BY DEF MeaningIInv
<1> DEFINE S == {e \in Guides : entry[e] # entry'[e]}
<1>1. entry' \in [Written -> AnEntry] /\ \A e \in Written \ Guides : entry'[e] = entry[e]
  BY GuideFacts DEF RevertGuide
<1>2. S \in SUBSET Written /\ \A e \in Written \ S : entry'[e] = entry[e]
  BY <1>1 DEF Written
<1>3. unwritten' = unwritten \cup S /\ UNCHANGED <<compiled, readable, interview, byScreen>>
  BY DEF RevertGuide
<1> HIDE DEF S
<1>4. unwritten \subseteq unwritten' /\ unwritten' \subseteq Written /\ S \subseteq unwritten'
  BY <1>2, <1>3 DEF MeaningTypeOK
<1> QED  BY <1>1, <1>2, <1>3, <1>4, Unwritten DEF MeaningTypeOK

\* The Rules screen moves a compiled row.
LEMMA RowMoved ==
    ASSUME MeaningIInv, NEW e \in Written, NEW k \in Targets,
           NEW to \in {"active", "disabled", "deleted"}, MoveCompiled(e, k, to)
    PROVE  MeaningIInv'
<1> MeaningTypeOK  BY DEF MeaningIInv
<1>1. /\ compiled[e][k] \in ARow /\ compiled[e][k].state # "none"
      /\ compiled' = [compiled EXCEPT ![e] = [compiled[e] EXCEPT ![k] =
                          [compiled[e][k] EXCEPT !.state = to]]]
      /\ UNCHANGED <<entry, readable, interview, unwritten>>
  BY DEF MoveCompiled, MeaningTypeOK
<1>2. [compiled[e][k] EXCEPT !.state = to] \in ARow
      /\ [compiled[e][k] EXCEPT !.state = to].content = compiled[e][k].content
      /\ [compiled[e][k] EXCEPT !.state = to].state = to
  BY <1>1 DEF ARow
<1>3. compiled' \in [Written -> [Targets -> ARow]]  BY <1>1, <1>2 DEF MeaningTypeOK
<1>4. byScreen' = IF compiled[e][k].state = "deleted" /\ to # "deleted"
                  THEN byScreen \cup {<<e, k>>} ELSE byScreen
  BY DEF MoveCompiled
<1>5. MeaningTypeOK'  BY <1>1, <1>3, <1>4 DEF MeaningTypeOK
<1>6. ASSUME NEW f \in Written, NEW j \in Targets PROVE Stands(f, j)'
  <2>1. Stands(f, j) /\ byScreen \subseteq byScreen'  BY <1>4 DEF MeaningIInv, AllStand
  <2>2. CASE f # e \/ j # k
    <3>1. compiled'[f][j] = compiled[f][j]  BY <1>1, <2>2 DEF MeaningTypeOK
    <3> QED  BY <1>1, <2>1, <3>1 DEF Stands, Live
  <2>3. CASE f = e /\ j = k
    <3>1. /\ compiled'[e][k].state = to
          /\ compiled'[e][k].content = compiled[e][k].content
      BY <1>1, <1>2 DEF MeaningTypeOK
    <3>2. CASE to = "deleted"  BY <2>3, <3>1, <3>2 DEF Stands, Live
    <3>3. CASE to # "deleted" /\ compiled[e][k].state = "deleted"
      BY <1>4, <2>3, <3>3 DEF Stands
    <3>4. CASE to # "deleted" /\ compiled[e][k].state # "deleted"
      <4>1. Live(compiled[e][k])  BY <1>1, <3>4 DEF ARow, Live
      <4> QED  BY <1>1, <2>1, <2>3, <3>1, <4>1 DEF Stands
    <3> QED  BY <3>2, <3>3, <3>4
  <2> QED  BY <2>2, <2>3
<1> QED  BY <1>5, <1>6 DEF MeaningIInv, AllStand

-----------------------------------------------------------------------------
\* Every step keeps the invariant.
LEMMA MeaningStepIInv == MeaningIInv /\ [MeaningNext]_meaningVars => MeaningIInv'
<1> SUFFICES ASSUME MeaningIInv, [MeaningNext]_meaningVars PROVE MeaningIInv'  OBVIOUS
<1> MeaningTypeOK  BY DEF MeaningIInv
<1>1. CASE UNCHANGED meaningVars
  BY <1>1 DEF MeaningIInv, MeaningTypeOK, AllStand, Stands, Live, meaningVars
<1>2. CASE \E e \in Entries, content \in Contents : CreateEntry(e, content)
  BY <1>2, Confirmed DEF CreateEntry, Written
<1>3. CASE \E e \in Entries, content \in Contents, status \in EntryStatuses \cup {""} :
               EditEntry(e, content, status)
  BY <1>3, Edited
<1>4. CASE \E S \in SUBSET Entries, action \in {"confirm", "reject", "delete"} : Bulk(S, action)
  BY <1>4, Bulked
<1>5. CASE ProposeRead
  <2>1. entry' \in [Written -> AnEntry] /\ \A e \in Written : entry'[e] = entry[e]
    BY <1>5 DEF ProposeRead, MeaningTypeOK
  <2>2. [e \in Entries |-> entry[e]] \in [Entries -> AnEntry]  BY DEF MeaningTypeOK, Written
  <2>3. interview'.asking = TRUE /\ interview'.read = [e \in Entries |-> entry[e]]
    BY <1>5 DEF ProposeRead
  <2>4. interview'.asking \in BOOLEAN /\ interview'.read \in [Entries -> AnEntry]
    BY <2>2, <2>3
  <2> QED  BY <1>5, <2>1, <2>4, Unwritten DEF ProposeRead, MeaningTypeOK
<1>6. CASE \E says \in [Entries -> Contents \cup {NoContent}],
               status \in [Entries -> {"proposed", "open"}] : ProposeCommit(says, status)
  BY <1>6, Proposed
<1>7. CASE ProposeFails
  <2>1. entry' \in [Written -> AnEntry] /\ \A e \in Written : entry'[e] = entry[e]
    BY <1>7 DEF ProposeFails, MeaningTypeOK
  <2>2. interview'.asking = FALSE  BY <1>7 DEF ProposeFails
  <2> QED  BY <1>7, <2>1, <2>2, Unwritten DEF ProposeFails, MeaningTypeOK
<1>8. CASE \E says \in [Guides -> Contents \cup {NoContent}] : SaveGuide(says)
  BY <1>8, GuideSaved
<1>9. CASE \E says \in [Guides -> Contents \cup {NoContent}] : RevertGuide(says)
  BY <1>9, GuideReverted
<1>10. CASE SamplesChange
  <2>1. MeaningTypeOK'  BY <1>10 DEF SamplesChange, MeaningTypeOK
  <2>2. AllStand'  BY <1>10 DEF SamplesChange, MeaningIInv, AllStand, Stands, Live
  <2> QED  BY <2>1, <2>2 DEF MeaningIInv
<1>11. CASE \E e \in Written, k \in Targets, to \in {"active", "disabled", "deleted"} :
                MoveCompiled(e, k, to)
  BY <1>11, RowMoved
<1> QED
  BY <1>1, <1>2, <1>3, <1>4, <1>5, <1>6, <1>7, <1>8, <1>9, <1>10, <1>11 DEF MeaningNext

-----------------------------------------------------------------------------
\* The inductive invariant of meanings and guides holds in every reachable state.
THEOREM MeaningInvariance == MeaningSpec => []MeaningIInv
BY MeaningInitIInv, MeaningStepIInv, PTL DEF MeaningSpec

\* Every reachable state is well typed.
THEOREM MeaningTypeCorrect == MeaningSpec => []MeaningTypeOK
<1>1. MeaningIInv => MeaningTypeOK  BY DEF MeaningIInv
<1> QED  BY <1>1, MeaningInvariance, PTL

\* No row runs for an entry that was rejected, deleted or taken out of its guide, for any
\* entries and contents: retire_entry finds whatever compile_entry made.
THEOREM TheRejectedStandDown == MeaningSpec => []NothingRunsForTheRejected
<1>1. MeaningIInv => NothingRunsForTheRejected
  BY DEF MeaningIInv, AllStand, Stands, NothingRunsForTheRejected, IsRunning, Live
<1> QED  BY <1>1, MeaningInvariance, PTL

\* What runs for a confirmed entry is what the entry says and yields.
THEOREM TheConfirmedRunAsWritten == MeaningSpec => []ConfirmedSaysWhatRuns
<1>1. MeaningIInv => ConfirmedSaysWhatRuns
  BY DEF MeaningIInv, AllStand, Stands, ConfirmedSaysWhatRuns, IsRunning, Live
<1> QED  BY <1>1, MeaningInvariance, PTL
=============================================================================
