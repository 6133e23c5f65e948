------------------------------ MODULE Signatures ------------------------------
(***************************************************************************)
(* What a recurring finding has earned: every verdict recomputes the row   *)
(* of its signature from the verdicts on all findings that share it        *)
(* (training/demotion.py, training/signatures.py, and the two requests of  *)
(* api/routers/findings.py that decide).                                   *)
(*                                                                         *)
(* A signature is a customer and a subject, which stands for the           *)
(* programme, the rule, the kind of finding and what it fired on.  The     *)
(* digest folds the spelling of the customer; the query that gathers the   *)
(* verdicts compares it as spelled.  A request reads what others have      *)
(* committed, and its own verdict, and writes the row when it commits.     *)
(* What a frozen run refuses is in Review.                                 *)
(***************************************************************************)
EXTENDS Naturals, FiniteSets

CONSTANTS
    RunFindings,      \* findings
    FindingOf,        \* each one's run, subject ("" for no rule), severity, and if in shadow
    CustomerOf,       \* each run's customer, as spelled
    FoldedCustomer,   \* a spelling stripped and lowered
    MIN_OCCURRENCES,
    Deciders,         \* requests that record verdicts
    MaxVerdicts       \* bound: verdicts recorded

ASSUME SignaturesAssumption == MIN_OCCURRENCES \in Nat \ {0} /\ MaxVerdicts \in Nat

DISMISSING_VERDICTS == {"false_positive"}
UPHOLDING_VERDICTS == {"confirmed", "accepted_risk"}
NEVER_DEMOTED == {"high", "critical"}
Verdicts == DISMISSING_VERDICTS \cup UPHOLDING_VERDICTS

VARIABLES
    verdict,   \* findings.review_status, or "gone"
    state,     \* finding_signatures.state of each signature, or "none" for no row
    deciding,  \* what each open request decides and has concluded
    stale,     \* history: rows other than their verdicts since a known cause
    given      \* verdicts so far

signatureVars == <<verdict, state, deciding, stale, given>>

RunOf(f) == FindingOf[f].run
SpelledBy(f) == CustomerOf[RunOf(f)]
SignatureOf(f) == <<FoldedCustomer[SpelledBy(f)], FindingOf[f].subject>>
SignatureKeys == {SignatureOf(f) : f \in RunFindings}
Tracked(f) == FindingOf[f].subject # ""

NotDeciding ==
    [findings |-> {}, verdict |-> "undecided", concluded |-> [k \in {} |-> ""],
     missed |-> {}, adds |-> {}]

SignaturesInit ==
    /\ verdict = [f \in RunFindings |-> "undecided"]
    /\ state = [k \in SignatureKeys |-> "none"]
    /\ deciding = [q \in Deciders |-> NotDeciding]
    /\ stale = {} /\ given = 0

(***************************************************************************)
(* _verdicts and tally: the decided findings of a signature that a person  *)
(* was shown, in one spelling of the customer.                             *)
(***************************************************************************)
Counted(verdicts, k, spelling) ==
    {f \in RunFindings : /\ SignatureOf(f) = k /\ SpelledBy(f) = spelling
                         /\ ~FindingOf[f].shadow /\ verdicts[f] \in Verdicts}

\* decide.
Decide(verdicts, counted) ==
    IF \E f \in counted : verdicts[f] \in UPHOLDING_VERDICTS THEN "blocked"
    ELSE IF \E f \in counted : FindingOf[f].severity \in NEVER_DEMOTED THEN "blocked"
    ELSE IF Cardinality(counted) < MIN_OCCURRENCES THEN "watching"
    ELSE "would_demote"

(***************************************************************************)
(* recompute_for_finding, for some findings of one run; and                *)
(* recompute_for_run, for all that are decided.                            *)
(***************************************************************************)
RecomputeFor(verdicts, r, findings) ==
    [k \in {SignatureOf(f) : f \in {g \in findings : Tracked(g)}} |->
        Decide(verdicts, Counted(verdicts, k, CustomerOf[r]))]

\* Faulty variant: a bulk decision recomputes nothing.
RecomputeNothing(verdicts, r) == NotDeciding.concluded
RecomputeForRun(verdicts, r) ==
    RecomputeFor(verdicts, r,
                 {f \in RunFindings : RunOf(f) = r /\ verdicts[f] \in Verdicts})

-----------------------------------------------------------------------------
\* What an open request has written is locked until it commits.
Locked(f) == \E q \in Deciders : f \in deciding[q].findings

Begin(q, findings, v, concluded) ==
    /\ deciding[q] = NotDeciding /\ given < MaxVerdicts
    /\ deciding' = [deciding EXCEPT ![q] =
           [findings |-> findings, verdict |-> v, concluded |-> concluded, missed |-> {},
            adds |-> {k \in DOMAIN concluded : state[k] = "none"}]]
    /\ given' = given + 1
    /\ UNCHANGED <<verdict, state, stale>>

(* review_finding.                                                         *)
ReviewFinding(q, f, v) ==
    /\ verdict[f] # "gone" /\ ~Locked(f)
    /\ Begin(q, {f}, v, RecomputeFor([verdict EXCEPT ![f] = v], RunOf(f), {f}))

(* bulk_ok_low_severity: those in shadow as well.                          *)
BulkOkLowSeverity(q, r) ==
    LET low == {f \in RunFindings : /\ RunOf(f) = r /\ verdict[f] = "undecided"
                                    /\ FindingOf[f].severity = "low"}
        ok == [f \in RunFindings |-> IF f \in low THEN "false_positive" ELSE verdict[f]]
    IN  /\ low # {} /\ ~(\E f \in low : Locked(f))
        /\ Begin(q, low, "false_positive", RecomputeForRun(ok, r))

\* The open requests whose conclusions on some signatures have been overtaken.
Overtaken(requests, keys) ==
    [q \in Deciders |->
        [requests[q] EXCEPT !.missed = @ \cup (keys \cap DOMAIN requests[q].concluded)]]

(* The commit.  A row that somebody else has added since is a conflict and *)
(* undoes all of it; one that somebody else changed is written over.       *)
Commits(q) ==
    LET d == deciding[q]
        written == DOMAIN d.concluded
        closed == [deciding EXCEPT ![q] = NotDeciding]
    IN  /\ d # NotDeciding
        /\ IF \E k \in d.adds : state[k] # "none"
           THEN deciding' = closed /\ UNCHANGED <<verdict, state, stale>>
           ELSE /\ verdict' = [f \in RunFindings |->
                                  IF f \in d.findings THEN d.verdict ELSE verdict[f]]
                /\ state' = [k \in SignatureKeys |->
                                IF k \in written THEN d.concluded[k] ELSE state[k]]
                /\ stale' = (stale \ written) \cup d.missed
                /\ deciding' = Overtaken(closed, written)
        /\ UNCHANGED given

(* A run is deleted, or a re-check replaces its findings: those raised     *)
(* again keep their verdicts, and nothing is recomputed for the others.    *)
FindingsOf(r) == {f \in RunFindings : RunOf(f) = r}
ReplaceFindings(r, raised) ==
    LET own == FindingsOf(r)
        lost == {SignatureOf(f) : f \in {g \in own \ raised : verdict[g] \in Verdicts}}
    IN  /\ \E f \in own : verdict[f] # "gone"
        /\ ~(\E f \in own : Locked(f))
        /\ verdict' = [f \in RunFindings |->
                          CASE f \in own \ raised -> "gone"
                            [] f \in raised /\ verdict[f] = "gone" -> "undecided"
                            [] OTHER -> verdict[f]]
        /\ stale' = stale \cup lost
        /\ deciding' = Overtaken(deciding, lost)
        /\ UNCHANGED <<state, given>>

SignaturesNext ==
    \/ \E q \in Deciders :
         \/ \E f \in RunFindings, v \in {"confirmed", "false_positive"} : ReviewFinding(q, f, v)
         \/ \E r \in DOMAIN CustomerOf : BulkOkLowSeverity(q, r)
         \/ Commits(q)
    \/ \E r \in DOMAIN CustomerOf : \E raised \in SUBSET FindingsOf(r) : ReplaceFindings(r, raised)

SignaturesSpec == SignaturesInit /\ [][SignaturesNext]_signatureVars

-----------------------------------------------------------------------------
\* "The row is a cache of an answer derivable from findings and runs" (models.py:1547): it
\* says what the verdicts that stand add up to, one upheld finding among them outranking any
\* number of dismissals - as long as the customer is spelled in one way, no finding was
\* taken away since, and no two decisions about it overlapped.
Decided(k) == {f \in RunFindings : SignatureOf(f) = k /\ verdict[f] \in Verdicts}
Standing(k) == {f \in Decided(k) : ~FindingOf[f].shadow}
RowIsItsVerdicts ==
    \A k \in SignatureKeys \ stale :
        k[2] # "" /\ Cardinality({SpelledBy(f) : f \in Decided(k)}) = 1
            => state[k] = Decide(verdict, Standing(k))

\* "A corrected verdict, a deleted run or a restored signature all land correctly"
\* (signatures.py:8): not so of what a deleted run leaves behind, nor of two spellings.
RowIsAlwaysItsVerdicts ==
    (\A q \in Deciders : deciding[q] = NotDeciding) =>
        \A k \in SignatureKeys : state[k] # "none" => state[k] = Decide(verdict, Standing(k))
=============================================================================
