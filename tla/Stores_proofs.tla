---------------------------- MODULE Stores_proofs ----------------------------
(***************************************************************************)
(* Proofs about what is stored beside the runs and read by them: the       *)
(* product codes, the settings and what each process keeps of them, the    *)
(* library's versions, the disagreements a submission is held for, and how *)
(* runs are submitted.                                                     *)
(***************************************************************************)
EXTENDS ProductCodes, Settings, Library, Intake, Submission, TLAPS

-----------------------------------------------------------------------------
(***************************************************************************)
(* Proofs about ProductCodes, for any codes, scopes, terms, keepers and    *)
(* runs. A save was checked against the rows there were; what has been     *)
(* written since was written while it was pending.                         *)
(***************************************************************************)
Entry == [active : BOOLEAN, delivers : CodeTerms]
Checked == [step : {"checked"}, row : Rows, found : BOOLEAN, entry : Entry]

CodesTypeOK ==
    /\ code \in [Rows -> Entry \cup {NoCode}]
    /\ saving \in [Keepers -> {NotSaving} \cup Checked]
    /\ DOMAIN captured = CodedRuns /\ DOMAIN compared = CodedRuns

\* What a pending save would deliver agrees with every row that is on, or raced it.
CheckedAgainst(q, l) ==
    Disagree(saving[q].entry.delivers, code[l].delivers) => {saving[q].row, l} \in raced
SavesWereChecked ==
    \A q \in Keepers : saving[q].step = "checked" =>
        \A l \in ActiveRows : l # saving[q].row => CheckedAgainst(q, l)

\* A run that kept codes was compared with those.
ComparedIsCaptured ==
    \A r \in CodedRuns : compared[r] # NoCode =>
        /\ captured[r] # NoCode
        /\ DOMAIN captured[r] # {} => compared[r] = captured[r]

CodesIInv == CodesTypeOK /\ SavesWereChecked /\ OneTermOneName /\ ComparedIsCaptured

LEMMA DisagreeSymmetric ==
    ASSUME NEW a, NEW b
    PROVE  Disagree(a, b) <=> Disagree(b, a)
BY DEF Disagree

LEMMA CodesInitHolds == CodesInit => CodesIInv
BY DEF CodesInit, CodesIInv, CodesTypeOK, SavesWereChecked, OneTermOneName, ComparedIsCaptured,
       ActiveRows, NotSaving

\* A step that leaves the rows and the pending saves alone.
LEMMA CodesUntouched ==
    ASSUME CodesIInv, UNCHANGED <<code, saving, raced>>
    PROVE  SavesWereChecked' /\ OneTermOneName'
BY DEF CodesIInv, SavesWereChecked, CheckedAgainst, OneTermOneName, ActiveRows

LEMMA SaveChecks ==
    ASSUME CodesIInv, NEW q \in Keepers, NEW k \in Rows, NEW active \in BOOLEAN,
           NEW delivers \in CodeTerms, SaveProductCode(q, k, active, delivers)
    PROVE  CodesIInv'
<1> USE DEF CodesIInv
<1> DEFINE s == [step |-> "checked", row |-> k, found |-> code[k] # NoCode,
                 entry |-> [active |-> active, delivers |-> delivers]]
<1>1. /\ saving' = [saving EXCEPT ![q] = s]
      /\ \A l \in ActiveRows \ {k} : ~Disagree(delivers, code[l].delivers)
      /\ UNCHANGED <<code, raced, captured, compared>>
  BY DEF SaveProductCode, SaveChecked
<1>2. s \in Checked /\ s.step = "checked" /\ s.row = k /\ s.entry.delivers = delivers
  BY DEF Checked, Entry
<1> HIDE DEF s
<1>3. CodesTypeOK'  BY <1>1, <1>2 DEF CodesTypeOK
<1>4. /\ saving'[q] = s
      /\ \A p \in Keepers : p # q => saving'[p] = saving[p]
  BY <1>1 DEF CodesTypeOK
<1>5. ActiveRows' = ActiveRows  BY <1>1 DEF ActiveRows
<1>6. SavesWereChecked'
  <2> SUFFICES ASSUME NEW p \in Keepers, saving'[p].step = "checked",
                      NEW l \in ActiveRows, l # saving'[p].row,
                      Disagree(saving'[p].entry.delivers, code[l].delivers)
               PROVE  {saving'[p].row, l} \in raced
    BY <1>1, <1>5 DEF SavesWereChecked, CheckedAgainst
  <2>1. CASE p = q  BY <2>1, <1>1, <1>2, <1>4
  <2>2. CASE p # q  BY <2>2, <1>4 DEF SavesWereChecked, CheckedAgainst
  <2> QED  BY <2>1, <2>2
<1>7. OneTermOneName'  BY <1>1, <1>5 DEF OneTermOneName
<1>8. ComparedIsCaptured'  BY <1>1 DEF ComparedIsCaptured
<1> QED  BY <1>3, <1>6, <1>7, <1>8

LEMMA SaveCommits ==
    ASSUME CodesIInv, NEW q \in Keepers, SaveCommitted(q)
    PROVE  CodesIInv'
<1> USE DEF CodesIInv
<1>1. PICK k \in Rows, e \in Entry :
         /\ saving[q].step = "checked" /\ saving[q].row = k /\ saving[q].entry = e
         /\ saving' = [saving EXCEPT ![q] = NotSaving]
         /\ \/ UNCHANGED <<code, raced>>
            \/ /\ code' = [code EXCEPT ![k] = e]
               /\ raced' = raced \cup {{k, l} : l \in Pending(q)}
         /\ UNCHANGED <<captured, compared>>
  BY DEF SaveCommitted, CodesTypeOK, Checked, NotSaving
<1>2. CodesTypeOK'  BY <1>1 DEF CodesTypeOK
<1>3. /\ saving'[q] = NotSaving /\ NotSaving.step = "none"
      /\ \A p \in Keepers : p # q => saving'[p] = saving[p]
  BY <1>1 DEF CodesTypeOK, NotSaving
<1>4. ComparedIsCaptured'  BY <1>1 DEF ComparedIsCaptured
<1>5. CASE UNCHANGED <<code, raced>>
  <2>1. ActiveRows' = ActiveRows  BY <1>5 DEF ActiveRows
  <2>2. SavesWereChecked'
    BY <1>3, <1>5, <2>1 DEF SavesWereChecked, CheckedAgainst
  <2>3. OneTermOneName'  BY <1>5, <2>1 DEF OneTermOneName
  <2> QED  BY <1>2, <1>4, <2>2, <2>3
<1>6. CASE /\ code' = [code EXCEPT ![k] = e]
           /\ raced' = raced \cup {{k, l} : l \in Pending(q)}
  <2>1. /\ code'[k] = e
        /\ \A l \in Rows : l # k => code'[l] = code[l]
        /\ raced \subseteq raced'
    BY <1>6 DEF CodesTypeOK
  <2>2. \A l \in ActiveRows' : l # k => l \in ActiveRows
    BY <2>1 DEF ActiveRows
  <2>3. \A l \in ActiveRows : l # k /\ Disagree(e.delivers, code[l].delivers) => {k, l} \in raced
    BY <1>1 DEF SavesWereChecked, CheckedAgainst
  <2>4. SavesWereChecked'
    <3> SUFFICES ASSUME NEW p \in Keepers, saving'[p].step = "checked",
                        NEW l \in ActiveRows', l # saving'[p].row,
                        Disagree(saving'[p].entry.delivers, code'[l].delivers)
                 PROVE  {saving'[p].row, l} \in raced'
      BY DEF SavesWereChecked, CheckedAgainst
    <3>1. p # q /\ saving'[p] = saving[p]  BY <1>3
    <3>2. CASE l = k
      <4>1. saving[p].row \in Pending(q)  BY <3>1 DEF Pending
      <4>2. {k, saving[p].row} \in raced'  BY <4>1, <1>6
      <4>3. {k, saving[p].row} = {saving'[p].row, l}  BY <3>1, <3>2
      <4> QED  BY <4>2, <4>3
    <3>3. CASE l # k
      <4>1. l \in ActiveRows /\ code'[l] = code[l]  BY <3>3, <2>1, <2>2 DEF ActiveRows
      <4> QED  BY <4>1, <3>1, <2>1 DEF SavesWereChecked, CheckedAgainst
    <3> QED  BY <3>2, <3>3
  <2>5. OneTermOneName'
    <3> SUFFICES ASSUME NEW a \in ActiveRows', NEW b \in ActiveRows',
                        Disagree(code'[a].delivers, code'[b].delivers)
                 PROVE  {a, b} \in raced'
      BY DEF OneTermOneName
    <3>0. a # b
      BY DEF Disagree
    <3>1. CASE a = k
      <4>1. b # k /\ b \in ActiveRows /\ code'[b] = code[b]
        BY <3>0, <3>1, <2>1, <2>2 DEF ActiveRows
      <4> QED  BY <3>1, <4>1, <2>1, <2>3
    <3>2. CASE b = k
      <4>1. a # k /\ a \in ActiveRows /\ code'[a] = code[a]
        BY <3>0, <3>2, <2>1, <2>2 DEF ActiveRows
      <4>2. {k, a} \in raced  BY <3>2, <4>1, <2>1, <2>3, DisagreeSymmetric
      <4>3. {k, a} = {a, b}  BY <3>2
      <4> QED  BY <4>2, <4>3, <2>1
    <3>3. CASE a # k /\ b # k
      <4>1. /\ a \in ActiveRows /\ b \in ActiveRows
            /\ code'[a] = code[a] /\ code'[b] = code[b]
        BY <3>3, <2>1, <2>2 DEF ActiveRows
      <4> QED  BY <4>1, <2>1 DEF OneTermOneName
    <3> QED  BY <3>1, <3>2, <3>3
  <2> QED  BY <1>2, <1>4, <2>4, <2>5
<1> QED  BY <1>1, <1>5, <1>6

LEMMA DeleteKeeps ==
    ASSUME CodesIInv, NEW k \in Rows, DeleteProductCode(k)
    PROVE  CodesIInv'
<1> USE DEF CodesIInv
<1>1. /\ code' = [code EXCEPT ![k] = NoCode]
      /\ UNCHANGED <<captured, compared>>
  BY DEF DeleteProductCode
<1>2. \A p \in Keepers : saving'[p] = saving[p] \/ saving'[p] = NotSaving
  BY DEF DeleteProductCode
<1>3. \A pair \in raced : (k \in pair => \E p \in Keepers : saving'[p].step = "checked" /\ saving'[p].row = k)
                             => pair \in raced'
  BY DEF DeleteProductCode
<1>4. CodesTypeOK'
  BY <1>1, <1>2 DEF CodesTypeOK, DeleteProductCode
<1>5. \A l \in ActiveRows' : l # k /\ l \in ActiveRows /\ code'[l] = code[l]
  BY <1>1 DEF ActiveRows, CodesTypeOK
<1>6. NotSaving.step = "none"  BY DEF NotSaving
<1>7. SavesWereChecked'
  <2> SUFFICES ASSUME NEW p \in Keepers, saving'[p].step = "checked",
                      NEW l \in ActiveRows', l # saving'[p].row,
                      Disagree(saving'[p].entry.delivers, code'[l].delivers)
               PROVE  {saving'[p].row, l} \in raced'
    BY DEF SavesWereChecked, CheckedAgainst
  <2>1. saving'[p] = saving[p]  BY <1>2, <1>6
  <2>2. {saving[p].row, l} \in raced
    BY <2>1, <1>5 DEF SavesWereChecked, CheckedAgainst
  <2>3. k \in {saving[p].row, l} => saving'[p].row = k  BY <2>1, <1>5
  <2> QED  BY <2>1, <2>2, <2>3, <1>3
<1>8. OneTermOneName'
  <2> SUFFICES ASSUME NEW a \in ActiveRows', NEW b \in ActiveRows',
                      Disagree(code'[a].delivers, code'[b].delivers)
               PROVE  {a, b} \in raced'
    BY DEF OneTermOneName
  <2>1. {a, b} \in raced /\ k \notin {a, b}  BY <1>5 DEF OneTermOneName
  <2> QED  BY <2>1, <1>3
<1>9. ComparedIsCaptured'  BY <1>1 DEF ComparedIsCaptured
<1> QED  BY <1>4, <1>7, <1>8, <1>9

LEMMA CodesNextHolds ==
    ASSUME CodesIInv, [CodesNext]_codesVars
    PROVE  CodesIInv'
<1>1. CASE \E q \in Keepers : \E k \in Rows, active \in BOOLEAN, delivers \in CodeTerms :
              SaveProductCode(q, k, active, delivers)
  BY <1>1, SaveChecks
<1>2. CASE \E q \in Keepers : SaveCommitted(q)
  BY <1>2, SaveCommits
<1>3. CASE \E k \in Rows : DeleteProductCode(k)
  BY <1>3, DeleteKeeps
<1>4. CASE \E r \in CodedRuns : SubmitCoded(r)
  <2> PICK r \in CodedRuns : SubmitCoded(r)  BY <1>4
  <2>1. /\ captured[r] = NoCode /\ captured' = [captured EXCEPT ![r] = Catalogued]
        /\ UNCHANGED <<code, saving, raced, compared>>
    BY DEF SubmitCoded
  <2>2. CodesTypeOK'  BY <2>1 DEF CodesIInv, CodesTypeOK
  <2>3. ComparedIsCaptured'  BY <2>1 DEF CodesIInv, CodesTypeOK, ComparedIsCaptured
  <2> QED  BY <2>1, <2>2, <2>3, CodesUntouched DEF CodesIInv
<1>5. CASE \E r \in CodedRuns : Execute(r)
  <2> PICK r \in CodedRuns : Execute(r)  BY <1>5
  <2>1. /\ captured[r] # NoCode /\ UNCHANGED <<code, saving, raced, captured>>
        /\ compared' = [compared EXCEPT ![r] =
              IF DOMAIN captured[r] # {} THEN captured[r] ELSE Catalogued]
    BY DEF Execute, ComparedWith
  <2>2. CodesTypeOK'  BY <2>1 DEF CodesIInv, CodesTypeOK
  <2>3. ComparedIsCaptured'  BY <2>1 DEF CodesIInv, CodesTypeOK, ComparedIsCaptured
  <2> QED  BY <2>1, <2>2, <2>3, CodesUntouched DEF CodesIInv
<1>6. CASE UNCHANGED codesVars
  <2> USE <1>6 DEF codesVars
  <2>1. CodesTypeOK'  BY DEF CodesIInv, CodesTypeOK
  <2>2. ComparedIsCaptured'  BY DEF CodesIInv, ComparedIsCaptured
  <2> QED  BY <2>1, <2>2, CodesUntouched DEF CodesIInv
<1> QED  BY <1>1, <1>2, <1>3, <1>4, <1>5, <1>6 DEF CodesNext

\* The catalogue and the pending saves keep their types.
THEOREM CodesTypeCorrect == CodesSpec => []CodesTypeOK
<1>1. CodesInit => CodesIInv
  BY CodesInitHolds
<1>2. CodesIInv /\ [CodesNext]_codesVars => CodesIInv'
  BY CodesNextHolds
<1>3. CodesIInv => CodesTypeOK
  BY DEF CodesIInv
<1> QED BY <1>1, <1>2, <1>3, PTL DEF CodesSpec

\* However many keepers save, switch on and delete codes at once, an attribute two codes
\* deliver has one output name, unless the two rows were saved at the same moment.
THEOREM SharedTermsAgree == CodesSpec => []OneTermOneName
<1>1. CodesInit => CodesIInv
  BY CodesInitHolds
<1>2. CodesIInv /\ [CodesNext]_codesVars => CodesIInv'
  BY CodesNextHolds
<1>3. CodesIInv => OneTermOneName
  BY DEF CodesIInv
<1> QED BY <1>1, <1>2, <1>3, PTL DEF CodesSpec

\* Executed again, a run that kept known codes is compared with the same ones, whatever was
\* saved or deleted meanwhile.
THEOREM ReportsReproduce == CodesSpec => ReportReproduces
<1>1. CodesInit => CodesIInv
  BY CodesInitHolds
<1>2. CodesIInv /\ [CodesNext]_codesVars => CodesIInv'
  BY CodesNextHolds
<1>3. CodesIInv /\ [CodesNext]_codesVars =>
         [\A r \in CodedRuns :
             compared[r] # NoCode /\ DOMAIN compared[r] # {} /\ compared'[r] # compared[r]
                 => DOMAIN captured[r] = {}]_codesVars
  <2> SUFFICES ASSUME CodesIInv, CodesNext, NEW r \in CodedRuns, compared[r] # NoCode,
                      compared'[r] # compared[r], DOMAIN captured[r] # {}
               PROVE  FALSE
    OBVIOUS
  <2>1. compared[r] = captured[r]  BY DEF CodesIInv, ComparedIsCaptured
  <2>2. PICK s \in CodedRuns : Execute(s)
    BY DEF CodesNext, SaveProductCode, SaveChecked, SaveCommitted, DeleteProductCode, SubmitCoded
  <2>3. compared' = [compared EXCEPT ![s] =
            IF DOMAIN captured[s] # {} THEN captured[s] ELSE Catalogued]
    BY <2>2 DEF Execute, ComparedWith
  <2> QED  BY <2>1, <2>3 DEF CodesIInv, CodesTypeOK
<1> QED BY <1>1, <1>2, <1>3, PTL DEF CodesSpec, ReportReproduces

-----------------------------------------------------------------------------
(***************************************************************************)
(* Proofs about Settings, for any keys, values, processes and threads. A   *)
(* row that is kept, or about to be, was in force no longer ago than the   *)
(* reading of it was begun.                                                *)
(***************************************************************************)
ThreadState ==
    {Free} \cup [step : {"loads"}]
           \cup [step : {"asked", "told", "written", "answered"}, key : SettingKeys, value : RowValues]
           \cup [step : {"found"}, key : SettingKeys, value : RowValues, there : BOOLEAN]
ReadingState ==
    {NotReading} \cup [step : {"select"}, since : 0 .. CacheTTL]
                 \cup [step : {"keep"}, since : 0 .. CacheTTL, rows : [SettingKeys -> RowValues]]

SettingsTypeOK ==
    /\ override \in [SettingKeys -> RowValues]
    /\ kept \in [Processes -> [rows : [SettingKeys -> RowValues], age : 0 .. CacheTTL]]
    /\ thread \in [Threads -> ThreadState]
    /\ reading \in [Threads -> ReadingState]
    /\ gone \in [SettingKeys -> [RowValues -> 0 .. CacheTTL]]
    /\ changes \in Nat

\* What is committed, or written and not yet committed, is in force now.
InForceIsNow ==
    /\ \A k \in SettingKeys : gone[k][override[k]] = 0
    /\ \A t \in Threads : thread[t].step \in {"written", "answered"} =>
           gone[thread[t].key][thread[t].value] = 0

\* What was read was in force when the table was asked for, or later.
ReadIsRecent ==
    \A t \in Threads : reading[t].step = "keep" =>
        \A k \in SettingKeys : gone[k][reading[t].rows[k]] <= reading[t].since

\* So was what is kept, while it is used.
RowsAreRecent ==
    \A p \in Processes : kept[p].age < CacheTTL =>
        \A k \in SettingKeys : gone[k][kept[p].rows[k]] <= kept[p].age

\* Who reads the table was asked a setting.
Resolving == {"loads", "asked", "written"}
ReadersAsk ==
    \A t \in Threads : reading[t].step # "none" => thread[t].step \in Resolving

SettingsIInv ==
    SettingsTypeOK /\ InForceIsNow /\ ReadIsRecent /\ RowsAreRecent /\ ReadersAsk

LEMMA SeenIsNow ==
    ASSUME SettingsIInv, NEW t \in Threads
    PROVE  /\ Seen(t) \in [SettingKeys -> RowValues]
           /\ \A k \in SettingKeys : gone[k][Seen(t)[k]] = 0
<1>1. ASSUME NEW k \in SettingKeys
      PROVE  /\ Seen(t)[k] \in RowValues
             /\ gone[k][Seen(t)[k]] = 0
  <2>1. CASE t \in Writing(k)
    <3>1. thread[t].step \in {"written", "answered"} /\ thread[t].key = k  BY <2>1 DEF Writing
    <3>2. thread[t].value \in RowValues
      BY <3>1 DEF SettingsIInv, SettingsTypeOK, ThreadState, Free
    <3>3. Seen(t)[k] = thread[t].value  BY <2>1 DEF Seen
    <3> QED  BY <3>1, <3>2, <3>3 DEF SettingsIInv, InForceIsNow
  <2>2. CASE t \notin Writing(k)
    BY <2>2 DEF Seen, SettingsIInv, SettingsTypeOK, InForceIsNow
  <2> QED  BY <2>1, <2>2
<1> QED  BY <1>1 DEF Seen

LEMMA SettingsInitHolds == SettingsInit => SettingsIInv
<1> SUFFICES ASSUME SettingsInit PROVE SettingsIInv
  OBVIOUS
<1> USE SettingsAssumption DEF SettingsInit
<1>1. SettingsTypeOK  BY DEF SettingsTypeOK, ThreadState, ReadingState, Free, NotReading, RowValues
<1>2. InForceIsNow  BY <1>1 DEF SettingsTypeOK, InForceIsNow, Free
<1>3. ReadIsRecent  BY DEF ReadIsRecent, NotReading
<1>4. RowsAreRecent  BY DEF RowsAreRecent
<1>5. ReadersAsk  BY DEF ReadersAsk, NotReading
<1> QED  BY <1>1, <1>2, <1>3, <1>4, <1>5 DEF SettingsIInv

\* A thread's own step changes what it does, and nothing it or others wrote, read or kept.
LEMMA ThreadMoves ==
    ASSUME SettingsIInv, NEW t \in Threads, NEW s \in ThreadState,
           thread' = [thread EXCEPT ![t] = s],
           s.step \in {"written", "answered"} =>
              /\ thread[t].step \in {"written", "answered"}
              /\ s.key = thread[t].key /\ s.value = thread[t].value,
           UNCHANGED <<override, kept, gone>>, changes' \in Nat,
           reading' \in [Threads -> ReadingState],
           \A u \in Threads : reading'[u].step = "keep" => reading'[u] = reading[u],
           \A u \in Threads : reading'[u].step # "none" =>
              IF u = t THEN s.step \in Resolving ELSE reading[u].step # "none"
    PROVE  SettingsIInv'
<1> USE DEF SettingsIInv
<1>1. SettingsTypeOK'  BY DEF SettingsTypeOK
<1>2. InForceIsNow'  BY DEF InForceIsNow, SettingsTypeOK
<1>3. ReadIsRecent'  BY DEF ReadIsRecent
<1>4. RowsAreRecent'  BY DEF RowsAreRecent
<1>5. ReadersAsk'  BY DEF ReadersAsk, SettingsTypeOK
<1> QED  BY <1>1, <1>2, <1>3, <1>4, <1>5

LEMMA AnsweredType ==
    ASSUME SettingsIInv, NEW t \in Threads, thread[t].step \in {"loads", "asked", "written"}
    PROVE  /\ Answered(t) \in ThreadState
           /\ Answered(t).step \in {"written", "answered"} =>
                 /\ thread[t].step \in {"written", "answered"}
                 /\ Answered(t).key = thread[t].key /\ Answered(t).value = thread[t].value
<1>1. thread[t] \in ThreadState  BY DEF SettingsIInv, SettingsTypeOK
<1>2. CASE thread[t].step = "loads"
  BY <1>2 DEF Answered, ThreadState, Free
<1>3. CASE thread[t].step = "asked"
  BY <1>1, <1>3 DEF Answered, ThreadState, Free
<1>4. CASE thread[t].step = "written"
  BY <1>1, <1>4 DEF Answered, ThreadState, Free
<1> QED  BY <1>2, <1>3, <1>4

\* A thread resolves, or is asked to: one step of it at a time.
LEMMA ResolvingSteps ==
    ASSUME SettingsIInv, NEW t \in Threads, Load(t) \/ Hit(t) \/ Miss(t) \/ LastKnown(t)
    PROVE  SettingsIInv'
<1>0. SettingsTypeOK /\ ReadersAsk  BY DEF SettingsIInv
<1>1. CASE Load(t)
  <2>1. [step |-> "loads"] \in ThreadState  BY DEF ThreadState
  <2>2. reading[t].step = "none"
    BY <1>0, <1>1 DEF Load, ReadersAsk, Free, Resolving, SettingsTypeOK, ReadingState, NotReading
  <2> QED  BY <1>0, <1>1, <2>1, <2>2, ThreadMoves DEF Load, SettingsTypeOK
<1>2. CASE Hit(t)
  <2>1. thread[t].step \in {"loads", "asked", "written"} /\ reading[t].step = "none"
    BY <1>2 DEF Hit, Asking, NotReading
  <2> QED  BY <1>0, <1>2, <2>1, AnsweredType, ThreadMoves DEF Hit, SettingsTypeOK
<1>3. CASE Miss(t)
  <2>1. [step |-> "select", since |-> 0] \in ReadingState
    BY SettingsAssumption DEF ReadingState
  <2>2. thread[t] \in ThreadState /\ thread' = [thread EXCEPT ![t] = thread[t]]
    BY <1>0, <1>3 DEF Miss, SettingsTypeOK
  <2>3. reading' \in [Threads -> ReadingState]
    BY <1>0, <1>3, <2>1 DEF Miss, SettingsTypeOK
  <2>4. \A u \in Threads : reading'[u] = IF u = t THEN [step |-> "select", since |-> 0] ELSE reading[u]
    BY <1>0, <1>3 DEF Miss, SettingsTypeOK
  <2>5. thread[t].step \in Resolving  BY <1>3 DEF Miss, Asking, Resolving
  <2> QED  BY <1>0, <1>3, <2>2, <2>3, <2>4, <2>5, ThreadMoves DEF Miss, SettingsTypeOK
<1>4. CASE LastKnown(t)
  <2>1. thread[t].step \in {"loads", "asked", "written"}
    BY <1>0, <1>4 DEF LastKnown, ReadersAsk, Resolving
  <2>2. reading' \in [Threads -> ReadingState]
    BY <1>0, <1>4 DEF LastKnown, SettingsTypeOK, ReadingState
  <2>3. \A u \in Threads : reading'[u] = IF u = t THEN NotReading ELSE reading[u]
    BY <1>0, <1>4 DEF LastKnown, SettingsTypeOK
  <2> QED
    BY <1>0, <1>4, <2>1, <2>2, <2>3, AnsweredType, ThreadMoves
    DEF LastKnown, SettingsTypeOK, NotReading
<1> QED  BY <1>1, <1>2, <1>3, <1>4

\* The table is read: what a transaction sees is in force.
LEMMA SelectKeeps ==
    ASSUME SettingsIInv, NEW t \in Threads, Select(t)
    PROVE  SettingsIInv'
<1> USE DEF SettingsIInv
<1>1. PICK n \in 0 .. CacheTTL : reading[t] = [step |-> "select", since |-> n]
  BY DEF Select, SettingsTypeOK, ReadingState, NotReading
<1>2. /\ reading' = [reading EXCEPT ![t] = [step |-> "keep", since |-> n, rows |-> Seen(t)]]
      /\ UNCHANGED <<override, kept, thread, gone, changes>>
  BY <1>1 DEF Select
<1>3. SettingsTypeOK'
  <2>1. [step |-> "keep", since |-> n, rows |-> Seen(t)] \in ReadingState
    BY SeenIsNow DEF ReadingState
  <2> QED  BY <1>2, <2>1 DEF SettingsTypeOK
<1>4. InForceIsNow' /\ RowsAreRecent'  BY <1>2 DEF InForceIsNow, RowsAreRecent
<1>5. \A u \in Threads : reading'[u] =
         IF u = t THEN [step |-> "keep", since |-> n, rows |-> Seen(t)] ELSE reading[u]
  BY <1>2 DEF SettingsTypeOK
<1>6. ReadIsRecent'  BY <1>2, <1>5, SeenIsNow DEF ReadIsRecent
<1>7. ReadersAsk'  BY <1>1, <1>2, <1>5 DEF ReadersAsk
<1> QED  BY <1>3, <1>4, <1>6, <1>7

\* What was read is kept, dated when it was asked for.
LEMMA KeepKeeps ==
    ASSUME SettingsIInv, NEW t \in Threads, Keep(t)
    PROVE  SettingsIInv'
<1> USE DEF SettingsIInv
<1>1. PICK n \in 0 .. CacheTTL, rows \in [SettingKeys -> RowValues] :
         reading[t] = [step |-> "keep", since |-> n, rows |-> rows]
  BY DEF Keep, SettingsTypeOK, ReadingState, NotReading
<1>2. /\ kept' = [kept EXCEPT ![ProcessOf[t]] = [rows |-> rows, age |-> n]]
      /\ reading' = [reading EXCEPT ![t] = NotReading]
      /\ thread' = [thread EXCEPT ![t] = Answered(t)]
      /\ UNCHANGED <<override, gone, changes>>
  BY <1>1 DEF Keep, KeepAged
<1>3. /\ thread[t].step \in {"loads", "asked", "written"}
      /\ \A k \in SettingKeys : gone[k][rows[k]] <= n
  BY <1>1 DEF ReadersAsk, Resolving, ReadIsRecent
<1>4. SettingsTypeOK'
  <2>1. reading' \in [Threads -> ReadingState]  BY <1>2 DEF SettingsTypeOK, ReadingState
  <2>2. thread' \in [Threads -> ThreadState]  BY <1>2, <1>3, AnsweredType DEF SettingsTypeOK
  <2>3. kept' \in [Processes -> [rows : [SettingKeys -> RowValues], age : 0 .. CacheTTL]]
    BY <1>2 DEF SettingsTypeOK
  <2> QED  BY <1>2, <2>1, <2>2, <2>3 DEF SettingsTypeOK
<1>5. /\ \A u \in Threads : reading'[u] = IF u = t THEN NotReading ELSE reading[u]
      /\ \A u \in Threads : thread'[u] = IF u = t THEN Answered(t) ELSE thread[u]
      /\ \A p \in Processes : kept'[p] = IF p = ProcessOf[t] THEN [rows |-> rows, age |-> n] ELSE kept[p]
  BY <1>2, SettingsAssumption DEF SettingsTypeOK
<1>6. InForceIsNow'  BY <1>2, <1>3, <1>5, AnsweredType DEF InForceIsNow
<1>7. ReadIsRecent'  BY <1>2, <1>5 DEF ReadIsRecent, NotReading
<1>8. RowsAreRecent'  BY <1>2, <1>3, <1>5 DEF RowsAreRecent
<1>9. ReadersAsk'  BY <1>5 DEF ReadersAsk, NotReading
<1> QED  BY <1>4, <1>6, <1>7, <1>8, <1>9

\* A change is asked for, looked at, given up.
LEMMA ChangeKeeps ==
    ASSUME SettingsIInv, NEW t \in Threads,
           \/ \E k \in SettingKeys, value \in RowValues : Change(t, k, value)
           \/ Look(t) \/ SettingRolledBack(t)
    PROVE  SettingsIInv'
<1>0. SettingsTypeOK /\ ReadersAsk  BY DEF SettingsIInv
<1>1. thread[t] \in ThreadState  BY <1>0 DEF SettingsTypeOK
<1>2. /\ thread[t] = Free \/ thread[t].step \in {"told", "answered"}
      /\ UNCHANGED <<override, kept, reading, gone>>
  BY DEF Change, Look, SettingRolledBack
<1>3. reading[t].step = "none"  BY <1>0, <1>2 DEF ReadersAsk, Free, Resolving
<1>4. PICK s \in ThreadState :
         thread' = [thread EXCEPT ![t] = s] /\ s.step \notin {"written", "answered"}
  <2>1. CASE \E k \in SettingKeys, value \in RowValues : Change(t, k, value)
    <3>1. PICK k \in SettingKeys, value \in RowValues : Change(t, k, value)  BY <2>1
    <3> DEFINE asked == [step |-> "asked", key |-> k, value |-> value]
    <3>2. asked \in ThreadState /\ asked.step = "asked"  BY DEF ThreadState
    <3>3. thread' = [thread EXCEPT ![t] = asked]  BY <3>1 DEF Change
    <3> QED  BY <3>2, <3>3
  <2>2. CASE Look(t)
    <3>1. PICK k \in SettingKeys, value \in RowValues :
             thread[t] = [step |-> "told", key |-> k, value |-> value]
      BY <1>1, <2>2 DEF Look, ThreadState, Free
    <3> DEFINE found == [step |-> "found", key |-> k, value |-> value, there |-> override[k] # Unset]
    <3>2. /\ found \in ThreadState /\ [step |-> "loads"] \in ThreadState
          /\ found.step = "found"
      BY DEF ThreadState
    <3>3. /\ thread[t].key = k /\ thread[t].value = value
          /\ thread' = [thread EXCEPT ![t] =
                IF thread[t].value = Unset /\ ~(override[thread[t].key] # Unset) THEN [step |-> "loads"]
                ELSE [step |-> "found", key |-> thread[t].key, value |-> thread[t].value,
                      there |-> override[thread[t].key] # Unset]]
      BY <2>2, <3>1 DEF Look
    <3>4. thread' = [thread EXCEPT ![t] =
             IF value = Unset /\ ~(override[k] # Unset) THEN [step |-> "loads"] ELSE found]
      BY <3>3, Zenon
    <3> HIDE DEF found
    <3> QED  BY <3>2, <3>4
  <2>3. CASE SettingRolledBack(t)
    <3>1. Free \in ThreadState /\ Free.step = "free"  BY DEF ThreadState, Free
    <3>2. thread' = [thread EXCEPT ![t] = Free]  BY <2>3 DEF SettingRolledBack
    <3> QED  BY <3>1, <3>2
  <2> QED  BY <2>1, <2>2, <2>3
<1>5. changes' \in Nat
  BY <1>0, SettingsAssumption DEF Change, Look, SettingRolledBack, SettingsTypeOK
<1> QED  BY <1>0, <1>2, <1>3, <1>4, <1>5, ThreadMoves DEF SettingsTypeOK

\* What is written is in force from then on, and the process's rows are dropped.
LEMMA FlushKeeps ==
    ASSUME SettingsIInv, NEW t \in Threads, Flush(t)
    PROVE  SettingsIInv'
<1> USE DEF SettingsIInv
<1>1. PICK k \in SettingKeys, value \in RowValues :
         thread[t].step = "found" /\ thread[t].key = k /\ thread[t].value = value
  BY DEF Flush, SettingsTypeOK, ThreadState, Free
<1>2. reading[t].step = "none" /\ UNCHANGED <<override, reading, changes>>
  BY <1>1 DEF Flush, ReadersAsk, Resolving
<1>3. CASE thread' = [thread EXCEPT ![t] = Free] /\ UNCHANGED <<kept, gone>>
  <2>1. Free \in ThreadState /\ Free.step = "free"  BY DEF ThreadState, Free
  <2> QED  BY <1>2, <1>3, <2>1, ThreadMoves DEF SettingsTypeOK
<1>4. CASE /\ thread' = [thread EXCEPT ![t] = [step |-> "written", key |-> k, value |-> value]]
           /\ kept' = [kept EXCEPT ![ProcessOf[t]].age = CacheTTL]
           /\ gone' = [gone EXCEPT ![k][value] = 0]
  <2>1. /\ gone' \in [SettingKeys -> [RowValues -> 0 .. CacheTTL]]
        /\ \A l \in SettingKeys, x \in RowValues :
              gone'[l][x] = IF l = k /\ x = value THEN 0 ELSE gone[l][x]
    BY <1>4, SettingsAssumption DEF SettingsTypeOK
  <2>2. \A p \in Processes : /\ kept'[p].rows = kept[p].rows
                             /\ kept'[p].age = IF p = ProcessOf[t] THEN CacheTTL ELSE kept[p].age
    BY <1>4, SettingsAssumption DEF SettingsTypeOK
  <2>3. \A u \in Threads : thread'[u] =
           IF u = t THEN [step |-> "written", key |-> k, value |-> value] ELSE thread[u]
    BY <1>4 DEF SettingsTypeOK
  <2>4. SettingsTypeOK'
    <3>1. thread' \in [Threads -> ThreadState]  BY <1>4 DEF SettingsTypeOK, ThreadState
    <3>2. kept' \in [Processes -> [rows : [SettingKeys -> RowValues], age : 0 .. CacheTTL]]
      <4>1. CacheTTL \in 0 .. CacheTTL  BY SettingsAssumption
      <4>2. ProcessOf[t] \in Processes  BY SettingsAssumption
      <4>3. [kept[ProcessOf[t]] EXCEPT !.age = CacheTTL]
               \in [rows : [SettingKeys -> RowValues], age : 0 .. CacheTTL]
        BY <4>1, <4>2 DEF SettingsTypeOK
      <4> QED  BY <1>4, <4>2, <4>3 DEF SettingsTypeOK
    <3> QED  BY <1>2, <2>1, <3>1, <3>2 DEF SettingsTypeOK
  <2>5. \A l \in SettingKeys, x \in RowValues :
           gone[l][x] \in 0 .. CacheTTL /\ gone'[l][x] \in {0, gone[l][x]}
    BY <2>1 DEF SettingsTypeOK
  <2>6. InForceIsNow'
    <3>1. \A u \in Threads : thread[u].step \in {"written", "answered"} =>
             thread[u].key \in SettingKeys /\ thread[u].value \in RowValues
      BY DEF SettingsTypeOK, ThreadState, Free
    <3>2. \A l \in SettingKeys : override[l] \in RowValues  BY DEF SettingsTypeOK
    <3> QED  BY <1>2, <2>1, <2>3, <3>1, <3>2 DEF InForceIsNow
  <2>7. ReadIsRecent'
    <3> SUFFICES ASSUME NEW u \in Threads, reading[u].step = "keep", NEW l \in SettingKeys
                 PROVE  gone'[l][reading[u].rows[l]] <= reading[u].since
      BY <1>2 DEF ReadIsRecent
    <3>1. reading[u].rows[l] \in RowValues /\ reading[u].since \in 0 .. CacheTTL
      BY DEF SettingsTypeOK, ReadingState, NotReading
    <3>2. gone[l][reading[u].rows[l]] <= reading[u].since  BY DEF ReadIsRecent
    <3> QED  BY <2>5, <3>1, <3>2
  <2>8. RowsAreRecent'
    <3> SUFFICES ASSUME NEW p \in Processes, kept'[p].age < CacheTTL, NEW l \in SettingKeys
                 PROVE  gone'[l][kept'[p].rows[l]] <= kept'[p].age
      BY DEF RowsAreRecent
    <3>1. kept'[p].age = kept[p].age /\ kept'[p].rows = kept[p].rows
      BY <2>2, SettingsAssumption
    <3>2. kept[p].rows[l] \in RowValues /\ kept[p].age \in 0 .. CacheTTL  BY DEF SettingsTypeOK
    <3>3. gone[l][kept[p].rows[l]] <= kept[p].age  BY <3>1 DEF RowsAreRecent
    <3> QED  BY <2>5, <3>1, <3>2, <3>3
  <2>9. ReadersAsk'  BY <1>2, <2>3 DEF ReadersAsk
  <2> QED  BY <2>4, <2>6, <2>7, <2>8, <2>9
<1> QED  BY <1>1, <1>3, <1>4 DEF Flush

LEMMA CommitKeeps ==
    ASSUME SettingsIInv, NEW t \in Threads, SettingCommitted(t)
    PROVE  SettingsIInv'
<1> USE DEF SettingsIInv
<1>1. PICK k \in SettingKeys, value \in RowValues :
         thread[t].step = "answered" /\ thread[t].key = k /\ thread[t].value = value
  BY DEF SettingCommitted, SettingsTypeOK, ThreadState, Free
<1>2. /\ override' = [override EXCEPT ![k] = value]
      /\ thread' = [thread EXCEPT ![t] = Free]
      /\ UNCHANGED <<kept, reading, gone, changes>>
      /\ gone[k][value] = 0
  BY <1>1 DEF SettingCommitted, InForceIsNow
<1>3. \A u \in Threads : thread'[u] = IF u = t THEN Free ELSE thread[u]
  BY <1>2 DEF SettingsTypeOK
<1>4. SettingsTypeOK'  BY <1>2 DEF SettingsTypeOK, ThreadState
<1>5. InForceIsNow'  BY <1>2, <1>3 DEF InForceIsNow, SettingsTypeOK, Free
<1>6. ReadIsRecent' /\ RowsAreRecent'  BY <1>2 DEF ReadIsRecent, RowsAreRecent
<1>7. ReadersAsk'  BY <1>1, <1>2, <1>3 DEF ReadersAsk, Resolving
<1> QED  BY <1>4, <1>5, <1>6, <1>7

\* Everything ages alike, save what is in force.
LEMMA TimeKeeps ==
    ASSUME SettingsIInv, TimePasses
    PROVE  SettingsIInv'
<1> USE DEF SettingsIInv
<1>1. \A n \in 0 .. CacheTTL : Older(n) \in 0 .. CacheTTL /\ n <= Older(n)
  BY SettingsAssumption DEF Older
<1>2. \A m, n \in 0 .. CacheTTL : m <= n => Older(m) <= Older(n)
  BY SettingsAssumption DEF Older
<1>3. UNCHANGED <<override, thread, changes>>  BY DEF TimePasses
<1>4. \A p \in Processes : kept'[p].rows = kept[p].rows /\ kept'[p].age = Older(kept[p].age)
  BY DEF TimePasses, SettingsTypeOK
<1>5. \A u \in Threads : /\ reading[u].step = "none" => reading'[u] = NotReading
                         /\ reading[u].step # "none" =>
                               /\ reading'[u].step = reading[u].step
                               /\ reading'[u].since = Older(reading[u].since)
                               /\ reading[u].step = "keep" => reading'[u].rows = reading[u].rows
  BY DEF TimePasses, SettingsTypeOK, ReadingState, NotReading
<1>6. \A l \in SettingKeys, x \in RowValues :
         gone'[l][x] = IF x \in {override[l]} \cup {thread[u].value : u \in Writing(l)} THEN 0
                       ELSE Older(gone[l][x])
  BY DEF TimePasses
<1>7. \A l \in SettingKeys, x \in RowValues : gone[l][x] \in 0 .. CacheTTL
  BY DEF SettingsTypeOK
<1>8. SettingsTypeOK'
  <2>1. kept' \in [Processes -> [rows : [SettingKeys -> RowValues], age : 0 .. CacheTTL]]
    BY <1>1 DEF TimePasses, SettingsTypeOK
  <2>2. reading' \in [Threads -> ReadingState]
    <3>1. \A u \in Threads : reading[u] # NotReading => [reading[u] EXCEPT !.since = Older(@)] \in ReadingState
      <4> SUFFICES ASSUME NEW u \in Threads, reading[u] # NotReading
                   PROVE  [reading[u] EXCEPT !.since = Older(@)] \in ReadingState
        OBVIOUS
      <4>1. CASE reading[u] \in [step : {"select"}, since : 0 .. CacheTTL]
        BY <1>1, <4>1 DEF ReadingState
      <4>2. CASE reading[u] \in [step : {"keep"}, since : 0 .. CacheTTL, rows : [SettingKeys -> RowValues]]
        BY <1>1, <4>2 DEF ReadingState
      <4> QED  BY <4>1, <4>2 DEF SettingsTypeOK, ReadingState
    <3> QED  BY <3>1 DEF TimePasses, ReadingState
  <2>3. gone' \in [SettingKeys -> [RowValues -> 0 .. CacheTTL]]
    BY <1>1, <1>7, SettingsAssumption DEF TimePasses
  <2> QED  BY <1>3, <2>1, <2>2, <2>3 DEF SettingsTypeOK
<1>9. InForceIsNow'
  <2>1. \A u \in Threads : thread[u].step \in {"written", "answered"} =>
           /\ thread[u].key \in SettingKeys /\ thread[u].value \in RowValues
           /\ u \in Writing(thread[u].key)
    BY DEF SettingsTypeOK, ThreadState, Free, Writing
  <2>2. \A l \in SettingKeys : override[l] \in RowValues  BY DEF SettingsTypeOK
  <2> QED  BY <1>3, <1>6, <2>1, <2>2 DEF InForceIsNow
<1>10. ReadIsRecent'
  <2> SUFFICES ASSUME NEW u \in Threads, reading'[u].step = "keep", NEW l \in SettingKeys
               PROVE  gone'[l][reading'[u].rows[l]] <= reading'[u].since
    BY DEF ReadIsRecent
  <2>1. /\ reading[u].step = "keep" /\ reading'[u].rows = reading[u].rows
        /\ reading'[u].since = Older(reading[u].since)
    BY <1>5 DEF NotReading
  <2>2. reading[u].rows[l] \in RowValues /\ reading[u].since \in 0 .. CacheTTL
    BY <2>1 DEF SettingsTypeOK, ReadingState, NotReading
  <2>3. gone[l][reading[u].rows[l]] <= reading[u].since  BY <2>1 DEF ReadIsRecent
  <2> QED  BY <1>1, <1>2, <1>6, <1>7, <2>1, <2>2, <2>3
<1>11. RowsAreRecent'
  <2> SUFFICES ASSUME NEW p \in Processes, kept'[p].age < CacheTTL, NEW l \in SettingKeys
               PROVE  gone'[l][kept'[p].rows[l]] <= kept'[p].age
    BY DEF RowsAreRecent
  <2>1. kept[p].rows[l] \in RowValues /\ kept[p].age \in 0 .. CacheTTL  BY DEF SettingsTypeOK
  <2>2. kept[p].age < CacheTTL
    BY <1>4, <2>1, SettingsAssumption DEF Older
  <2>3. gone[l][kept[p].rows[l]] <= kept[p].age  BY <2>2 DEF RowsAreRecent
  <2> QED  BY <1>1, <1>2, <1>4, <1>6, <1>7, <2>1, <2>3
<1>12. ReadersAsk'  BY <1>3, <1>5 DEF ReadersAsk, NotReading
<1> QED  BY <1>8, <1>9, <1>10, <1>11, <1>12

LEMMA SettingsNextHolds ==
    ASSUME SettingsIInv, [SettingsNext]_settingsVars
    PROVE  SettingsIInv'
<1>1. CASE UNCHANGED settingsVars
  <2> USE <1>1 DEF SettingsIInv, settingsVars
  <2>1. SettingsTypeOK'  BY DEF SettingsTypeOK
  <2>2. InForceIsNow'  BY DEF InForceIsNow
  <2>3. ReadIsRecent' /\ RowsAreRecent' /\ ReadersAsk'
    BY DEF ReadIsRecent, RowsAreRecent, ReadersAsk
  <2> QED  BY <2>1, <2>2, <2>3
<1> QED
  BY <1>1, ResolvingSteps, SelectKeeps, KeepKeeps, ChangeKeeps, FlushKeeps, CommitKeeps, TimeKeeps
  DEF SettingsNext

\* The table, what the processes keep and what the threads do keep their types.
THEOREM SettingsTypeCorrect == SettingsSpec => []SettingsTypeOK
<1>1. SettingsInit => SettingsIInv
  BY SettingsInitHolds
<1>2. SettingsIInv /\ [SettingsNext]_settingsVars => SettingsIInv'
  BY SettingsNextHolds
<1>3. SettingsIInv => SettingsTypeOK
  BY DEF SettingsIInv
<1> QED BY <1>1, <1>2, <1>3, PTL DEF SettingsSpec

\* In any number of processes and threads, what the kept rows answer was in force, or being
\* written, no longer ago than their age: a change reaches everybody within one life of them.
THEOREM ChangesReachEverybody == SettingsSpec => []KeptIsRecent
<1>1. SettingsInit => SettingsIInv
  BY SettingsInitHolds
<1>2. SettingsIInv /\ [SettingsNext]_settingsVars => SettingsIInv'
  BY SettingsNextHolds
<1>3. SettingsIInv => KeptIsRecent
  BY DEF SettingsIInv, SettingsTypeOK, RowsAreRecent, KeptIsRecent
<1> QED BY <1>1, <1>2, <1>3, PTL DEF SettingsSpec

-----------------------------------------------------------------------------
(***************************************************************************)
(* Proofs about Library, for any wordings, samples, scopes and labels.     *)
(***************************************************************************)
SampleRow == [scope : SampleScopes, label : Wordings]
SampleSets == UNION {[S -> SampleRow] : S \in SUBSET Paths}
Said == Wordings \cup {Absent}
TypeRow == [wording : Said, guide : Said, layout : Said, sample : SampleSets]
TypeSnapshot == [wording : Said, guide : Said, sample : SampleSets]
ExampleRows == Seq([wording : Wordings, active : BOOLEAN] \cup {Absent})
LabelRows == Seq([text : LabelTexts, active : BOOLEAN] \cup {Absent})
VersionsTyped ==
    /\ DOMAIN version = {"artifact_type", "example", "field_label"}
    /\ version["artifact_type"] \in Seq(TypeSnapshot)
    /\ version["example"] \in Seq(ExampleRows)
    /\ version["field_label"] \in Seq(LabelRows)

LibraryTypeOK ==
    /\ type \in TypeRow \cup {Absent}
    /\ file \in [Paths -> {"none", "there", "lost"}]
    /\ check \in {Absent} \cup [says : Said, state : {"shadow", "active", "deleted"}]
    /\ example \in ExampleRows /\ fieldLabel \in LabelRows
    /\ VersionsTyped
    /\ saved \in Nat

LibraryIInv == LibraryTypeOK /\ LatestIsWhatIsKept

\* A save leaves a log whose latest entry is what was saved.
LEMMA VersionIsLatest ==
    ASSUME NEW kind \in DOMAIN version, NEW S, version[kind] \in Seq(S), NEW snapshot \in S,
           NEW reverting \in BOOLEAN
    PROVE  LET after == VersionWith(kind, snapshot, reverting) IN
           /\ after[kind] \in Seq(S) /\ Last(after[kind]) = snapshot
           /\ DOMAIN after = DOMAIN version
           /\ \A other \in DOMAIN version : other # kind => after[other] = version[other]
<1> DEFINE log == version[kind]
           new == IF log # <<>> /\ Last(log) = snapshot /\ ~reverting THEN log
                  ELSE Append(log, snapshot)
<1>1. Append(log, snapshot) \in Seq(S) /\ Last(Append(log, snapshot)) = snapshot
  BY DEF Last
<1>2. new \in Seq(S) /\ Last(new) = snapshot  BY <1>1
<1>3. VersionWith(kind, snapshot, reverting) = [version EXCEPT ![kind] = new]
  BY DEF VersionWith
<1> HIDE DEF new
<1> QED  BY <1>2, <1>3

LEMMA SampleSetIs ==
    ASSUME NEW f
    PROVE  f \in SampleSets <=> \E S \in SUBSET Paths : f \in [S -> SampleRow]
BY DEF SampleSets

LEMMA TypeSavedKeeps ==
    ASSUME LibraryIInv, NEW row \in TypeRow, NEW reverting \in BOOLEAN,
           TypeSaved(row, reverting)
    PROVE  /\ type' \in TypeRow \cup {Absent} /\ VersionsTyped' /\ saved' \in Nat
           /\ example' \in ExampleRows /\ fieldLabel' \in LabelRows
           /\ LatestIsWhatIsKept'
<1> USE DEF LibraryIInv, LibraryTypeOK
<1>1. /\ saved' = saved + 1 /\ type' = row /\ UNCHANGED <<example, fieldLabel>>
      /\ version' = VersionWith("artifact_type", Snapshot(row), reverting)
  BY DEF TypeSaved, Saving
<1>2. Snapshot(row) \in TypeSnapshot  BY DEF Snapshot, TypeSnapshot, TypeRow
<1>3. /\ version'["artifact_type"] \in Seq(TypeSnapshot)
      /\ Last(version'["artifact_type"]) = Snapshot(row)
      /\ DOMAIN version' = DOMAIN version
      /\ version'["example"] = version["example"]
      /\ version'["field_label"] = version["field_label"]
  BY <1>1, <1>2, VersionIsLatest DEF VersionsTyped
<1>4. VersionsTyped'  BY <1>3 DEF VersionsTyped
<1>5. LatestIsWhatIsKept'  BY <1>1, <1>3 DEF LatestIsWhatIsKept, LatestIs
<1> QED  BY <1>1, <1>4, <1>5

LEMMA ExamplesSavedKeeps ==
    ASSUME LibraryIInv, NEW rows \in ExampleRows, NEW reverting \in BOOLEAN,
           ExamplesSaved(rows, reverting)
    PROVE  LibraryIInv'
<1> USE DEF LibraryIInv, LibraryTypeOK
<1>1. /\ saved' = saved + 1 /\ example' = rows /\ UNCHANGED <<type, file, check, fieldLabel>>
      /\ version' = VersionWith("example", rows, reverting)
  BY DEF ExamplesSaved, Saving
<1>3. /\ version'["example"] \in Seq(ExampleRows)
      /\ Last(version'["example"]) = rows
      /\ DOMAIN version' = DOMAIN version
      /\ version'["artifact_type"] = version["artifact_type"]
      /\ version'["field_label"] = version["field_label"]
  BY <1>1, VersionIsLatest DEF VersionsTyped
<1>4. VersionsTyped'  BY <1>3 DEF VersionsTyped
<1>5. LatestIsWhatIsKept'  BY <1>1, <1>3 DEF LatestIsWhatIsKept, LatestIs, Snapshot
<1> QED  BY <1>1, <1>4, <1>5

LEMMA LabelsSavedKeeps ==
    ASSUME LibraryIInv, NEW rows \in LabelRows, NEW reverting \in BOOLEAN,
           LabelsSaved(rows, reverting)
    PROVE  LibraryIInv'
<1> USE DEF LibraryIInv, LibraryTypeOK
<1>1. /\ saved' = saved + 1 /\ fieldLabel' = rows /\ UNCHANGED <<type, file, check, example>>
      /\ version' = VersionWith("field_label", rows, reverting)
  BY DEF LabelsSaved, Saving
<1>3. /\ version'["field_label"] \in Seq(LabelRows)
      /\ Last(version'["field_label"]) = rows
      /\ DOMAIN version' = DOMAIN version
      /\ version'["artifact_type"] = version["artifact_type"]
      /\ version'["example"] = version["example"]
  BY <1>1, VersionIsLatest DEF VersionsTyped
<1>4. VersionsTyped'  BY <1>3 DEF VersionsTyped
<1>5. LatestIsWhatIsKept'  BY <1>1, <1>3 DEF LatestIsWhatIsKept, LatestIs, Snapshot
<1> QED  BY <1>1, <1>4, <1>5

\* Samples that are added, renamed, taken away or restored are samples.
LEMMA SamplesTyped ==
    ASSUME type \in TypeRow
    PROVE  /\ \A p \in Paths, scope \in SampleScopes, label \in Wordings :
                 With(p, scope, label) \in TypeRow
           /\ \A p \in Paths : Without({p}) \in TypeRow
           /\ \A target \in TypeSnapshot : Restored(target) \in TypeRow
<1>0. PICK S \in SUBSET Paths : type.sample \in [S -> SampleRow]
  BY SampleSetIs DEF TypeRow
<1>1. ASSUME NEW p \in Paths, NEW scope \in SampleScopes, NEW label \in Wordings
      PROVE  With(p, scope, label) \in TypeRow
  <2> DEFINE f == [q \in S \cup {p} |-> IF q = p THEN [scope |-> scope, label |-> label]
                                        ELSE type.sample[q]]
  <2>1. f \in [S \cup {p} -> SampleRow]  BY <1>0 DEF SampleRow
  <2>2. f \in SampleSets  BY <2>1, SampleSetIs
  <2>3. With(p, scope, label) = [type EXCEPT !.sample = f]  BY <1>0 DEF With
  <2> HIDE DEF f
  <2> QED  BY <2>2, <2>3 DEF TypeRow
<1>2. ASSUME NEW p \in Paths
      PROVE  Without({p}) \in TypeRow
  <2> DEFINE f == [q \in S \ {p} |-> type.sample[q]]
  <2>1. f \in [S \ {p} -> SampleRow]  BY <1>0
  <2>2. f \in SampleSets  BY <2>1, SampleSetIs
  <2>3. Without({p}) = [type EXCEPT !.sample = f]  BY <1>0 DEF Without
  <2> HIDE DEF f
  <2> QED  BY <2>2, <2>3 DEF TypeRow
<1>3. ASSUME NEW target \in TypeSnapshot
      PROVE  Restored(target) \in TypeRow
  <2>1. PICK W \in SUBSET Paths : target.sample \in [W -> SampleRow]
    BY SampleSetIs DEF TypeSnapshot
  <2> DEFINE back == {p \in W : p \in S \/ file[p] = "there"}
             f == [p \in back |-> IF p \in S THEN [type.sample[p] EXCEPT !.label = target.sample[p].label]
                                  ELSE target.sample[p]]
  <2>2. f \in [back -> SampleRow]  BY <1>0, <2>1 DEF SampleRow
  <2>3. back \in SUBSET Paths  OBVIOUS
  <2>4. f \in SampleSets  BY <2>2, <2>3, SampleSetIs
  <2>5. Restored(target) = [wording |-> target.wording, guide |-> target.guide,
                            layout |-> type.layout, sample |-> f]
    BY <1>0, <2>1 DEF Restored
  <2> HIDE DEF f
  <2> QED  BY <2>4, <2>5 DEF TypeRow, TypeSnapshot
<1> QED  BY <1>1, <1>2, <1>3

LEMMA SeededTyped == Seeded \in TypeRow
<1>1. Seeded.sample \in [{} -> SampleRow]  BY DEF Seeded
<1>2. Seeded.sample \in SampleSets  BY <1>1, SampleSetIs
<1> QED  BY <1>2 DEF Seeded, TypeRow, Said

LEMMA LibraryInitHolds == LibraryInit => LibraryIInv
<1> SUFFICES ASSUME LibraryInit PROVE LibraryIInv
  OBVIOUS
<1>1. LibraryTypeOK
  BY SeededTyped DEF LibraryInit, LibraryTypeOK, VersionsTyped, ExampleRows, LabelRows
<1>2. LatestIsWhatIsKept
  BY DEF LibraryInit, LatestIsWhatIsKept, LatestIs
<1> QED  BY <1>1, <1>2 DEF LibraryIInv

\* Every operation on the artifact type.
LEMMA TypeSteps ==
    ASSUME LibraryIInv,
           \/ \E w \in Wordings : SaveArtifactType(w) \/ SaveLayout(w)
           \/ \E p \in Paths : DeleteSample(p)
           \/ \E p \in Paths, scope \in SampleScopes, label \in Wordings :
                 UploadSample(p, scope, label) \/ EditSample(p, scope, label)
           \/ \E guide \in Said, found \in BOOLEAN : SaveGuide(guide, found)
           \/ \E n \in 1 .. MaxSaved : RevertArtifactType(n)
    PROVE  LibraryIInv'
<1> USE DEF LibraryIInv, LibraryTypeOK
<1>1. ASSUME NEW row \in TypeRow, NEW reverting \in BOOLEAN, TypeSaved(row, reverting),
             file' \in [Paths -> {"none", "there", "lost"}],
             check' \in {Absent} \cup [says : Said, state : {"shadow", "active", "deleted"}]
      PROVE  LibraryIInv'
  BY <1>1, TypeSavedKeeps
<1>2. CASE \E w \in Wordings : SaveArtifactType(w)
  <2> PICK w \in Wordings : SaveArtifactType(w)  BY <1>2
  <2> DEFINE row == [IF type = Absent THEN Seeded ELSE type EXCEPT !.wording = w]
  <2>1. row \in TypeRow  BY SeededTyped DEF TypeRow, Said
  <2>2. TypeSaved(row, FALSE) /\ UNCHANGED <<file, check>>  BY DEF SaveArtifactType
  <2> HIDE DEF row
  <2> QED  BY <1>1, <2>1, <2>2
<1>3. CASE \E w \in Wordings : SaveLayout(w)
  <2> PICK w \in Wordings : SaveLayout(w)  BY <1>3
  <2>1. type \in TypeRow /\ TypeSaved([type EXCEPT !.layout = w], FALSE) /\ UNCHANGED <<file, check>>
    BY DEF SaveLayout
  <2>2. [type EXCEPT !.layout = w] \in TypeRow  BY <2>1 DEF TypeRow, Said
  <2> QED  BY <1>1, <2>1, <2>2
<1>4. CASE \E p \in Paths : DeleteSample(p)
  <2> PICK p \in Paths : DeleteSample(p)  BY <1>4
  <2>1. type \in TypeRow /\ TypeSaved(Without({p}), FALSE) /\ UNCHANGED <<file, check>>
    BY DEF DeleteSample
  <2> QED  BY <1>1, <2>1, SamplesTyped
<1>5. CASE \E p \in Paths, scope \in SampleScopes, label \in Wordings :
              UploadSample(p, scope, label) \/ EditSample(p, scope, label)
  <2> PICK p \in Paths, scope \in SampleScopes, label \in Wordings :
         UploadSample(p, scope, label) \/ EditSample(p, scope, label)
    BY <1>5
  <2>1. /\ type \in TypeRow /\ TypeSaved(With(p, scope, label), FALSE) /\ UNCHANGED check
        /\ file' \in [Paths -> {"none", "there", "lost"}]
    BY DEF UploadSample, EditSample
  <2> QED  BY <1>1, <2>1, SamplesTyped
<1>6. CASE \E guide \in Said, found \in BOOLEAN : SaveGuide(guide, found)
  <2> PICK guide \in Said, found \in BOOLEAN : SaveGuide(guide, found)  BY <1>6
  <2>1. /\ type \in TypeRow /\ TypeSaved([type EXCEPT !.guide = guide], FALSE)
        /\ UNCHANGED file /\ check' = Compiled(guide, Shown(found))
    BY DEF SaveGuide
  <2>2. check' \in {Absent} \cup [says : Said, state : {"shadow", "active", "deleted"}]
    BY <2>1 DEF Compiled
  <2>3. [type EXCEPT !.guide = guide] \in TypeRow  BY <2>1 DEF TypeRow, Said
  <2> QED  BY <1>1, <2>1, <2>2, <2>3
<1>7. CASE \E n \in 1 .. MaxSaved : RevertArtifactType(n)
  <2> PICK n \in 1 .. MaxSaved : RevertArtifactType(n)  BY <1>7
  <2>1. /\ type \in TypeRow /\ n \in DOMAIN version["artifact_type"]
        /\ TypeSaved(Restored(version["artifact_type"][n]), TRUE) /\ UNCHANGED <<file, check>>
    BY DEF RevertArtifactType
  <2>2. version["artifact_type"][n] \in TypeSnapshot  BY <2>1 DEF VersionsTyped
  <2> QED  BY <1>1, <2>1, <2>2, SamplesTyped
<1> QED  BY <1>2, <1>3, <1>4, <1>5, <1>6, <1>7

\* A revert writes rows of both.
LEMMA BackToTyped ==
    ASSUME NEW S, Absent \in S, NEW rows \in Seq(S), NEW target \in Seq(S)
    PROVE  BackTo(rows, target) \in Seq(S)
<1>1. BackTo(rows, target) \in [1 .. Len(rows) -> S]  BY DEF BackTo
<1> QED  BY <1>1

LEMMA ExampleSteps ==
    ASSUME LibraryIInv,
           \/ \E w \in Wordings, active \in BOOLEAN : SaveExample(w, active)
           \/ \E w \in Wordings, active \in BOOLEAN, i \in 1 .. MaxSaved : EditExample(i, w, active)
           \/ \E n \in 1 .. MaxSaved : RevertExamples(n)
    PROVE  LibraryIInv'
<1> DEFINE S == [wording : Wordings, active : BOOLEAN] \cup {Absent}
<1>0. example \in Seq(S) /\ ExampleRows = Seq(S)
  BY DEF LibraryIInv, LibraryTypeOK, ExampleRows
<1>1. CASE \E w \in Wordings, active \in BOOLEAN : SaveExample(w, active)
  <2> PICK w \in Wordings, active \in BOOLEAN : SaveExample(w, active)  BY <1>1
  <2> DEFINE e == [wording |-> w, active |-> active]
  <2>1. e \in S  OBVIOUS
  <2>2. ExamplesSaved(Append(example, e), FALSE)  BY DEF SaveExample
  <2> HIDE DEF S, e
  <2>3. Append(example, e) \in ExampleRows  BY <1>0, <2>1
  <2> QED  BY <2>2, <2>3, ExamplesSavedKeeps
<1>2. CASE \E w \in Wordings, active \in BOOLEAN, i \in 1 .. MaxSaved : EditExample(i, w, active)
  <2> PICK w \in Wordings, active \in BOOLEAN, i \in 1 .. MaxSaved : EditExample(i, w, active)
    BY <1>2
  <2> DEFINE e == [wording |-> w, active |-> active]
  <2>1. e \in S  OBVIOUS
  <2>2. i \in DOMAIN example /\ ExamplesSaved([example EXCEPT ![i] = e], FALSE)
    BY DEF EditExample, ExampleAs
  <2> HIDE DEF S, e
  <2>3. [example EXCEPT ![i] = e] \in ExampleRows  BY <1>0, <2>1, <2>2
  <2> QED  BY <2>2, <2>3, ExamplesSavedKeeps
<1>3. CASE \E n \in 1 .. MaxSaved : RevertExamples(n)
  <2> PICK n \in 1 .. MaxSaved : RevertExamples(n)  BY <1>3
  <2>1. /\ n \in DOMAIN version["example"]
        /\ ExamplesSaved(BackTo(example, version["example"][n]), TRUE)
    BY DEF RevertExamples
  <2>2. version["example"][n] \in ExampleRows
    BY <2>1 DEF LibraryIInv, LibraryTypeOK, VersionsTyped
  <2>3. BackTo(example, version["example"][n]) \in ExampleRows
    BY <1>0, <2>2, BackToTyped
  <2> QED  BY <2>1, <2>3, ExamplesSavedKeeps
<1> QED  BY <1>1, <1>2, <1>3

LEMMA LabelSteps ==
    ASSUME LibraryIInv,
           \/ \E text \in LabelTexts, active \in BOOLEAN : CreateFieldLabel(text, active)
           \/ \E i \in 1 .. MaxSaved : DeleteFieldLabel(i)
           \/ \E i \in 1 .. MaxSaved, active \in BOOLEAN : SetFieldLabelActive(i, active)
           \/ \E n \in 1 .. MaxSaved : RevertFieldLabels(n)
    PROVE  LibraryIInv'
<1> DEFINE L == [text : LabelTexts, active : BOOLEAN]
           S == L \cup {Absent}
<1>0. fieldLabel \in Seq(S) /\ LabelRows = Seq(S)
  BY DEF LibraryIInv, LibraryTypeOK, LabelRows
<1>1. CASE \E text \in LabelTexts, active \in BOOLEAN : CreateFieldLabel(text, active)
  <2> PICK text \in LabelTexts, active \in BOOLEAN : CreateFieldLabel(text, active)  BY <1>1
  <2> DEFINE e == [text |-> text, active |-> active]
  <2>1. e \in S  OBVIOUS
  <2>2. LabelsSaved(Append(fieldLabel, e), FALSE)  BY DEF CreateFieldLabel
  <2> HIDE DEF S, e
  <2>3. Append(fieldLabel, e) \in LabelRows  BY <1>0, <2>1
  <2> QED  BY <2>2, <2>3, LabelsSavedKeeps
<1>2. CASE \E i \in 1 .. MaxSaved : DeleteFieldLabel(i)
  <2> PICK i \in 1 .. MaxSaved : DeleteFieldLabel(i)  BY <1>2
  <2>1. i \in DOMAIN fieldLabel /\ LabelsSaved([fieldLabel EXCEPT ![i] = Absent], FALSE)
    BY DEF DeleteFieldLabel
  <2>2. Absent \in S  OBVIOUS
  <2> HIDE DEF S
  <2>3. [fieldLabel EXCEPT ![i] = Absent] \in LabelRows  BY <1>0, <2>1, <2>2
  <2> QED  BY <2>1, <2>3, LabelsSavedKeeps
<1>3. CASE \E i \in 1 .. MaxSaved, active \in BOOLEAN : SetFieldLabelActive(i, active)
  <2> PICK i \in 1 .. MaxSaved, active \in BOOLEAN : SetFieldLabelActive(i, active)  BY <1>3
  <2>1. /\ i \in DOMAIN fieldLabel /\ fieldLabel[i] # Absent
        /\ LabelsSaved([fieldLabel EXCEPT ![i].active = active], FALSE)
    BY DEF SetFieldLabelActive
  <2>2. fieldLabel[i] \in L  BY <1>0, <2>1
  <2>3. [fieldLabel[i] EXCEPT !.active = active] \in S  BY <2>2
  <2> HIDE DEF S
  <2>4. [fieldLabel EXCEPT ![i].active = active] \in LabelRows  BY <1>0, <2>1, <2>3
  <2> QED  BY <2>1, <2>4, LabelsSavedKeeps
<1>4. CASE \E n \in 1 .. MaxSaved : RevertFieldLabels(n)
  <2> PICK n \in 1 .. MaxSaved : RevertFieldLabels(n)  BY <1>4
  <2>1. /\ n \in DOMAIN version["field_label"]
        /\ LabelsSaved(BackTo(fieldLabel, version["field_label"][n]), TRUE)
    BY DEF RevertFieldLabels
  <2>2. version["field_label"][n] \in LabelRows
    BY <2>1 DEF LibraryIInv, LibraryTypeOK, VersionsTyped
  <2>3. BackTo(fieldLabel, version["field_label"][n]) \in LabelRows
    BY <1>0, <2>2, BackToTyped
  <2> QED  BY <2>1, <2>3, LabelsSavedKeeps
<1> QED  BY <1>1, <1>2, <1>3, <1>4

LEMMA LibraryNextHolds ==
    ASSUME LibraryIInv, [LibraryNext]_libraryVars
    PROVE  LibraryIInv'
<1> USE DEF LibraryIInv, LibraryTypeOK, LatestIsWhatIsKept, LatestIs
<1>1. CASE PromoteCheck
  BY <1>1 DEF PromoteCheck, VersionsTyped
<1>2. CASE \E p \in Paths : FileLost(p)
  BY <1>2 DEF FileLost, VersionsTyped
<1>3. CASE DeleteArtifactType
  <2>1. /\ type' = Absent /\ version' = [version EXCEPT !["artifact_type"] = <<>>]
        /\ UNCHANGED <<file, check, example, fieldLabel>> /\ saved' = saved + 1
    BY <1>3 DEF DeleteArtifactType, Saving
  <2>2. VersionsTyped'  BY <2>1 DEF VersionsTyped
  <2>3. version'["example"] = version["example"] /\ version'["field_label"] = version["field_label"]
    BY <2>1 DEF VersionsTyped
  <2> QED  BY <2>1, <2>2, <2>3
<1>4. CASE UNCHANGED libraryVars
  BY <1>4 DEF libraryVars, VersionsTyped, Snapshot
<1> HIDE DEF LibraryIInv
<1> QED
  BY <1>1, <1>2, <1>3, <1>4, TypeSteps, ExampleSteps, LabelSteps
  DEF LibraryNext, Said, AcceptLayoutSuggestion, PromoteExample

\* The rows, the files and the logs keep their types.
THEOREM LibraryTypeCorrect == LibrarySpec => []LibraryTypeOK
<1>1. LibraryIInv /\ [LibraryNext]_libraryVars => LibraryIInv'
  BY LibraryNextHolds
<1>2. LibraryIInv => LibraryTypeOK
  BY DEF LibraryIInv
<1> QED BY <1>1, <1>2, LibraryInitHolds, PTL DEF LibrarySpec

\* The latest version of a type, of a stage's examples and of a field's labels is what is
\* there, whatever was saved, reverted, deleted or lost.
THEOREM NothingUnrecorded == LibrarySpec => []LatestIsWhatIsKept
<1>1. LibraryIInv /\ [LibraryNext]_libraryVars => LibraryIInv'
  BY LibraryNextHolds
<1>2. LibraryIInv => LatestIsWhatIsKept
  BY DEF LibraryIInv
<1> QED BY <1>1, <1>2, LibraryInitHolds, PTL DEF LibrarySpec

-----------------------------------------------------------------------------
(***************************************************************************)
(* Proofs about Intake's waiting run, for any submissions and any number   *)
(* of people who accept. What a request has read to accept and to leave    *)
(* open covers what is open until it commits, and is exactly that until    *)
(* somebody else's request commits in between.                             *)
(***************************************************************************)
Fields == {"configuration_id", "customer", "credit_date"}
Acceptance == [step : {"read"}, accepts : SUBSET Fields, open : SUBSET Fields]

WaitingTypeOK ==
    /\ heldRun \in {"none", "held", "queued"}
    /\ mismatch \in UNION {[D -> BOOLEAN] : D \in SUBSET Fields}
    /\ accepting \in [Acceptors -> {NoRequestYet} \cup Acceptance]
    /\ overlapped \in BOOLEAN

ReadsCover ==
    \A q \in Acceptors : accepting[q].step = "read" =>
        heldRun # "none" /\ Open \subseteq accepting[q].accepts \cup accepting[q].open

ReadsCurrent ==
    ~overlapped => \A q \in Acceptors : accepting[q].step = "read" =>
        heldRun = "held" /\ accepting[q].open \subseteq Open \ accepting[q].accepts

IntakeIInv == WaitingTypeOK /\ ReadsCover /\ ReadsCurrent /\ HeldMeansOpen

LEMMA IntakeInitHolds == IntakeInit => IntakeIInv
<1> SUFFICES ASSUME IntakeInit PROVE IntakeIInv
  OBVIOUS
<1>1. mismatch \in [{} -> BOOLEAN]  BY DEF IntakeInit
<1>2. WaitingTypeOK  BY <1>1 DEF IntakeInit, WaitingTypeOK
<1>3. ReadsCover /\ ReadsCurrent /\ HeldMeansOpen
  BY DEF IntakeInit, ReadsCover, ReadsCurrent, HeldMeansOpen, NoRequestYet
<1> QED  BY <1>2, <1>3 DEF IntakeIInv

\* Detection asks nothing of a run.
LEMMA DetectKeeps ==
    ASSUME IntakeIInv, UNCHANGED <<heldRun, mismatch, accepting, overlapped>>
    PROVE  IntakeIInv'
BY DEF IntakeIInv, WaitingTypeOK, ReadsCover, ReadsCurrent, HeldMeansOpen, Open

\* A submission opens a disagreement, or none and is queued.
LEMMA FinishKeeps ==
    ASSUME IntakeIInv, NEW given \in Submissions, FinishSubmission(given)
    PROVE  IntakeIInv'
<1> USE DEF IntakeIInv
<1>1. PICK date : /\ mismatch' = [f \in Disagreeing(given, date) |-> FALSE]
                  /\ heldRun' = IF DOMAIN mismatch' # {} THEN "held" ELSE "queued"
                  /\ heldRun = "none" /\ UNCHANGED <<accepting, overlapped>>
  BY DEF FinishSubmission, RecordedMismatches
<1>2. Disagreeing(given, date) \in SUBSET Fields  BY DEF Disagreeing, Fields
<1>3. mismatch' \in [Disagreeing(given, date) -> BOOLEAN]  BY <1>1
<1>4. WaitingTypeOK'  BY <1>1, <1>2, <1>3 DEF WaitingTypeOK
<1>5. \A q \in Acceptors : accepting'[q].step # "read"  BY <1>1 DEF ReadsCover
<1>6. Open' = DOMAIN mismatch'  BY <1>1 DEF Open
<1> QED  BY <1>1, <1>4, <1>5, <1>6 DEF ReadsCover, ReadsCurrent, HeldMeansOpen

LEMMA AcceptReads ==
    ASSUME IntakeIInv, NEW q \in Acceptors, NEW wanted \in SUBSET Fields,
           AcceptMismatches(q, wanted)
    PROVE  IntakeIInv'
<1> USE DEF IntakeIInv
<1> DEFINE accepts == IF wanted = {} THEN Open ELSE Open \cap wanted
           open == IF wanted = {} THEN {} ELSE Open \ wanted
           r == [step |-> "read", accepts |-> accepts, open |-> open]
<1>0. Open \subseteq Fields
  <2>1. PICK D \in SUBSET Fields : mismatch \in [D -> BOOLEAN]  BY DEF WaitingTypeOK
  <2> QED  BY <2>1 DEF Open
<1>1. /\ accepting' = [accepting EXCEPT ![q] = r]
      /\ heldRun = "held" /\ UNCHANGED <<heldRun, mismatch, overlapped>>
  BY DEF AcceptMismatches
<1>2. Open' = Open  BY <1>1 DEF Open
<1>3. accepts \subseteq Open /\ open = Open \ accepts /\ Open \subseteq accepts \cup open
  OBVIOUS
<1> HIDE DEF accepts, open
<1>4. r \in Acceptance  BY <1>0, <1>3 DEF Acceptance
<1>5. WaitingTypeOK'  BY <1>1, <1>4 DEF WaitingTypeOK
<1>6. \A p \in Acceptors : accepting'[p] = IF p = q THEN r ELSE accepting[p]
  BY <1>1 DEF WaitingTypeOK
<1>7. ReadsCover'  BY <1>1, <1>2, <1>3, <1>6 DEF ReadsCover
<1>8. ReadsCurrent'  BY <1>1, <1>2, <1>3, <1>6 DEF ReadsCurrent
<1>9. HeldMeansOpen'  BY <1>1, <1>2 DEF HeldMeansOpen
<1> QED  BY <1>5, <1>7, <1>8, <1>9

LEMMA AcceptCommits ==
    ASSUME IntakeIInv, NEW q \in Acceptors, AcceptCommitted(q)
    PROVE  IntakeIInv'
<1> USE DEF IntakeIInv
<1>1. PICK accepts, open :
         /\ accepts = accepting[q].accepts /\ open = accepting[q].open
         /\ accepting[q].step = "read" /\ accepting[q] \in Acceptance
  BY DEF AcceptCommitted, WaitingTypeOK, NoRequestYet
<1>2. /\ mismatch' = [f \in DOMAIN mismatch |-> mismatch[f] \/ f \in accepts]
      /\ heldRun' = IF open = {} THEN "queued" ELSE heldRun
      /\ accepting' = [accepting EXCEPT ![q] = NoRequestYet]
      /\ overlapped' = (overlapped \/ \E p \in Acceptors \ {q} : accepting[p] # NoRequestYet)
  BY <1>1 DEF AcceptCommitted, AcceptedAs
<1>3. Open' = Open \ accepts
  <2>1. DOMAIN mismatch' = DOMAIN mismatch  BY <1>2
  <2>2. \A f \in DOMAIN mismatch : ~mismatch'[f] <=> ~mismatch[f] /\ f \notin accepts
    BY <1>2, Zenon
  <2> QED  BY <2>1, <2>2 DEF Open
<1>4. WaitingTypeOK'
  <2>1. PICK D \in SUBSET Fields : mismatch \in [D -> BOOLEAN]  BY DEF WaitingTypeOK
  <2>2. mismatch' \in [D -> BOOLEAN]  BY <1>2, <2>1
  <2>3. heldRun' \in {"none", "held", "queued"}  BY <1>2 DEF WaitingTypeOK
  <2>4. accepting' \in [Acceptors -> {NoRequestYet} \cup Acceptance]
    BY <1>2 DEF WaitingTypeOK
  <2>5. overlapped' \in BOOLEAN  BY <1>2 DEF WaitingTypeOK
  <2> QED  BY <2>1, <2>2, <2>3, <2>4, <2>5 DEF WaitingTypeOK
<1>5. \A p \in Acceptors : accepting'[p].step = "read" =>
         p # q /\ accepting'[p] = accepting[p]
  BY <1>2 DEF WaitingTypeOK, NoRequestYet
<1>6. /\ heldRun # "none" /\ Open \subseteq accepts \cup open
      /\ ~overlapped => heldRun = "held" /\ open \subseteq Open \ accepts
  BY <1>1 DEF ReadsCover, ReadsCurrent
<1>7. overlapped => overlapped'  BY <1>2
<1>8. ReadsCover'  BY <1>2, <1>3, <1>5 DEF ReadsCover
<1>9. ReadsCurrent'
  <2> SUFFICES ASSUME ~overlapped', NEW p \in Acceptors, accepting'[p].step = "read"
               PROVE  FALSE
    BY DEF ReadsCurrent
  <2>1. p # q /\ accepting[p] # NoRequestYet  BY <1>5 DEF NoRequestYet
  <2> QED  BY <1>2, <2>1
<1>10. HeldMeansOpen'
  <2>1. ASSUME heldRun' = "queued" PROVE Open' = {}
    <3>1. CASE open = {}  BY <3>1, <1>3, <1>6
    <3>2. CASE open # {}  BY <3>2, <2>1, <1>2, <1>3 DEF HeldMeansOpen
    <3> QED  BY <3>1, <3>2
  <2>2. ASSUME heldRun' = "held", Open' = {} PROVE overlapped'
    <3>1. open # {}  BY <2>2, <1>2
    <3> QED  BY <3>1, <2>2, <1>3, <1>6, <1>7
  <2> QED  BY <2>1, <2>2 DEF HeldMeansOpen
<1> QED  BY <1>4, <1>8, <1>9, <1>10

LEMMA IntakeNextHolds ==
    ASSUME IntakeIInv, [IntakeNext]_intakeVars
    PROVE  IntakeIInv'
<1>1. CASE UNCHANGED intakeVars \/ \E workbook \in Workbooks : DetectType(workbook)
  BY <1>1, DetectKeeps DEF intakeVars, DetectType
<1> QED
  BY <1>1, FinishKeeps, AcceptReads, AcceptCommits DEF IntakeNext, Fields

\* A run is queued only when every disagreement is accepted, and waits only while one is
\* open, whoever accepts what at the same time - save that two acceptances that overlapped
\* may leave it waiting for nobody.
THEOREM WaitingIsForSomething == IntakeSpec => []HeldMeansOpen
<1>1. IntakeIInv /\ [IntakeNext]_intakeVars => IntakeIInv'
  BY IntakeNextHolds
<1>2. IntakeIInv => HeldMeansOpen
  BY DEF IntakeIInv
<1> QED BY <1>1, <1>2, IntakeInitHolds, PTL DEF IntakeSpec

-----------------------------------------------------------------------------
(***************************************************************************)
(* Proofs about Submission, for any runs, requests, contents and windows,  *)
(* however the requests interleave.                                        *)
(*                                                                         *)
(* A run that never was a draft is stamped once, when it is owed its       *)
(* retention, and nothing can shorten that: a request that submits or      *)
(* discards works on a run with a source, and a request that creates works *)
(* on a run nobody else has.                                               *)
(***************************************************************************)

\* A run without a source is no draft and expires no sooner than it is owed.
NewRunsHaveTheirWindow ==
    \A r \in Runs : Exists(r) /\ run[r].source = NoRun =>
        Status(r) # "draft" /\ owed[r] <= run[r].expires

\* The runs of open creations are not there yet, and they differ.
CreatesAreAlone ==
    \A q \in Requests : request[q].op = "create" =>
        /\ Status(request[q].run) = "absent"
        /\ \A p \in Requests \ {q} :
              request[p].op = "create" => request[p].run # request[q].run

\* A request that submits or discards a run read a draft, and drafts have a source.
DraftsHaveASource ==
    \A q \in Requests :
        request[q].op \in {"submit", "discard"} =>
            /\ Status(request[q].run) # "absent"
            /\ Exists(request[q].run) => run[request[q].run].source # NoRun

IInv == TypeOK /\ NewRunsHaveTheirWindow /\ CreatesAreAlone /\ DraftsHaveASource

-----------------------------------------------------------------------------
(* Lemmas about the rows. *)

\* A new row, the row of a run that is gone, and the row of one that was submitted.
LEMMA NewRowType ==
    /\ NewRow \in RunRow
    /\ [NewRow EXCEPT !.status = "gone"] \in RunRow
    /\ NewRow.status = "absent"
    /\ [NewRow EXCEPT !.status = "gone"].status = "gone"
BY DEF NewRow, RunRow, Files, Statuses

LEMMA SubmittedType ==
    ASSUME NEW row \in RunRow, NEW window \in Nat, NEW files \in Contents,
           NEW explained \in BOOLEAN, NEW outcome \in {"held", "queued"},
           NEW r, r.files = files, r.explained = explained, r.outcome = outcome
    PROVE  /\ Submitted(row, r, window) \in RunRow
           /\ Submitted(row, r, window).status = outcome
           /\ Submitted(row, r, window).source = row.source
           /\ Submitted(row, r, window).expires = window
BY DEF Submitted, RunRow, Files, Statuses

LEMMA WindowType ==
    /\ \A status : Window(status) \in Nat
    /\ Window("queued") = RunDays
BY DaysAssumption DEF Window

\* What an open creation or submission holds.
LEMMA RequestType ==
    ASSUME TypeOK, NEW q \in Requests
    PROVE  /\ request[q] # Idle => request[q].run \in Runs
           /\ request[q].op \in {"create", "submit"} =>
                 /\ request[q].files \in Contents
                 /\ request[q].explained \in BOOLEAN
                 /\ request[q].outcome \in {"duplicate", "held", "queued"}
           /\ request[q].op # "none" => request[q] # Idle
<1>1. request[q] \in RequestState
  BY DEF TypeOK
<1> QED BY <1>1 DEF RequestState, Idle

\* A day less is a number of days, one less than before unless there was none.
LEMMA LessType ==
    ASSUME NEW m \in Nat, NEW n \in Nat, m <= n
    PROVE  Less(m) \in Nat /\ Less(m) <= m /\ Less(m) <= Less(n)
BY DEF Less

-----------------------------------------------------------------------------
LEMMA InitIInv == Init => IInv
<1> SUFFICES ASSUME Init PROVE IInv
  OBVIOUS
<1>1. TypeOK
  BY NewRowType, DaysAssumption DEF Init, TypeOK, Files, RequestState
<1>2. \A r \in Runs : ~Exists(r)
  BY NewRowType DEF Init, Exists, Status
<1>3. \A q \in Requests : request[q].op = "none"
  BY DEF Init, Idle
<1> QED BY <1>1, <1>2, <1>3 DEF IInv, NewRunsHaveTheirWindow, CreatesAreAlone, DraftsHaveASource

-----------------------------------------------------------------------------
(* Steps that end requests or leave them alone. *)

\* What a step may do to a row that open requests refer to: nothing; change a row that
\* is there and keep its source; or anything to one that no request has afterwards.
RowMoves(r) ==
    \/ run'[r] = run[r]
    \/ /\ Status(r) # "absent" /\ run'[r].status # "absent"
       /\ run'[r].status # "gone" => Exists(r) /\ run'[r].source = run[r].source
    \/ \A q \in Requests :
          request'[q].op \in {"create", "submit", "discard"} => request'[q].run # r

LEMMA RequestsKept ==
    ASSUME IInv,
           \A q \in Requests : request'[q] \in {request[q], Idle},
           \A r \in Runs : RowMoves(r)
    PROVE  CreatesAreAlone' /\ DraftsHaveASource'
<1>1. ASSUME NEW q \in Requests, request'[q].op = "create"
      PROVE  /\ run'[request'[q].run].status = "absent"
             /\ \A p \in Requests \ {q} :
                  request'[p].op = "create" => request'[p].run # request'[q].run
  <2>1. request'[q] = request[q] /\ request[q] # Idle /\ request[q].run \in Runs
    BY <1>1, RequestType DEF IInv, Idle
  <2>2. Status(request[q].run) = "absent"
    BY <1>1, <2>1 DEF IInv, CreatesAreAlone
  <2>3. run'[request[q].run] = run[request[q].run]
    BY <1>1, <2>1, <2>2 DEF RowMoves
  <2>4. \A p \in Requests \ {q} :
          request'[p].op = "create" => request'[p].run # request'[q].run
    BY <1>1, <2>1 DEF IInv, CreatesAreAlone, Idle
  <2> QED BY <2>1, <2>2, <2>3, <2>4 DEF Status
<1>2. ASSUME NEW q \in Requests, request'[q].op \in {"submit", "discard"}
      PROVE  /\ run'[request'[q].run].status # "absent"
             /\ run'[request'[q].run].status # "gone" =>
                  run'[request'[q].run].source # NoRun
  <2>1. request'[q] = request[q] /\ request[q] # Idle /\ request[q].run \in Runs
    BY <1>2, RequestType DEF IInv, Idle
  <2> DEFINE r == request[q].run
  <2>2. RowMoves(r)
    BY <2>1
  <2>3. Status(r) # "absent" /\ (Exists(r) => run[r].source # NoRun)
    BY <1>2, <2>1 DEF IInv, DraftsHaveASource
  <2>4. CASE run'[r] = run[r]
    BY <2>1, <2>3, <2>4 DEF Exists, Status
  <2>5. CASE /\ Status(r) # "absent" /\ run'[r].status # "absent"
             /\ run'[r].status # "gone" => Exists(r) /\ run'[r].source = run[r].source
    BY <2>1, <2>3, <2>5
  <2> QED BY <1>2, <2>1, <2>2, <2>4, <2>5 DEF RowMoves
<1> QED BY <1>1, <1>2 DEF CreatesAreAlone, DraftsHaveASource, Exists, Status

\* A step that leaves rows and debts alone leaves every row its window.
LEMMA WindowKept ==
    ASSUME NewRunsHaveTheirWindow, UNCHANGED <<run, owed>>
    PROVE  NewRunsHaveTheirWindow'
BY DEF NewRunsHaveTheirWindow, Exists, Status

-----------------------------------------------------------------------------
(* Requests that read. *)

LEMMA CreateReadStep ==
    ASSUME IInv, NEW q \in Requests, NEW r \in Runs, NEW files \in Contents,
           NEW explained \in BOOLEAN, CreateRead(q, r, files, explained)
    PROVE  IInv'
<1>1. PICK outcome \in {"duplicate", "held", "queued"} :
        request' = [request EXCEPT ![q] = [op |-> "create", run |-> r, files |-> files,
                                           explained |-> explained, outcome |-> outcome]]
  BY DEF CreateRead, Outcomes
<1>2. TypeOK'
  <2>1. [op |-> "create", run |-> r, files |-> files, explained |-> explained,
         outcome |-> outcome] \in RequestState
    BY DEF RequestState
  <2> QED BY <1>1, <2>1 DEF IInv, TypeOK, CreateRead, Files
<1>3. CreatesAreAlone'
  <2>1. \A p \in Requests : request[p].op = "create" => request[p].run # r
    BY RequestType DEF CreateRead, Unused, Idle
  <2>2. Status(r) = "absent" /\ run' = run
    BY DEF CreateRead, Unused
  <2>3. \A p \in Requests : request'[p] = IF p = q
          THEN [op |-> "create", run |-> r, files |-> files, explained |-> explained,
                outcome |-> outcome]
          ELSE request[p]
    BY <1>1 DEF IInv, TypeOK
  <2> QED BY <2>1, <2>2, <2>3 DEF IInv, CreatesAreAlone, Status
<1>4. DraftsHaveASource'
  <2>1. \A p \in Requests :
          request'[p].op \in {"submit", "discard"} => request'[p] = request[p]
    BY <1>1 DEF IInv, TypeOK
  <2> QED BY <2>1 DEF IInv, CreateRead, DraftsHaveASource, Exists, Status
<1> QED BY <1>2, <1>3, <1>4, WindowKept DEF IInv, CreateRead

\* A request that reads a draft, or one that attaches.
LEMMA DraftReadStep ==
    ASSUME IInv, NEW q \in Requests, NEW r \in Runs, NEW new \in RequestState,
           request' = [request EXCEPT ![q] = new], new.run = r,
           new.op \in {"attach", "discard", "submit"}, Status(r) = "draft",
           UNCHANGED <<run, layout, bytes, owed>>
    PROVE  IInv'
<1>1. TypeOK'
  BY DEF IInv, TypeOK
<1>2. \A p \in Requests : request'[p] = IF p = q THEN new ELSE request[p]
  BY DEF IInv, TypeOK
<1>3. CreatesAreAlone'
  BY <1>2 DEF IInv, CreatesAreAlone, Status
<1>4. Status(r) # "absent" /\ (Exists(r) => run[r].source # NoRun)
  BY DEF IInv, NewRunsHaveTheirWindow
<1>5. DraftsHaveASource'
  BY <1>2, <1>4 DEF IInv, DraftsHaveASource, Exists, Status
<1> QED BY <1>1, <1>3, <1>5, WindowKept DEF IInv

LEMMA ReadStep ==
    ASSUME IInv, NEW q \in Requests, Read(q)
    PROVE  IInv'
<1>1. PICK r \in Runs :
        \/ \E explained \in BOOLEAN :
              \/ SubmitRead(q, r, explained)
              \/ \E files \in Contents : CreateRead(q, r, files, explained)
        \/ AttachRead(q, r)
        \/ DiscardRead(q, r)
  BY DEF Read
<1>2. CASE \E explained \in BOOLEAN, files \in Contents : CreateRead(q, r, files, explained)
  BY <1>2, CreateReadStep
<1>3. ASSUME NEW explained \in BOOLEAN, SubmitRead(q, r, explained) PROVE IInv'
  <2>1. PICK outcome \in {"duplicate", "held", "queued"} :
          request' = [request EXCEPT ![q] = [op |-> "submit", run |-> r, files |-> run[r].files,
                                             explained |-> explained, outcome |-> outcome]]
    BY <1>3 DEF SubmitRead, Outcomes
  <2> DEFINE new == [op |-> "submit", run |-> r, files |-> run[r].files,
                     explained |-> explained, outcome |-> outcome]
  <2>2. run[r].files \in Contents
    BY <1>3 DEF SubmitRead, IInv, TypeOK, RunRow, Files
  <2>3. new \in RequestState /\ new.run = r /\ new.op = "submit"
    BY <2>2 DEF RequestState
  <2>4. Status(r) = "draft" /\ UNCHANGED <<run, layout, bytes, owed>>
    BY <1>3 DEF SubmitRead
  <2> HIDE DEF new
  <2> QED BY <2>1, <2>3, <2>4, DraftReadStep DEF new
<1>4. ASSUME NEW op \in {"attach", "discard"}, Status(r) = "draft",
             request' = [request EXCEPT ![q] = [op |-> op, run |-> r]],
             UNCHANGED <<run, layout, bytes, owed>>
      PROVE  IInv'
  <2> DEFINE new == [op |-> op, run |-> r]
  <2>1. new \in RequestState /\ new.run = r /\ new.op = op
    BY DEF RequestState
  <2> HIDE DEF new
  <2> QED BY <1>4, <2>1, DraftReadStep DEF new
<1>5. CASE AttachRead(q, r)
  BY <1>4, <1>5 DEF AttachRead
<1>6. CASE DiscardRead(q, r)
  BY <1>4, <1>6 DEF DiscardRead
<1> QED BY <1>1, <1>2, <1>3, <1>5, <1>6

-----------------------------------------------------------------------------
(* Requests that commit. *)

LEMMA DeletedType ==
    ASSUME TypeOK, NEW r \in Runs
    PROVE  /\ Deleted(r) \in [Runs -> RunRow]
           /\ Deleted(r)[r].status = "gone"
           /\ \A s \in Runs \ {r} : Deleted(r)[s] = run[s]
BY NewRowType DEF Deleted, TypeOK

\* A step that leaves every row alone or deletes it.
LEMMA DeletionsKeep ==
    ASSUME IInv, TypeOK', UNCHANGED owed,
           \A q \in Requests : request'[q] \in {request[q], Idle},
           \A r \in Runs : run'[r] = run[r] \/ (run'[r].status = "gone" /\ RowMoves(r))
    PROVE  IInv'
<1>1. \A r \in Runs : RowMoves(r)
  BY DEF RowMoves
<1>2. NewRunsHaveTheirWindow'
  BY DEF IInv, NewRunsHaveTheirWindow, Exists, Status
<1> QED BY <1>1, <1>2, RequestsKept DEF IInv

LEMMA CreateCommitStep ==
    ASSUME IInv, NEW q \in Requests, CreateCommit(q)
    PROVE  IInv'
<1> DEFINE r == request[q].run
<1>1. r \in Runs /\ Status(r) = "absent" /\ request[q].op = "create"
  BY RequestType DEF CreateCommit, IInv, CreatesAreAlone
<1>2. request' = [request EXCEPT ![q] = Idle]
  BY DEF CreateCommit
<1>3. request'[q] = Idle /\ \A p \in Requests \ {q} : request'[p] = request[p]
  BY <1>2 DEF IInv, TypeOK
<1>4. RowMoves(r)
  <2>1. ASSUME NEW p \in Requests, request'[p].op \in {"create", "submit", "discard"}
        PROVE  request'[p].run # r
    <3>1. p # q /\ request'[p] = request[p]
      BY <1>3, <2>1 DEF Idle
    <3>2. CASE request[p].op = "create"
      BY <1>1, <3>1, <3>2 DEF IInv, CreatesAreAlone
    <3>3. CASE request[p].op # "create"
      BY <1>1, <2>1, <3>1, <3>3 DEF IInv, DraftsHaveASource
    <3> QED BY <3>2, <3>3
  <2> QED BY <2>1 DEF RowMoves
<1>5. request' \in [Requests -> RequestState]
  BY <1>2 DEF IInv, TypeOK, RequestState
<1>6. CASE request[q].outcome = "duplicate"
  <2>1. run' = Deleted(r) /\ bytes' = [bytes EXCEPT ![r] = NoFile] /\ UNCHANGED <<layout, owed>>
    BY <1>6 DEF CreateCommit
  <2>2. TypeOK'
    BY <1>1, <1>5, <2>1, DeletedType DEF IInv, TypeOK, Files
  <2>3. \A s \in Runs : run'[s] = run[s] \/ (run'[s].status = "gone" /\ RowMoves(s))
    BY <1>1, <1>4, <2>1, DeletedType DEF IInv
  <2> QED BY <1>3, <2>1, <2>2, <2>3, DeletionsKeep
<1>7. CASE request[q].outcome # "duplicate"
  <2> DEFINE row == [Submitted(run[r], request[q], Window("queued"))
                        EXCEPT !.files = request[q].files]
  <2>1. /\ run' = [run EXCEPT ![r] = row] /\ owed' = [owed EXCEPT ![r] = RunDays]
        /\ UNCHANGED <<layout, bytes>>
    BY <1>7 DEF CreateCommit
  <2>2. /\ Submitted(run[r], request[q], Window("queued")) \in RunRow
        /\ Submitted(run[r], request[q], Window("queued")).status # "draft"
        /\ Submitted(run[r], request[q], Window("queued")).expires = RunDays
    BY <1>1, <1>7, RequestType, SubmittedType, WindowType DEF IInv, TypeOK
  <2>3. request[q].files \in Contents
    BY <1>1, RequestType DEF IInv
  <2>4. row \in RunRow /\ row.status # "draft" /\ row.expires = RunDays
    BY <2>2, <2>3 DEF RunRow, Files
  <2> HIDE DEF row
  <2>5. \A s \in Runs : run'[s] = IF s = r THEN row ELSE run[s]
    BY <2>1 DEF IInv, TypeOK
  <2>6. \A s \in Runs : owed'[s] = IF s = r THEN RunDays ELSE owed[s]
    BY <2>1 DEF IInv, TypeOK
  <2>7. TypeOK'
    BY <1>1, <1>5, <2>1, <2>4, DaysAssumption DEF IInv, TypeOK
  <2>8. NewRunsHaveTheirWindow'
    BY <2>4, <2>5, <2>6, DaysAssumption DEF IInv, NewRunsHaveTheirWindow, Exists, Status
  <2>9. \A s \in Runs : RowMoves(s)
    BY <1>4, <2>5 DEF RowMoves
  <2> QED BY <1>3, <2>7, <2>8, <2>9, RequestsKept DEF IInv
<1> QED BY <1>6, <1>7

LEMMA SubmitCommitStep ==
    ASSUME IInv, NEW q \in Requests, SubmitCommit(q)
    PROVE  IInv'
<1> DEFINE r == request[q].run
<1>1. r \in Runs /\ request[q].op = "submit" /\ (Exists(r) => run[r].source # NoRun)
  BY RequestType DEF SubmitCommit, IInv, DraftsHaveASource
<1>2. request' = [request EXCEPT ![q] = Idle] /\ UNCHANGED <<layout, bytes>>
  BY DEF SubmitCommit
<1>3. \A p \in Requests : request'[p] \in {request[p], Idle}
  BY <1>2 DEF IInv, TypeOK
<1>4. request' \in [Requests -> RequestState]
  BY <1>2 DEF IInv, TypeOK, RequestState
<1>5. CASE request[q].outcome = "duplicate" \/ ~Exists(r)
  <2>1. UNCHANGED <<run, owed>>
    BY <1>5 DEF SubmitCommit
  <2>2. TypeOK'
    BY <1>2, <1>4, <2>1 DEF IInv, TypeOK
  <2> QED BY <1>3, <2>1, <2>2, DeletionsKeep
<1>6. CASE request[q].outcome # "duplicate" /\ Exists(r)
  <2> DEFINE row == Submitted(run[r], request[q], Window("draft"))
  <2>1. run' = [run EXCEPT ![r] = row] /\ owed' = [owed EXCEPT ![r] = RunDays]
    BY <1>6 DEF SubmitCommit
  <2>2. row \in RunRow /\ row.status \in {"held", "queued"} /\ row.source = run[r].source
    BY <1>1, <1>6, RequestType, SubmittedType, WindowType DEF IInv, TypeOK
  <2> HIDE DEF row
  <2>3. \A s \in Runs : run'[s] = IF s = r THEN row ELSE run[s]
    BY <2>1 DEF IInv, TypeOK
  <2>4. \A s \in Runs : owed'[s] = IF s = r THEN RunDays ELSE owed[s]
    BY <2>1 DEF IInv, TypeOK
  <2>5. TypeOK'
    BY <1>1, <1>2, <1>4, <2>1, <2>2, DaysAssumption DEF IInv, TypeOK
  <2>6. NewRunsHaveTheirWindow'
    BY <1>1, <1>6, <2>2, <2>3, <2>4 DEF IInv, NewRunsHaveTheirWindow, Exists, Status
  <2>7. \A s \in Runs : RowMoves(s)
    BY <1>6, <2>2, <2>3 DEF RowMoves, Exists
  <2> QED BY <1>3, <2>5, <2>6, <2>7, RequestsKept DEF IInv
<1> QED BY <1>5, <1>6

LEMMA DiscardCommitStep ==
    ASSUME IInv, NEW q \in Requests, DiscardCommit(q)
    PROVE  IInv'
<1> DEFINE r == request[q].run
<1>1. r \in Runs /\ Status(r) # "absent"
  BY RequestType DEF DiscardCommit, IInv, DraftsHaveASource
<1>2. /\ request' = [request EXCEPT ![q] = Idle] /\ UNCHANGED <<layout, owed>>
      /\ bytes' = [bytes EXCEPT ![r] = NoFile]
      /\ run' \in {run, Deleted(r)}
  BY DEF DiscardCommit
<1>3. \A p \in Requests : request'[p] \in {request[p], Idle}
  BY <1>2 DEF IInv, TypeOK
<1>4. TypeOK'
  BY <1>1, <1>2, DeletedType DEF IInv, TypeOK, RequestState, Files
<1>5. \A s \in Runs : run'[s] = run[s] \/ (run'[s].status = "gone" /\ RowMoves(s))
  BY <1>1, <1>2, DeletedType DEF IInv, RowMoves
<1> QED BY <1>2, <1>3, <1>4, <1>5, DeletionsKeep

LEMMA AttachStep ==
    ASSUME IInv, NEW q \in Requests, NEW files \in Files,
           AttachCommit(q, files) \/ AttachRefused(q, files)
    PROVE  IInv'
<1> DEFINE r == request[q].run
<1>1. r \in Runs /\ request[q].op = "attach"
  BY RequestType DEF AttachCommit, AttachRefused, IInv
<1>2. /\ request' = [request EXCEPT ![q] = Idle] /\ UNCHANGED <<layout, owed>>
      /\ bytes' = [bytes EXCEPT ![r] = files]
      /\ run' = run \/ run' = [run EXCEPT ![r].files = files]
  BY DEF AttachCommit, AttachRefused
<1>3. \A p \in Requests : request'[p] \in {request[p], Idle}
  BY <1>2 DEF IInv, TypeOK
<1>4. \A s \in Runs :
        /\ run'[s].status = run[s].status /\ run'[s].source = run[s].source
        /\ run'[s].expires = run[s].expires /\ run'[s] \in RunRow
        /\ s # r => run'[s] = run[s]
  BY <1>1, <1>2 DEF IInv, TypeOK, RunRow
<1>5. TypeOK'
  BY <1>1, <1>2 DEF IInv, TypeOK, RequestState, RunRow
<1>6. NewRunsHaveTheirWindow'
  BY <1>2, <1>4 DEF IInv, NewRunsHaveTheirWindow, Exists, Status
<1>7. CreatesAreAlone' /\ DraftsHaveASource'
  BY <1>1, <1>2, <1>3, <1>4, RequestType
  DEF IInv, CreatesAreAlone, DraftsHaveASource, Exists, Status, Idle
<1> QED BY <1>5, <1>6, <1>7 DEF IInv

-----------------------------------------------------------------------------
(* Steps without a request. *)

\* An unused run is in nobody's hands.
LEMMA UnusedMoves ==
    ASSUME IInv, NEW r \in Runs, Unused(r), UNCHANGED request
    PROVE  RowMoves(r)
<1>1. \A q \in Requests : request[q].op # "none" => request[q].run # r
  BY RequestType DEF IInv, Unused
<1> QED BY <1>1 DEF RowMoves

LEMMA CreateRefusedStep ==
    ASSUME IInv, NEW r \in Runs, NEW files \in Files, CreateRefused(r, files)
    PROVE  IInv'
<1>1. /\ Unused(r) /\ run' = Deleted(r) /\ bytes' = [bytes EXCEPT ![r] = files]
      /\ UNCHANGED <<layout, request, owed>>
  BY DEF CreateRefused
<1>2. TypeOK'
  BY <1>1, DeletedType DEF IInv, TypeOK
<1>3. \A s \in Runs : run'[s] = run[s] \/ (run'[s].status = "gone" /\ RowMoves(s))
  BY <1>1, DeletedType, UnusedMoves DEF IInv
<1> QED BY <1>1, <1>2, <1>3, DeletionsKeep

LEMMA CloneStep ==
    ASSUME IInv, NEW r \in Runs, NEW source \in Runs, Clone(r, source)
    PROVE  IInv'
<1> DEFINE row == [run[r] EXCEPT !.status = "draft", !.source = source,
                                 !.expires = Window("draft")]
<1>1. Unused(r) /\ run' = [run EXCEPT ![r] = row] /\ UNCHANGED <<layout, bytes, request, owed>>
  BY DEF Clone
<1>2. row \in RunRow /\ row.source = source
  BY WindowType DEF IInv, TypeOK, RunRow, Statuses
<1> HIDE DEF row
<1>3. \A s \in Runs : run'[s] = IF s = r THEN row ELSE run[s]
  BY <1>1 DEF IInv, TypeOK
<1>4. TypeOK'
  BY <1>1, <1>2 DEF IInv, TypeOK
<1>5. NewRunsHaveTheirWindow'
  BY <1>1, <1>2, <1>3, NamesAssumption DEF IInv, NewRunsHaveTheirWindow, Exists, Status
<1>6. \A s \in Runs : RowMoves(s)
  BY <1>1, <1>3, UnusedMoves DEF RowMoves
<1> QED BY <1>1, <1>4, <1>5, <1>6, RequestsKept DEF IInv

\* A run that exists changes its status to another that is neither draft nor gone.
LEMMA StatusStep ==
    ASSUME IInv, NEW r \in Runs, Exists(r), NEW row \in RunRow,
           row.status \in Statuses \ {"absent", "draft", "gone"},
           row.source = run[r].source, row.expires = run[r].expires,
           run' = [run EXCEPT ![r] = row], layout' \in Runs \cup {NoRun},
           UNCHANGED <<bytes, request, owed>>
    PROVE  IInv'
<1>1. \A s \in Runs : run'[s] = IF s = r THEN row ELSE run[s]
  BY DEF IInv, TypeOK
<1>2. TypeOK'
  BY DEF IInv, TypeOK
<1>3. NewRunsHaveTheirWindow'
  BY <1>1 DEF IInv, NewRunsHaveTheirWindow, Exists, Status
<1>4. \A s \in Runs : RowMoves(s)
  BY <1>1 DEF RowMoves, Exists
<1> QED BY <1>2, <1>3, <1>4, RequestsKept DEF IInv

LEMMA MoveStep ==
    ASSUME IInv, NEW r \in Runs, NEW status \in Statuses, Move(r, status)
    PROVE  IInv'
<1> DEFINE row == [run[r] EXCEPT !.status = status,
                                 !.hasFailed = run[r].hasFailed \/ status = "failed"]
<1>1. /\ run' = [run EXCEPT ![r] = row] /\ UNCHANGED <<layout, bytes, request, owed>>
      /\ Status(r) \in {"held", "queued", "active", "failed"}
      /\ status \in {"queued", "active", "failed"}
  BY DEF Move, Moves
<1>2. /\ row \in RunRow /\ row.status = status /\ row.source = run[r].source
      /\ row.expires = run[r].expires
  BY DEF IInv, TypeOK, RunRow
<1> HIDE DEF row
<1>3. Exists(r) /\ layout \in Runs \cup {NoRun}
  BY <1>1 DEF Exists, IInv, TypeOK
<1> QED BY <1>1, <1>2, <1>3, StatusStep

LEMMA FinalizeStep ==
    ASSUME IInv, NEW r \in Runs, Finalize(r)
    PROVE  IInv'
<1> DEFINE row == [run[r] EXCEPT !.status = "finalized"]
<1>1. /\ run' = [run EXCEPT ![r] = row] /\ UNCHANGED <<bytes, request, owed>>
      /\ Exists(r) /\ layout' \in Runs \cup {NoRun}
  BY DEF Finalize, IInv, TypeOK, Exists
<1>2. /\ row \in RunRow /\ row.status = "finalized" /\ row.source = run[r].source
      /\ row.expires = run[r].expires /\ "finalized" \in Statuses
  BY DEF IInv, TypeOK, RunRow, Statuses
<1> HIDE DEF row
<1> QED BY <1>1, <1>2, StatusStep

LEMMA PurgeStep ==
    ASSUME IInv, Purge
    PROVE  IInv'
<1>1. \A r \in Runs : run'[r] = IF Expired(r) THEN [NewRow EXCEPT !.status = "gone"] ELSE run[r]
  BY DEF Purge
<1>2. TypeOK'
  BY NewRowType DEF Purge, IInv, TypeOK, Files
<1>3. \A r \in Runs : run'[r] = run[r] \/ (run'[r].status = "gone" /\ RowMoves(r))
  BY <1>1, NewRowType DEF RowMoves, Expired, Exists
<1>4. UNCHANGED <<request, owed>>
  BY DEF Purge
<1> QED BY <1>2, <1>3, <1>4, DeletionsKeep

LEMMA PurgeFailsStep ==
    ASSUME IInv, NEW r \in Runs, PurgeFails(r)
    PROVE  IInv'
<1>1. TypeOK' /\ UNCHANGED <<run, request, owed>>
  BY DEF PurgeFails, IInv, TypeOK, Files
<1> QED BY <1>1, DeletionsKeep

LEMMA TickStep ==
    ASSUME IInv, Tick
    PROVE  IInv'
<1>1. /\ run' = [r \in Runs |-> [run[r] EXCEPT !.expires = Less(@)]]
      /\ owed' = [r \in Runs |-> Less(owed[r])]
      /\ UNCHANGED <<layout, bytes, request>>
  BY DEF Tick
<1>2. ASSUME NEW r \in Runs
      PROVE  /\ run'[r].status = run[r].status /\ run'[r].source = run[r].source
             /\ run'[r].expires = Less(run[r].expires) /\ run'[r] \in RunRow
             /\ owed'[r] = Less(owed[r]) /\ owed'[r] \in 0 .. RunDays
             /\ owed[r] <= run[r].expires => owed'[r] <= run'[r].expires
  <2>1. run[r] \in RunRow /\ run[r].expires \in Nat /\ owed[r] \in 0 .. RunDays
    BY DEF IInv, TypeOK, RunRow
  <2>2. Less(run[r].expires) \in Nat
    BY <2>1, LessType
  <2>3. /\ run'[r].status = run[r].status /\ run'[r].source = run[r].source
        /\ run'[r].expires = Less(run[r].expires) /\ run'[r] \in RunRow
    BY <1>1, <2>1, <2>2 DEF RunRow
  <2>4. owed'[r] = Less(owed[r]) /\ owed'[r] \in 0 .. RunDays
    BY <1>1, <2>1, LessType, DaysAssumption
  <2>5. owed[r] <= run[r].expires => owed'[r] <= run'[r].expires
    BY <2>1, <2>3, <2>4, LessType, DaysAssumption
  <2> QED BY <2>3, <2>4, <2>5
<1>3. TypeOK'
  <2>1. run' \in [Runs -> RunRow]
    BY <1>1, <1>2
  <2>2. owed' \in [Runs -> 0 .. RunDays]
    BY <1>1, <1>2
  <2> QED BY <1>1, <2>1, <2>2 DEF IInv, TypeOK
<1>4. NewRunsHaveTheirWindow'
  BY <1>2 DEF IInv, NewRunsHaveTheirWindow, Exists, Status
<1>5. CreatesAreAlone' /\ DraftsHaveASource'
  BY <1>1, <1>2, RequestType
  DEF IInv, CreatesAreAlone, DraftsHaveASource, Exists, Status, Idle
<1> QED BY <1>3, <1>4, <1>5 DEF IInv

-----------------------------------------------------------------------------
LEMMA NextStep ==
    ASSUME IInv, [Next]_vars
    PROVE  IInv'
<1>1. CASE UNCHANGED vars
  BY <1>1 DEF vars, IInv, TypeOK, NewRunsHaveTheirWindow, CreatesAreAlone, DraftsHaveASource,
              Exists, Status
<1>2. ASSUME NEW q \in Requests, Read(q) PROVE IInv'
  BY <1>2, ReadStep
<1>3. ASSUME NEW q \in Requests, Commit(q) PROVE IInv'
  BY <1>3, CreateCommitStep, SubmitCommitStep, DiscardCommitStep, AttachStep DEF Commit, Files
<1>4. ASSUME NEW q \in Requests, NEW files \in Files, AttachRefused(q, files) PROVE IInv'
  BY <1>4, AttachStep
<1>5. ASSUME NEW r \in Runs, \E files \in Files : CreateRefused(r, files) PROVE IInv'
  BY <1>5, CreateRefusedStep
<1>6. ASSUME NEW r \in Runs, \E source \in Runs : Clone(r, source) PROVE IInv'
  BY <1>6, CloneStep
<1>7. ASSUME NEW r \in Runs, \E status \in Statuses : Move(r, status) PROVE IInv'
  BY <1>7, MoveStep
<1>8. ASSUME NEW r \in Runs, Finalize(r) \/ PurgeFails(r) PROVE IInv'
  BY <1>8, FinalizeStep, PurgeFailsStep
<1> QED BY <1>1, <1>2, <1>3, <1>4, <1>5, <1>6, <1>7, <1>8, PurgeStep, TickStep DEF Next

\* The invariant the theorems below follow from: rows keep the window they were given,
\* and requests work on rows of the kind they read.
THEOREM Invariance == Spec => []IInv
<1>1. IInv /\ [Next]_vars => IInv'
  BY NextStep
<1> QED BY <1>1, InitIInv, PTL DEF Spec

\* The tables and what requests remember of them hold values of their types; above all,
\* every run has a day on which it expires.
THEOREM TypeCorrect == Spec => []TypeOK
<1>1. IInv => TypeOK
  BY DEF IInv
<1> QED BY <1>1, Invariance, PTL

-----------------------------------------------------------------------------
(* A run that never was a draft is kept for the whole retention window. *)

LEMMA KeptStep ==
    ASSUME IInv, [Next]_vars, NEW r \in Runs, owed[r] > 0, Exists(r), run[r].source = NoRun
    PROVE  run'[r].status # "gone"
<1>1. ~Expired(r)
  BY DaysAssumption DEF IInv, NewRunsHaveTheirWindow, Expired, TypeOK, RunRow
<1>2. Status(r) \notin {"absent", "gone"}
  BY DEF Exists
<1>3. CASE UNCHANGED vars
  BY <1>2, <1>3 DEF vars, Status
<1>4. ASSUME NEW q \in Requests, Read(q) PROVE run'[r].status # "gone"
  <2>1. UNCHANGED run
    BY <1>4 DEF Read, SubmitRead, CreateRead, AttachRead, DiscardRead
  <2> QED BY <1>2, <2>1 DEF Status
<1>5. ASSUME NEW q \in Requests, CreateCommit(q) PROVE run'[r].status # "gone"
  <2>1. request[q].run \in Runs /\ request[q].run # r
    BY <1>2, <1>5, RequestType DEF CreateCommit, IInv, CreatesAreAlone
  <2>2. run'[r] = run[r]
    BY <1>5, <2>1, DeletedType DEF CreateCommit, IInv, TypeOK
  <2> QED BY <1>2, <2>2 DEF Status
<1>6. ASSUME NEW q \in Requests, SubmitCommit(q) \/ DiscardCommit(q)
      PROVE  run'[r].status # "gone"
  <2>1. request[q].run \in Runs /\ request[q].run # r
    BY <1>6, RequestType DEF SubmitCommit, DiscardCommit, IInv, DraftsHaveASource
  <2>2. run'[r] = run[r]
    BY <1>6, <2>1, DeletedType DEF SubmitCommit, DiscardCommit, IInv, TypeOK
  <2> QED BY <1>2, <2>2 DEF Status
<1>7. ASSUME NEW q \in Requests, NEW files \in Files,
             AttachCommit(q, files) \/ AttachRefused(q, files)
      PROVE  run'[r].status # "gone"
  <2>1. run'[r].status = run[r].status
    BY <1>7 DEF AttachCommit, AttachRefused, IInv, TypeOK, RunRow
  <2> QED BY <1>2, <2>1 DEF Status
<1>8. ASSUME NEW s \in Runs,
             \/ \E files \in Files : CreateRefused(s, files)
             \/ \E source \in Runs : Clone(s, source)
      PROVE  run'[r].status # "gone"
  <2>1. s # r
    BY <1>2, <1>8 DEF CreateRefused, Clone, Unused
  <2>2. CASE \E files \in Files : CreateRefused(s, files)
    <3>1. run' = Deleted(s)
      BY <2>2 DEF CreateRefused
    <3>2. run'[r] = run[r]
      BY <2>1, <3>1, DeletedType DEF IInv
    <3> QED BY <1>2, <3>2 DEF Status
  <2>3. CASE \E source \in Runs : Clone(s, source)
    <3>1. run'[r] = run[r]
      BY <2>1, <2>3 DEF Clone, IInv, TypeOK
    <3> QED BY <1>2, <3>1 DEF Status
  <2> QED BY <1>8, <2>2, <2>3
<1>9. ASSUME NEW s \in Runs, NEW status \in Statuses, Move(s, status)
      PROVE  run'[r].status # "gone"
  <2>1. run'[r].status = run[r].status \/ run'[r].status = status
    BY <1>9 DEF Move, IInv, TypeOK, RunRow
  <2>2. status # "gone"
    BY <1>9 DEF Move, Moves
  <2> QED BY <1>2, <2>1, <2>2 DEF Status
<1>10. ASSUME NEW s \in Runs, Finalize(s) \/ PurgeFails(s) PROVE run'[r].status # "gone"
  <2>1. run'[r].status \in {run[r].status, "finalized"}
    BY <1>10 DEF Finalize, PurgeFails, IInv, TypeOK, RunRow
  <2> QED BY <1>2, <2>1 DEF Status
<1>11. CASE Purge
  BY <1>1, <1>2, <1>11 DEF Purge, Status
<1>12. CASE Tick
  <2>1. run'[r].status = run[r].status
    BY <1>12 DEF Tick, IInv, TypeOK, RunRow
  <2> QED BY <1>2, <2>1 DEF Status
<1> QED BY <1>3, <1>4, <1>5, <1>6, <1>7, <1>8, <1>9, <1>10, <1>11, <1>12 DEF Next, Commit, Files

\* A run that was submitted without having been a draft is not deleted before its
\* retention window has passed, whatever requests and sweeps do meanwhile.
THEOREM NewRunsAreKept == Spec => NewRunIsKept
<1>1. IInv /\ [Next]_vars =>
        [\A r \in Runs :
           owed[r] > 0 /\ Exists(r) /\ run[r].source = NoRun => run'[r].status # "gone"]_vars
  BY KeptStep
<1> QED BY <1>1, Invariance, PTL DEF Spec, NewRunIsKept

-----------------------------------------------------------------------------
(* A question costs a draft nothing. *)

\* Only its commit ends a submission.
LEMMA OnlyCommitEnds ==
    ASSUME IInv, [Next]_vars, NEW q \in Requests,
           request[q] # Idle, request[q].op = "submit", request'[q] = Idle
    PROVE  SubmitCommit(q)
<1>1. request[q].op # "none" /\ request \in [Requests -> RequestState]
  BY DEF IInv, TypeOK
<1>2. CASE UNCHANGED vars
  BY <1>2 DEF vars
<1>3. ASSUME NEW p \in Requests, Read(p) PROVE FALSE
  <2>1. p # q
    BY <1>3 DEF Read, SubmitRead, CreateRead, AttachRead, DiscardRead
  <2>2. request'[q] = request[q]
    BY <1>1, <1>3, <2>1 DEF Read, SubmitRead, CreateRead, AttachRead, DiscardRead
  <2> QED BY <2>2
<1>4. ASSUME NEW p \in Requests, p # q, Commit(p) PROVE FALSE
  BY <1>1, <1>4 DEF Commit, CreateCommit, SubmitCommit, DiscardCommit, AttachCommit
<1>5. ASSUME NEW p \in Requests, NEW files \in Files, AttachRefused(p, files) PROVE FALSE
  <2>1. p # q
    BY <1>5 DEF AttachRefused
  <2> QED BY <1>1, <1>5, <2>1 DEF AttachRefused
<1>6. ASSUME UNCHANGED request PROVE FALSE
  BY <1>6
<1>7. Commit(q) => SubmitCommit(q)
  BY DEF Commit, CreateCommit, DiscardCommit, AttachCommit
<1> QED
  BY <1>2, <1>3, <1>4, <1>5, <1>6, <1>7
  DEF Next, CreateRefused, Clone, Move, Finalize, Purge, PurgeFails, Tick

\* A draft whose submission ends, with a question or without, is still there with its
\* files, whatever other requests were open.
THEOREM DraftsSurviveQuestions == Spec => DraftSurvivesQuestion
<1>1. ASSUME IInv, [Next]_vars, NEW q \in Requests,
             request[q] # Idle, request[q].op = "submit", request'[q] = Idle,
             Exists(request[q].run)
      PROVE  run'[request[q].run].status # "gone" /\ bytes'[request[q].run] = bytes[request[q].run]
  <2> DEFINE r == request[q].run
  <2>1. SubmitCommit(q) /\ r \in Runs
    BY <1>1, OnlyCommitEnds, RequestType DEF IInv
  <2>2. UNCHANGED bytes
    BY <2>1 DEF SubmitCommit
  <2>3. CASE request[q].outcome = "duplicate"
    BY <1>1, <2>1, <2>2, <2>3 DEF SubmitCommit, Exists, Status
  <2>4. CASE request[q].outcome # "duplicate"
    <3>1. run'[r] = Submitted(run[r], request[q], Window("draft"))
      BY <1>1, <2>1, <2>4 DEF SubmitCommit, IInv, TypeOK
    <3>2. run'[r].status \in {"held", "queued"}
      BY <1>1, <2>1, <2>4, <3>1, RequestType, SubmittedType, WindowType DEF IInv, TypeOK
    <3> QED BY <2>2, <3>2
  <2> QED BY <2>3, <2>4
<1>2. IInv /\ [Next]_vars =>
        [\A q \in Requests :
           request[q] # Idle /\ request[q].op = "submit" /\ request'[q] = Idle =>
              LET r == request[q].run IN
              Exists(r) => run'[r].status # "gone" /\ bytes'[r] = bytes[r]]_vars
  BY <1>1
<1> QED BY <1>2, Invariance, PTL DEF Spec, DraftSurvivesQuestion

-----------------------------------------------------------------------------
(* Twins.  With nobody committing between a request's reads and its commit, one     *)
(* request is open at a time, and what its duplicate check found still stands when  *)
(* it commits.  A run that comes back from a failure was counted by nobody's check  *)
(* meanwhile, which its history excuses.                                            *)

OneRequest == \A p, q \in Requests : request[p] # Idle /\ request[q] # Idle => p = q

\* Every run that is failed has failed.
FailuresAreRemembered == \A r \in Runs : Status(r) = "failed" => run[r].hasFailed

\* An open submission that was let through has a reason or is no duplicate.
AnswersStand ==
    \A q \in Requests :
        request[q].op \in {"create", "submit"} /\ request[q].outcome # "duplicate" =>
            request[q].explained \/ ~Duplicate(request[q].run, request[q].files)

TwinsIInv == /\ IInv /\ OneRequest /\ FailuresAreRemembered /\ AnswersStand
             /\ TwinsAreExplained

LEMMA InitTwins == Init => TwinsIInv
<1> SUFFICES ASSUME Init PROVE TwinsIInv
  OBVIOUS
<1>1. \A r \in Runs : ~Exists(r) /\ Status(r) # "failed"
  BY NewRowType DEF Init, Exists, Status
<1>2. \A q \in Requests : request[q] = Idle /\ request[q].op = "none"
  BY DEF Init, Idle
<1> QED
  BY <1>1, <1>2, InitIInv
  DEF TwinsIInv, OneRequest, FailuresAreRemembered, AnswersStand, TwinsAreExplained, Counted

\* What a step may do to a row that the others were compared with: take it out of the
\* count, bring it back from a failure, or leave what the count looks at.
RowStands(r) ==
    /\ run'[r].status = "failed" => run'[r].hasFailed
    /\ \/ run'[r].status \in {"absent", "gone", "failed", "draft"}
       \/ run'[r].hasFailed
       \/ /\ Counted(r)
          /\ run'[r].print = run[r].print /\ run'[r].explained = run[r].explained
          /\ run'[r].hasFailed = run[r].hasFailed

LEMMA StandingKept ==
    ASSUME TwinsIInv, \A r \in Runs : RowStands(r)
    PROVE  FailuresAreRemembered' /\ TwinsAreExplained'
<1>1. FailuresAreRemembered'
  BY DEF RowStands, FailuresAreRemembered, Status
<1>2. ASSUME NEW r \in Runs, NEW s \in Runs, r # s, Counted(r)', Counted(s)',
             run'[r].print = run'[s].print,
             ~run'[r].hasFailed, ~run'[s].hasFailed
      PROVE  run'[r].explained \/ run'[s].explained
  <2>1. ASSUME NEW t \in {r, s}
        PROVE  /\ Counted(t) /\ run'[t].print = run[t].print
               /\ run'[t].explained = run[t].explained
               /\ run'[t].hasFailed = run[t].hasFailed
    BY <1>2, <2>1 DEF RowStands, Counted, Exists, Status
  <2> QED BY <1>2, <2>1 DEF TwinsIInv, TwinsAreExplained
<1> QED BY <1>1, <1>2 DEF TwinsAreExplained

\* A step that leaves a row alone lets it stand.
LEMMA SameRowStands ==
    ASSUME TwinsIInv, NEW r \in Runs, run'[r] = run[r]
    PROVE  RowStands(r)
BY DEF TwinsIInv, FailuresAreRemembered, RowStands, Counted, Exists, Status

\* A request that reads is alone, and what it answers is what its check found.
LEMMA TwinsRead ==
    ASSUME TwinsIInv, IInv', Serial, NEW q \in Requests, Read(q)
    PROVE  TwinsIInv'
<1>1. request[q] = Idle /\ UNCHANGED run
  BY DEF Read, CreateRead, SubmitRead, AttachRead, DiscardRead
<1>2. PICK new : request' = [request EXCEPT ![q] = new]
  BY DEF Read, CreateRead, SubmitRead, AttachRead, DiscardRead
<1>3. \A p \in Requests : request'[p] = IF p = q THEN new ELSE request[p]
  BY <1>2 DEF TwinsIInv, IInv, TypeOK
<1>4. \A p \in Requests \ {q} : request'[p] = Idle
  BY <1>3 DEF Serial
<1>5. OneRequest'
  BY <1>4 DEF OneRequest
<1>6. AnswersStand'
  <2>1. ASSUME new.op \in {"create", "submit"}, new.outcome # "duplicate"
        PROVE  new.explained \/ ~Duplicate(new.run, new.files)
    <3>1. new = request'[q]
      BY <1>3
    <3>2. ASSUME NEW r \in Runs, NEW explained \in BOOLEAN, NEW files \in Contents,
                 CreateRead(q, r, files, explained)
          PROVE  new.explained \/ ~Duplicate(new.run, new.files)
      <4>1. PICK outcome \in Outcomes(r, files, explained) :
              request' = [request EXCEPT ![q] = [op |-> "create", run |-> r, files |-> files,
                                                 explained |-> explained, outcome |-> outcome]]
        BY <3>2 DEF CreateRead
      <4>2. new = [op |-> "create", run |-> r, files |-> files, explained |-> explained,
                   outcome |-> outcome]
        BY <3>1, <4>1 DEF TwinsIInv, IInv, TypeOK
      <4> QED BY <2>1, <4>1, <4>2 DEF Outcomes
    <3>3. ASSUME NEW r \in Runs, NEW explained \in BOOLEAN, SubmitRead(q, r, explained)
          PROVE  new.explained \/ ~Duplicate(new.run, new.files)
      <4>1. PICK outcome \in Outcomes(r, run[r].files, explained) :
              request' = [request EXCEPT ![q] = [op |-> "submit", run |-> r,
                             files |-> run[r].files, explained |-> explained,
                             outcome |-> outcome]]
        BY <3>3 DEF SubmitRead
      <4>2. new = [op |-> "submit", run |-> r, files |-> run[r].files,
                   explained |-> explained, outcome |-> outcome]
        BY <3>1, <4>1 DEF TwinsIInv, IInv, TypeOK
      <4> QED BY <2>1, <4>1, <4>2 DEF Outcomes
    <3>4. ASSUME NEW r \in Runs, AttachRead(q, r) \/ DiscardRead(q, r)
          PROVE  FALSE
      <4>1. PICK op \in {"attach", "discard"} :
              request' = [request EXCEPT ![q] = [op |-> op, run |-> r]]
        BY <3>4 DEF AttachRead, DiscardRead
      <4>2. new = [op |-> op, run |-> r]
        BY <3>1, <4>1 DEF TwinsIInv, IInv, TypeOK
      <4> QED BY <2>1, <4>1, <4>2
    <3> QED BY <3>2, <3>3, <3>4 DEF Read
  <2>2. \A r, files : Duplicate(r, files)' <=> Duplicate(r, files)
    BY <1>1 DEF Duplicate, Exists, Status
  <2>3. \A p \in Requests \ {q} : request'[p].op = "none"
    BY <1>4 DEF Idle
  <2> QED BY <1>3, <2>1, <2>2, <2>3 DEF AnswersStand
<1>7. FailuresAreRemembered' /\ TwinsAreExplained'
  BY <1>1, SameRowStands, StandingKept
<1> QED BY <1>5, <1>6, <1>7 DEF TwinsIInv

\* A step after which nobody asks leaves no answer to be overtaken.
LEMMA NobodyAsks ==
    ASSUME \A q \in Requests : request'[q] = Idle
    PROVE  OneRequest' /\ AnswersStand'
BY DEF OneRequest, AnswersStand, Idle

\* A commit, an artifact that is refused, or a step that no request takes: with one
\* request at a time, nobody asks afterwards.
LEMMA NobodyIsLeft ==
    ASSUME TwinsIInv, Serial, NEW q \in Requests,
           request' = [request EXCEPT ![q] = Idle] \/ request' = request
    PROVE  \A p \in Requests : request'[p] = Idle
BY DEF TwinsIInv, IInv, TypeOK, Serial

\* What a submission that was let through becomes.
LEMMA Enters ==
    ASSUME TwinsIInv, NEW q \in Requests, request[q].op \in {"create", "submit"},
           request[q].outcome # "duplicate", NEW row \in RunRow,
           row.status \in {"held", "queued"}, row.print = request[q].files,
           row.explained = request[q].explained,
           run' = [run EXCEPT ![request[q].run] = row]
    PROVE  FailuresAreRemembered' /\ TwinsAreExplained'
<1> DEFINE r == request[q].run
<1>1. r \in Runs /\ request[q].explained \in BOOLEAN
  BY RequestType DEF TwinsIInv, IInv
<1>2. \A s \in Runs : run'[s] = IF s = r THEN row ELSE run[s]
  BY <1>1 DEF TwinsIInv, IInv, TypeOK
<1>3. FailuresAreRemembered'
  BY <1>2 DEF TwinsIInv, FailuresAreRemembered, Status
<1>4. ASSUME NEW s \in Runs \ {r}, Counted(s), run[s].print = row.print
      PROVE  row.explained
  BY <1>4 DEF TwinsIInv, AnswersStand, Duplicate, Counted
<1>5. \A s \in Runs \ {r} : Counted(s)' <=> Counted(s)
  BY <1>2 DEF Counted, Exists, Status
<1> QED BY <1>2, <1>3, <1>4, <1>5 DEF TwinsIInv, TwinsAreExplained

LEMMA TwinsCommit ==
    ASSUME TwinsIInv, IInv', Serial, NEW q \in Requests,
           \/ Commit(q)
           \/ \E files \in Files : AttachRefused(q, files)
    PROVE  TwinsIInv'
<1> DEFINE r == request[q].run
<1>1. request' = [request EXCEPT ![q] = Idle] /\ request[q].op # "none"
  BY DEF Commit, CreateCommit, SubmitCommit, DiscardCommit, AttachCommit, AttachRefused
<1>2. OneRequest' /\ AnswersStand'
  BY <1>1, NobodyIsLeft, NobodyAsks
<1>3. r \in Runs
  BY <1>1, RequestType DEF TwinsIInv, IInv
<1>4. CASE run' = run \/ run' = Deleted(r)
  <2>1. \A s \in Runs : run'[s] = run[s] \/ run'[s].status = "gone"
    BY <1>3, <1>4, DeletedType DEF TwinsIInv, IInv
  <2>2. \A s \in Runs : RowStands(s)
    BY <2>1, SameRowStands DEF RowStands
  <2> QED BY <1>2, <2>2, StandingKept DEF TwinsIInv
<1>5. CASE CreateCommit(q) /\ request[q].outcome # "duplicate"
  <2> DEFINE row == [Submitted(run[r], request[q], Window("queued"))
                        EXCEPT !.files = request[q].files]
  <2>1. run' = [run EXCEPT ![r] = row]
    BY <1>5 DEF CreateCommit
  <2>2. request[q].op = "create" /\ request[q].outcome \in {"held", "queued"}
    BY <1>5, RequestType DEF CreateCommit, TwinsIInv, IInv
  <2>3. /\ row.status \in {"held", "queued"} /\ row.print = request[q].files
        /\ row.explained = request[q].explained
        /\ row \in RunRow
    <3>1. /\ run[r] \in RunRow /\ request[q].files \in Contents
          /\ request[q].explained \in BOOLEAN
      BY <1>3, <2>2, RequestType DEF TwinsIInv, IInv, TypeOK
    <3>2. Window("queued") \in Nat /\ Window("draft") \in Nat
      BY WindowType
    <3> QED BY <2>2, <3>1, <3>2 DEF Submitted, RunRow, Files, Statuses
  <2> HIDE DEF row
  <2>4. request[q].op \in {"create", "submit"} /\ request[q].outcome # "duplicate"
    BY <1>5, <2>2
  <2>5. run' = [run EXCEPT ![request[q].run] = row]
    BY <2>1
  <2>6. FailuresAreRemembered' /\ TwinsAreExplained'
    BY <2>3, <2>4, <2>5, Enters
  <2> QED BY <1>2, <2>6 DEF TwinsIInv
<1>6. CASE SubmitCommit(q) /\ request[q].outcome # "duplicate" /\ Exists(r)
  <2> DEFINE row == Submitted(run[r], request[q], Window("draft"))
  <2>1. run' = [run EXCEPT ![r] = row]
    BY <1>6 DEF SubmitCommit
  <2>2. request[q].op = "submit" /\ request[q].outcome \in {"held", "queued"}
    BY <1>6, RequestType DEF SubmitCommit, TwinsIInv, IInv
  <2>3. /\ row.status \in {"held", "queued"} /\ row.print = request[q].files
        /\ row.explained = request[q].explained
        /\ row \in RunRow
    <3>1. /\ run[r] \in RunRow /\ request[q].files \in Contents
          /\ request[q].explained \in BOOLEAN
      BY <1>3, <2>2, RequestType DEF TwinsIInv, IInv, TypeOK
    <3>2. Window("queued") \in Nat /\ Window("draft") \in Nat
      BY WindowType
    <3> QED BY <2>2, <3>1, <3>2 DEF Submitted, RunRow, Files, Statuses
  <2> HIDE DEF row
  <2>4. request[q].op \in {"create", "submit"} /\ request[q].outcome # "duplicate"
    BY <1>6, <2>2
  <2>5. run' = [run EXCEPT ![request[q].run] = row]
    BY <2>1
  <2>6. FailuresAreRemembered' /\ TwinsAreExplained'
    BY <2>3, <2>4, <2>5, Enters
  <2> QED BY <1>2, <2>6 DEF TwinsIInv
<1>7. ASSUME NEW files \in Contents, run' = [run EXCEPT ![r].files = files]
      PROVE  TwinsIInv'
  <2>1. \A s \in Runs : /\ run'[s].status = run[s].status /\ run'[s].print = run[s].print
                        /\ run'[s].explained = run[s].explained
                        /\ run'[s].hasFailed = run[s].hasFailed
    BY <1>3, <1>7 DEF TwinsIInv, IInv, TypeOK, RunRow
  <2>2. \A s \in Runs : RowStands(s)
    BY <2>1 DEF TwinsIInv, FailuresAreRemembered, RowStands, Counted, Exists, Status
  <2> QED BY <1>2, <2>2, StandingKept DEF TwinsIInv
<1>8. \/ run' = run \/ run' = Deleted(r)
      \/ CreateCommit(q) /\ request[q].outcome # "duplicate"
      \/ SubmitCommit(q) /\ request[q].outcome # "duplicate" /\ Exists(r)
      \/ \E files \in Contents : run' = [run EXCEPT ![r].files = files]
  BY DEF Commit, CreateCommit, SubmitCommit, DiscardCommit, AttachCommit, AttachRefused
<1> QED BY <1>4, <1>5, <1>6, <1>7, <1>8

LEMMA TwinsMove ==
    ASSUME TwinsIInv, IInv', Serial, NEW r \in Runs, UNCHANGED request,
           \/ \E files \in Files : CreateRefused(r, files)
           \/ \E source \in Runs : Clone(r, source)
           \/ \E status \in Statuses : Move(r, status)
           \/ Finalize(r)
           \/ PurgeFails(r)
    PROVE  TwinsIInv'
<1>1. OneRequest' /\ AnswersStand'
  <2>1. CASE Requests = {}
    BY <2>1 DEF OneRequest, AnswersStand
  <2>2. CASE Requests # {}
    BY <2>2, NobodyIsLeft, NobodyAsks
  <2> QED BY <2>1, <2>2
<1>2. PICK row : run' = [run EXCEPT ![r] = row] \/ run' = run
  BY DEF CreateRefused, Deleted, Clone, Move, Finalize, PurgeFails
<1>3. \A s \in Runs \ {r} : RowStands(s)
  BY <1>2, SameRowStands DEF TwinsIInv, IInv, TypeOK
<1>4. RowStands(r)
  <2>1. CASE \E files \in Files : CreateRefused(r, files)
    <3>1. run'[r].status = "gone"
      BY <2>1, DeletedType DEF CreateRefused, TwinsIInv, IInv
    <3> QED BY <3>1 DEF RowStands
  <2>2. CASE \E source \in Runs : Clone(r, source)
    <3>1. PICK source \in Runs :
            run' = [run EXCEPT ![r] = [run[r] EXCEPT !.status = "draft", !.source = source,
                                                     !.expires = Window("draft")]]
      BY <2>2 DEF Clone
    <3>2. run[r] \in RunRow /\ run \in [Runs -> RunRow]
      BY DEF TwinsIInv, IInv, TypeOK
    <3>3. run'[r].status = "draft"
      BY <3>1, <3>2 DEF RunRow
    <3> QED BY <3>3 DEF RowStands
  <2>3. ASSUME NEW status \in Statuses, Move(r, status) PROVE RowStands(r)
    <3>1. /\ run'[r].status = status /\ run'[r].print = run[r].print
          /\ run'[r].explained = run[r].explained
          /\ run'[r].hasFailed = (run[r].hasFailed \/ status = "failed")
      BY <2>3 DEF Move, TwinsIInv, IInv, TypeOK, RunRow
    <3>2. run[r].hasFailed \in BOOLEAN
      BY DEF TwinsIInv, IInv, TypeOK, RunRow
    <3>3. Status(r) = "failed" => run[r].hasFailed
      BY DEF TwinsIInv, FailuresAreRemembered
    <3>4. Status(r) \in {"held", "queued", "active", "failed"}
      BY <2>3 DEF Move, Moves
    <3>5. CASE status = "failed" \/ run[r].hasFailed
      BY <3>1, <3>2, <3>5 DEF RowStands
    <3>6. CASE status # "failed" /\ ~run[r].hasFailed
      BY <3>1, <3>2, <3>3, <3>4, <3>6 DEF RowStands, Counted, Exists
    <3> QED BY <3>5, <3>6
  <2>4. CASE Finalize(r)
    <3>1. /\ run'[r].status = "finalized" /\ run'[r].print = run[r].print
          /\ run'[r].explained = run[r].explained /\ run'[r].hasFailed = run[r].hasFailed
      BY <2>4 DEF Finalize, TwinsIInv, IInv, TypeOK, RunRow
    <3> QED BY <2>4, <3>1 DEF Finalize, RowStands, Counted, Exists
  <2>5. CASE PurgeFails(r)
    BY <2>5, SameRowStands DEF PurgeFails
  <2> QED BY <2>1, <2>2, <2>3, <2>4, <2>5
<1> QED BY <1>1, <1>3, <1>4, StandingKept DEF TwinsIInv

\* Time and the sweep change no row that stays, and a row that goes is not counted.
LEMMA TwinsDay ==
    ASSUME TwinsIInv, IInv', Serial, Purge \/ Tick
    PROVE  TwinsIInv'
<1>1. UNCHANGED request
  BY DEF Purge, Tick
<1>2. OneRequest' /\ AnswersStand'
  <2>1. CASE Requests = {}
    BY <2>1 DEF OneRequest, AnswersStand
  <2>2. CASE Requests # {}
    BY <1>1, <2>2, NobodyIsLeft, NobodyAsks
  <2> QED BY <2>1, <2>2
<1>3. ASSUME NEW r \in Runs PROVE RowStands(r)
  <2>1. CASE Purge
    <3>1. run'[r] = run[r] \/ run'[r].status = "gone"
      BY <2>1, NewRowType DEF Purge
    <3> QED BY <3>1, SameRowStands DEF RowStands
  <2>2. CASE Tick
    <3>1. /\ run'[r].status = run[r].status /\ run'[r].print = run[r].print
          /\ run'[r].explained = run[r].explained /\ run'[r].hasFailed = run[r].hasFailed
      BY <2>2 DEF Tick, TwinsIInv, IInv, TypeOK, RunRow
    <3> QED BY <3>1 DEF TwinsIInv, FailuresAreRemembered, RowStands, Counted, Exists, Status
  <2> QED BY <2>1, <2>2
<1> QED BY <1>2, <1>3, StandingKept DEF TwinsIInv

LEMMA TwinsStep ==
    ASSUME TwinsIInv, [Next]_vars, [Serial]_vars
    PROVE  TwinsIInv'
<1>1. IInv'
  BY NextStep DEF TwinsIInv
<1>2. CASE UNCHANGED vars
  BY <1>1, <1>2
  DEF vars, TwinsIInv, OneRequest, FailuresAreRemembered, AnswersStand, TwinsAreExplained,
      Duplicate, Counted, Exists, Status
<1>3. CASE Next /\ Serial
  <2>1. ASSUME NEW q \in Requests, Read(q) PROVE TwinsIInv'
    BY <1>1, <1>3, <2>1, TwinsRead
  <2>2. ASSUME NEW q \in Requests,
               Commit(q) \/ \E files \in Files : AttachRefused(q, files)
        PROVE  TwinsIInv'
    BY <1>1, <1>3, <2>2, TwinsCommit
  <2>3. ASSUME NEW r \in Runs,
               \/ \E files \in Files : CreateRefused(r, files)
               \/ \E source \in Runs : Clone(r, source)
               \/ \E status \in Statuses : Move(r, status)
               \/ Finalize(r)
               \/ PurgeFails(r)
        PROVE  TwinsIInv'
    <3>1. UNCHANGED request
      BY <2>3 DEF CreateRefused, Clone, Move, Finalize, PurgeFails
    <3> QED BY <1>1, <1>3, <2>3, <3>1, TwinsMove
  <2>4. CASE Purge \/ Tick
    BY <1>1, <1>3, <2>4, TwinsDay
  <2> QED BY <1>3, <2>1, <2>2, <2>3, <2>4 DEF Next
<1> QED BY <1>2, <1>3

\* Identical deliveries stand side by side only with a reason or after a failure, for
\* any runs and requests, if nobody commits between a request's reads and its commit.
THEOREM TwinsHaveReasons == Spec /\ [][Serial]_vars => []TwinsAreExplained
<1>1. TwinsIInv /\ [Next]_vars /\ [Serial]_vars => TwinsIInv'
  BY TwinsStep
<1>2. TwinsIInv => TwinsAreExplained
  BY DEF TwinsIInv
<1> QED BY <1>1, <1>2, InitTwins, PTL DEF Spec
=============================================================================
