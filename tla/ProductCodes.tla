---------------------------- MODULE ProductCodes ----------------------------
(***************************************************************************)
(* The product-code catalogue an order is read with (api/routers/admin.py, *)
(* db/repository.py, worker/runner.py): what each code delivers, by scope, *)
(* and what each run keeps of it.  The runs are looked from, so a scope is *)
(* one of theirs or "elsewhere"; a code stands for its spellings.          *)
(***************************************************************************)
EXTENDS FiniteSets, Naturals

CONSTANTS Codes, CodeScopes,
          CodeTerms,   \* what keepers say a code delivers: attribute -> output name
          Keepers,      \* requests that save or delete codes
          CodedRuns,    \* runs that ask for codes
          NoCode,
          MaxSaves

VARIABLES code,     \* product_codes and their members, by code and scope
          saving,   \* each keeper's save: checked, and not yet committed
          raced,    \* pairs of rows whose saves overlapped
          captured, \* what each run kept of the catalogue when it was submitted
          compared, \* the catalogue each run was last executed with
          saves

codesVars == <<code, saving, raced, captured, compared, saves>>

Rows == Codes \X CodeScopes
NotSaving == [step |-> "none"]

CodesInit ==
    /\ code = [k \in Rows |-> NoCode]
    /\ saving = [q \in Keepers |-> NotSaving]
    /\ raced = {}
    /\ captured = [r \in CodedRuns |-> NoCode]
    /\ compared = [r \in CodedRuns |-> NoCode]
    /\ saves = 0

ActiveRows == {k \in Rows : code[k] # NoCode /\ code[k].active}
Disagree(given, other) == \E a \in DOMAIN given \cap DOMAIN other : given[a] # other[a]

\* load_product_codes: of the rows of a code that cover the run, the narrowest.
ScopeRank == [configuration |-> 0, customer |-> 1, programme |-> 2, everywhere |-> 3]
Covering(c) == {k \in ActiveRows : k[1] = c /\ k[2] \in DOMAIN ScopeRank}
Catalogued ==
    [c \in {c \in Codes : Covering(c) # {}} |->
        LET narrowest == CHOOSE k \in Covering(c) :
                            \A l \in Covering(c) : ScopeRank[k[2]] <= ScopeRank[l[2]]
        IN code[narrowest].delivers]

----------------------------------------------------------------------------
(* save_product_code *)

SaveChecked(q, k, active, delivers, others) ==
    /\ saving[q] = NotSaving /\ saves < MaxSaves
    /\ \A l \in others : ~Disagree(delivers, code[l].delivers)
    /\ saving' = [saving EXCEPT ![q] = [step |-> "checked", row |-> k, found |-> code[k] # NoCode,
                                        entry |-> [active |-> active, delivers |-> delivers]]]
    /\ saves' = saves + 1
    /\ UNCHANGED <<code, raced, captured, compared>>

\* Faulty variant: the rows of the same code are passed over, whatever their scope.
SaveOverCode(q, k, active, delivers) ==
    SaveChecked(q, k, active, delivers, {l \in ActiveRows : l[1] # k[1]})

\* Whether it is switched on or off, it must agree with every other row that is on.
SaveProductCode(q, k, active, delivers) == SaveChecked(q, k, active, delivers, ActiveRows \ {k})

Pending(q) == {saving[p].row : p \in {p \in Keepers \ {q} : saving[p].step = "checked"}}

\* A row that came or went since the check refuses the write.
SaveCommitted(q) ==
    /\ saving[q].step = "checked"
    /\ saving' = [saving EXCEPT ![q] = NotSaving]
    /\ LET k == saving[q].row
           refused == saving[q].found # (code[k] # NoCode)
       IN IF refused
          THEN UNCHANGED <<code, raced>>
          ELSE /\ code' = [code EXCEPT ![k] = saving[q].entry]
               /\ raced' = raced \cup {{k, l} : l \in Pending(q)}
    /\ UNCHANGED <<captured, compared, saves>>

\* A save that found the row writes to a row that is no more; one that found none may still
\* write it, and what raced its row has raced it.
DeleteProductCode(k) ==
    /\ code[k] # NoCode
    /\ code' = [code EXCEPT ![k] = NoCode]
    /\ saving' = [q \in Keepers |-> IF saving[q].step = "checked" /\ saving[q].row = k /\ saving[q].found
                                    THEN NotSaving ELSE saving[q]]
    /\ raced' = {pair \in raced : k \in pair => \E q \in Keepers : /\ saving'[q].step = "checked"
                                                                   /\ saving'[q].row = k}
    /\ UNCHANGED <<captured, compared, saves>>

----------------------------------------------------------------------------
(* A run keeps the catalogue it was submitted under, and is executed,      *)
(* again and again perhaps, with what it kept: an empty one is not told    *)
(* from none.                                                              *)

SubmitCoded(r) ==
    /\ captured[r] = NoCode
    /\ captured' = [captured EXCEPT ![r] = Catalogued]
    /\ UNCHANGED <<code, saving, raced, compared, saves>>

ComparedWith(r, catalogue) ==
    /\ captured[r] # NoCode
    /\ compared' = [compared EXCEPT ![r] = catalogue]
    /\ UNCHANGED <<code, saving, raced, captured, saves>>

Execute(r) ==
    captured[r] # NoCode
    /\ ComparedWith(r, IF DOMAIN captured[r] # {} THEN captured[r] ELSE Catalogued)

CodesNext ==
    \/ \E q \in Keepers :
         \/ \E k \in Rows, active \in BOOLEAN, delivers \in CodeTerms :
                SaveProductCode(q, k, active, delivers)
         \/ SaveCommitted(q)
    \/ \E k \in Rows : DeleteProductCode(k)
    \/ \E r \in CodedRuns : SubmitCoded(r) \/ Execute(r)

CodesSpec == CodesInit /\ [][CodesNext]_codesVars

----------------------------------------------------------------------------
\* An attribute two codes share is one term with one output name, at whatever scope, unless
\* the two were saved at the same moment (admin.py save_product_code).
OneTermOneName ==
    \A k, l \in ActiveRows : Disagree(code[k].delivers, code[l].delivers) => {k, l} \in raced

\* Executed again, a run that asked for known codes is compared with the same ones, whatever
\* was saved meanwhile: its report reproduces (worker/runner.py _catalogue_for).
ReportReproduces ==
    [][\A r \in CodedRuns :
          compared[r] # NoCode /\ DOMAIN compared[r] # {} /\ compared'[r] # compared[r]
              => DOMAIN captured[r] = {}]_codesVars
=============================================================================
