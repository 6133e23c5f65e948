---------------------------- MODULE Review_proofs ----------------------------
(***************************************************************************)
(* Proofs about Review, for any issues, people, requests and workers, with *)
(* requests and re-checks interleaved in every way.                        *)
(*                                                                         *)
(* As long as no re-check has been saved, the rows are those the run came  *)
(* to review with: one for every issue, and only their decisions move. An  *)
(* acknowledgement of an id is then one of its issue, and a row names who  *)
(* decided it, if one person did. A finalizer carries along what each of   *)
(* the gate's SELECTs assured it of; what the page shows in rows and by a  *)
(* signature the gate saw keeps that, whenever it is stored.               *)
(*                                                                         *)
(* Then about Signatures, Criteria and Extraction: what the rows of a      *)
(* review come to, and where they come from.                               *)
(***************************************************************************)
EXTENDS Review, Signatures, Extraction, Subsequences_proofs, FiniteSetTheorems, TLAPS

-----------------------------------------------------------------------------
(* Numbers in order. *)

\* A set of numbers that is bounded and not empty has a largest.
LEMMA Largest ==
    ASSUME NEW n \in Nat, NEW S \in SUBSET (1 .. n), S # {}
    PROVE  \E m \in S : \A k \in S : k <= m
<1> DEFINE T == {t \in 0 .. n : n - t \in S}
<1>1. \A k \in S : k \in Nat /\ n - k \in 0 .. n /\ n - (n - k) = k  OBVIOUS
<1>2. T \in SUBSET Nat /\ T # {}
  <2>1. PICK k \in S : TRUE  OBVIOUS
  <2>2. n - k \in T  BY <1>1
  <2>3. T \in SUBSET Nat  OBVIOUS
  <2> QED  BY <2>2, <2>3
<1>3. PICK t \in T : \A u \in T : t <= u  BY <1>2, Smallest
<1>4. \A k \in S : k <= n - t
  <2> TAKE k \in S
  <2>1. n - k \in T  BY <1>1
  <2>2. t <= n - k  BY <2>1, <1>3
  <2> QED  BY <2>2, <1>1, <1>2
<1> QED  BY <1>3, <1>4

LEMMA FiniteNumbers ==
    ASSUME NEW max \in Nat, NEW S \in SUBSET (1 .. max)
    PROVE  IsFiniteSet(S) /\ Cardinality(S) \in Nat
<1>1. IsFiniteSet(1 .. max)  BY FS_Interval
<1>2. IsFiniteSet(S)  BY <1>1, FS_Subset
<1> QED  BY <1>2, FS_CardinalityType

UpTo(S, i) == {k \in S : k <= i}

\* Every rank up to their number is that of one of some numbers.
LEMMA RanksAreTaken ==
    ASSUME NEW max \in Nat, NEW S \in SUBSET (1 .. max), NEW n \in 1 .. Cardinality(S)
    PROVE  \E i \in S : Cardinality(UpTo(S, i)) = n
<1>1. IsFiniteSet(S) /\ Cardinality(S) \in Nat /\ \A i \in S : i \in Nat
  BY FiniteNumbers
<1>2. \A i \in S : IsFiniteSet(UpTo(S, i)) /\ Cardinality(UpTo(S, i)) \in Nat
  BY <1>1, FS_Subset, FS_CardinalityType DEF UpTo
<1> DEFINE Late == {i \in S : Cardinality(UpTo(S, i)) >= n}
<1>3. Late # {}
  <2>1. S # {}  BY <1>1, FS_EmptySet
  <2>2. PICK top \in S : \A k \in S : k <= top  BY <2>1, Largest
  <2>3. UpTo(S, top) = S  BY <2>2 DEF UpTo
  <2> QED  BY <2>3, <1>1
<1>4. PICK i \in Late : \A k \in Late : i <= k
  <2>1. Late \in SUBSET Nat  BY <1>1
  <2> HIDE DEF Late
  <2> QED  BY <2>1, <1>3, Smallest
<1> DEFINE Before == {k \in S : k < i}
<1>5. /\ IsFiniteSet(Before) /\ Cardinality(Before) \in Nat
      /\ Cardinality(UpTo(S, i)) = Cardinality(Before) + 1
  <2>1. IsFiniteSet(Before)  BY <1>1, FS_Subset
  <2>2. UpTo(S, i) = Before \cup {i} /\ i \notin Before
    <3>1. i \in S /\ \A k \in S : k <= i <=> k < i \/ k = i  BY <1>1
    <3>2. ~(i < i)  BY <1>1
    <3> QED  BY <3>1, <3>2 DEF UpTo
  <2> HIDE DEF Before
  <2> QED  BY <2>1, <2>2, FS_AddElement, FS_CardinalityType
<1>6. CASE Before = {}
  <2>1. Cardinality(UpTo(S, i)) = 1  BY <1>5, <1>6, FS_EmptySet
  <2> QED  BY <2>1
<1>7. CASE Before # {}
  <2>1. PICK p \in Before : \A k \in Before : k <= p  BY <1>7, Largest
  <2>2. UpTo(S, p) = Before
    <3>1. \A k \in S : k <= p <=> k < i  BY <2>1, <1>1
    <3> QED  BY <3>1 DEF UpTo
  <2>3. Cardinality(Before) < n
    <3>1. p \in S /\ p < i /\ i \in S  OBVIOUS
    <3>2. p \notin Late
      <4> SUFFICES ASSUME p \in Late PROVE FALSE  OBVIOUS
      <4>1. i <= p  BY <1>4
      <4> QED  BY <4>1, <3>1, <1>1
    <3>3. ~(Cardinality(UpTo(S, p)) >= n)  BY <3>1, <3>2
    <3> QED  BY <3>3, <2>2, <1>5, <1>1
  <2> QED  BY <2>3, <1>5
<1> QED  BY <1>6, <1>7

\* In order, each of some numbers has a place of its own.
LEMMA OrderFacts ==
    ASSUME NEW max \in Nat, NEW S \in SUBSET (1 .. max)
    PROVE  /\ InOrder(S) \in Seq(S)
           /\ Len(InOrder(S)) = Cardinality(S)
           /\ DOMAIN InOrder(S) = 1 .. Cardinality(S)
           /\ \A m, n \in DOMAIN InOrder(S) : InOrder(S)[m] = InOrder(S)[n] => m = n
<1>1. Cardinality(S) \in Nat
  BY FiniteNumbers
<1>2. ASSUME NEW n \in 1 .. Cardinality(S)
      PROVE  InOrder(S)[n] \in S /\ Cardinality(UpTo(S, InOrder(S)[n])) = n
  <2>1. \E i \in S : Cardinality({k \in S : k <= i}) = n
    BY RanksAreTaken DEF UpTo
  <2>2. InOrder(S)[n] = CHOOSE i \in S : Cardinality({k \in S : k <= i}) = n
    BY DEF InOrder
  <2> QED  BY <2>1, <2>2 DEF UpTo
<1>3. InOrder(S) \in [1 .. Cardinality(S) -> S]
  BY <1>2 DEF InOrder
<1>4. InOrder(S) \in Seq(S) /\ Len(InOrder(S)) = Cardinality(S)
  BY <1>1, <1>3, IsASeq
<1> QED  BY <1>2, <1>3, <1>4

-----------------------------------------------------------------------------
(* Rows. *)

LEMMA IssuesAreNumbers == Len(Kinds) \in Nat /\ Issues = 1 .. Len(Kinds)
BY KindsAssumption DEF Issues

\* Rows picked from a table are rows.
LEMMA RowsAtType ==
    ASSUME NEW rows \in Seq(Finding), NEW places \in SUBSET (DOMAIN rows)
    PROVE  RowsAt(rows, places) \in Seq(Finding)
<1>1. Len(rows) \in Nat /\ DOMAIN rows = 1 .. Len(rows)  OBVIOUS
<1> DEFINE o == InOrder(places)
<1>2. o \in Seq(places) /\ DOMAIN o = 1 .. Len(o) /\ Len(o) \in Nat
  BY <1>1, OrderFacts, LenProperties
<1>3. \A n \in 1 .. Len(o) : rows[o[n]] \in Finding
  <2> TAKE n \in 1 .. Len(o)
  <2>1. o[n] \in places  BY <1>2, ElementOfSeq
  <2>2. o[n] \in 1 .. Len(rows)  BY <2>1, <1>1
  <2> QED  BY <2>2, ElementOfSeq
<1>4. RowsAt(rows, places) = [n \in 1 .. Len(o) |-> rows[o[n]]]  BY <1>2 DEF RowsAt
<1> HIDE DEF o
<1> QED  BY <1>2, <1>3, <1>4, IsASeq

\* What is raised on top of some rows.
LEMMA RaiseFacts ==
    ASSUME NEW rows \in Seq(Finding), NEW issues \in SUBSET Issues
    PROVE  /\ Raise(rows, issues) \in Seq(Finding)
           /\ Len(rows) = 0 =>
                /\ DOMAIN Raise(rows, issues) = DOMAIN InOrder(issues)
                /\ \A n \in DOMAIN InOrder(issues) :
                      /\ Raise(rows, issues)[n].issue = InOrder(issues)[n]
                      /\ Raise(rows, issues)[n].by = Nobody
<1> DEFINE new == InOrder(issues)
           added == [n \in 1 .. Len(new) |->
                       [id |-> Len(rows) + n, issue |-> new[n],
                        status |-> "undecided", by |-> Nobody]]
<1>1. new \in Seq(issues) /\ DOMAIN new = 1 .. Len(new) /\ Len(new) \in Nat
  BY IssuesAreNumbers, OrderFacts, LenProperties
<1>2. Len(rows) \in Nat  BY LenProperties
<1>3. Raise(rows, issues) = rows \o added  BY DEF Raise
<1>4. ASSUME NEW n \in 1 .. Len(new) PROVE added[n] \in Finding
  <2>1. new[n] \in Issues  BY <1>1, ElementOfSeq
  <2>2. Len(rows) + n \in Nat  BY <1>1, <1>2
  <2> HIDE DEF new
  <2> QED  BY <2>1, <2>2 DEF Finding, Decisions
<1>5. added \in Seq(Finding) /\ Len(added) = Len(new)
  <2>1. added = [n \in 1 .. Len(new) |-> added[n]]  OBVIOUS
  <2> HIDE DEF added, new
  <2> QED  BY <2>1, <1>1, <1>4, IsASeq
<1>6. ASSUME Len(rows) = 0
      PROVE  DOMAIN (rows \o added) = 1 .. Len(new)
             /\ \A n \in 1 .. Len(new) : (rows \o added)[n] = added[n]
  <2> HIDE DEF added, new
  <2> QED  BY <1>1, <1>2, <1>5, <1>6
<1>7. rows \o added \in Seq(Finding)
  <2> HIDE DEF added
  <2> QED  BY <1>5
<1>8. \A n \in 1 .. Len(new) : added[n].issue = new[n] /\ added[n].by = Nobody  OBVIOUS
<1> HIDE DEF added, new
<1>9. ASSUME Len(rows) = 0
      PROVE  /\ DOMAIN (rows \o added) = DOMAIN new
             /\ \A n \in DOMAIN new :
                   (rows \o added)[n].issue = new[n] /\ (rows \o added)[n].by = Nobody
  BY <1>1, <1>6, <1>8, <1>9
<1> QED  BY <1>3, <1>7, <1>9 DEF new

\* A carried row stays what it is but for its decision.
LEMMA CarriedFacts ==
    ASSUME NEW rows \in Seq(Finding), NEW row \in Finding
    PROVE  Carried(rows, row) \in Finding /\ Carried(rows, row).issue = row.issue
<1> DEFINE same == {n \in DOMAIN rows : rows[n].issue = row.issue}
           last == CHOOSE n \in same : \A m \in same : m <= n
<1>1. same # {} => last \in same
  <2>1. Len(rows) \in Nat /\ same \in SUBSET (1 .. Len(rows))  OBVIOUS
  <2> HIDE DEF same
  <2> QED  BY <2>1, Largest
<1>2. same # {} => rows[last] \in Finding
  <2> SUFFICES ASSUME same # {} PROVE rows[last] \in Finding  OBVIOUS
  <2>1. last \in 1 .. Len(rows)  BY <1>1
  <2> HIDE DEF last
  <2> QED  BY <2>1, ElementOfSeq
<1>3. Carried(rows, row) = [row EXCEPT !.by = Nobody,
                             !.status = IF same = {} THEN @ ELSE rows[last].status]
  BY DEF Carried
<1> HIDE DEF same, last
<1> QED  BY <1>2, <1>3 DEF Finding

LEMMA RebuiltFacts ==
    ASSUME TypeOK, NEW w \in Workers, worker[w].op = "save"
    PROVE  /\ worker[w].previous \in Seq(Finding)
           /\ Rebuilt(w) \in Seq(Finding)
           /\ \A n \in DOMAIN Rebuilt(w) :
                \E row \in Finding : Rebuilt(w)[n] = Carried(worker[w].previous, row)
<1>1. /\ worker[w].kept \in Seq(Finding) /\ worker[w].raised \in SUBSET Issues
      /\ worker[w].previous \in Seq(Finding)
  BY DEF TypeOK, WorkerState, Idle
<1> DEFINE rows == Raise(worker[w].kept, worker[w].raised)
           previous == worker[w].previous
<1>2. rows \in Seq(Finding)  BY <1>1, RaiseFacts
<1>3. Rebuilt(w) = [n \in 1 .. Len(rows) |-> Carried(previous, rows[n])]
  <2>1. DOMAIN rows = 1 .. Len(rows)  BY <1>2
  <2> QED  BY <2>1 DEF Rebuilt
<1>4. previous \in Seq(Finding)  BY <1>1
<1> HIDE DEF rows, previous
<1>5. Len(rows) \in Nat /\ \A n \in 1 .. Len(rows) : rows[n] \in Finding
  BY <1>2, ElementOfSeq, LenProperties
<1>6. \A n \in 1 .. Len(rows) : Carried(previous, rows[n]) \in Finding
  BY <1>4, <1>5, CarriedFacts
<1>7. Rebuilt(w) \in Seq(Finding)  BY <1>3, <1>5, <1>6, IsASeq
<1>8. \A n \in DOMAIN Rebuilt(w) :
         \E row \in Finding : Rebuilt(w)[n] = Carried(previous, row)
  BY <1>3, <1>5
<1> QED  BY <1>4, <1>7, <1>8 DEF previous

-----------------------------------------------------------------------------
(* Typing. *)

LEMMA RowType ==
    ASSUME TypeOK, NEW n \in DOMAIN findings
    PROVE  findings[n] \in Finding
BY ElementOfSeq DEF TypeOK

\* A table whose rows are changed in place is a table.
LEMMA SameLength ==
    ASSUME TypeOK, NEW table, table = [n \in DOMAIN findings |-> table[n]],
           \A n \in DOMAIN findings : table[n] \in Finding
    PROVE  table \in Seq(Finding)
<1>1. Len(findings) \in Nat /\ DOMAIN findings = 1 .. Len(findings)  BY DEF TypeOK
<1>2. table = [n \in 1 .. Len(findings) |-> table[n]]  BY <1>1
<1> QED  BY <1>1, <1>2, IsASeq

LEMMA TypeInit == Init => TypeOK
<1> SUFFICES ASSUME Init PROVE TypeOK  OBVIOUS
<1>1. <<>> \in Seq(Finding) /\ raised \in SUBSET Issues  BY DEF Init
<1>2. findings \in Seq(Finding)  BY <1>1, RaiseFacts DEF Init
<1>3. rechecks \in [asked : 0 .. MaxRechecks, queued : Nat]
  BY MaxRechecksAssumption DEF Init
<1>4. approval \in Approvals /\ generation \in Nat  BY DEF Init, Approvals
<1>5. worker \in [Workers -> WorkerState] /\ request \in [Requests -> RequestState]
  BY DEF Init, WorkerState, RequestState
<1> QED  BY <1>1, <1>2, <1>3, <1>4, <1>5 DEF Init, TypeOK

\* What an open finalizer holds, and what it goes on with.
LEMMA PageType ==
    ASSUME TypeOK, NEW q \in Requests, request[q].op \in FinalizeSteps
    PROVE  /\ request[q] \in [op : FinalizeSteps, targets : SUBSET Nat, html : Html]
           /\ request[q].targets \in SUBSET Nat /\ request[q].html \in Html
<1>1. request[q] \in [op : FinalizeSteps, targets : SUBSET Nat, html : Html]
  BY DEF TypeOK, RequestState, FinalizeSteps, Idle
<1> QED  BY <1>1

LEMMA ProceedType ==
    ASSUME TypeOK, NEW q \in Requests, NEW open, NEW step \in FinalizeSteps,
           NEW targets \in SUBSET Nat, NEW html \in Html,
           Proceed(q, open, step, targets, html)
    PROVE  TypeOK'
<1>1. [op |-> step, targets |-> targets, html |-> html] \in RequestState
      /\ Idle \in RequestState
  BY DEF RequestState
<1>2. request' \in [Requests -> RequestState]
  BY <1>1 DEF Proceed, TypeOK
<1> QED  BY <1>2 DEF Proceed, TypeOK, historyVars

LEMMA GateTypes ==
    ASSUME TypeOK
    PROVE  Rows \in SUBSET Finding /\ Waved \in SUBSET Finding /\ Unevaluated \in SUBSET Finding
           /\ \A p \in People : Blank(p) \in Html
<1>1. Rows \in SUBSET Finding  BY RowType DEF Rows
<1>2. \A p \in People : Blank(p) \in Html  BY DEF Blank, Html, Approvals
<1> QED  BY <1>1, <1>2 DEF Waved, Unevaluated

LEMMA FinalizingTypes ==
    ASSUME TypeOK, NEW q \in Requests, Finalizing(q)
    PROVE  TypeOK'
<1> DEFINE r == request[q]
<1>1. CASE GateAcknowledged(q)
  <2>1. r.html \in Html  BY <1>1, PageType DEF GateAcknowledged, FinalizeSteps
  <2>2. acknowledged \in SUBSET Nat /\ "waved" \in FinalizeSteps  BY DEF TypeOK, FinalizeSteps
  <2> QED  BY <1>1, <2>1, <2>2, ProceedType DEF GateAcknowledged
<1>2. CASE GateWaved(q)
  <2>1. r.html \in Html /\ r.targets \in SUBSET Nat
    BY <1>2, PageType DEF GateWaved, FinalizeSteps
  <2>2. [r.html EXCEPT !.vetted = Waved] \in Html  BY <2>1, GateTypes DEF Html
  <2>3. "signature" \in FinalizeSteps  BY DEF FinalizeSteps
  <2> QED  BY <1>2, <2>1, <2>2, <2>3, ProceedType DEF GateWaved
<1>3. CASE GateSigned(q)
  <2>1. r.html \in Html /\ r.targets \in SUBSET Nat
    BY <1>3, PageType DEF GateSigned, FinalizeSteps
  <2>2. [r.html EXCEPT !.signed = approval] \in Html  BY <2>1 DEF Html, TypeOK
  <2>3. "unevaluated" \in FinalizeSteps  BY DEF FinalizeSteps
  <2> QED  BY <1>3, <2>1, <2>2, <2>3, ProceedType DEF GateSigned
<1>4. CASE GateUnevaluated(q)
  <2>1. r.html \in Html  BY <1>4, PageType DEF GateUnevaluated, FinalizeSteps
  <2>2. {} \in SUBSET Nat /\ "attest" \in FinalizeSteps  BY DEF FinalizeSteps
  <2> QED  BY <1>4, <2>1, <2>2, ProceedType DEF GateUnevaluated
<1>5. CASE Attest(q)
  <2>1. r.html \in Html  BY <1>5, PageType DEF Attest, FinalizeSteps
  <2>2. [r.html EXCEPT !.approval = approval] \in Html  BY <2>1 DEF Html, TypeOK
  <2>3. {} \in SUBSET Nat /\ "select" \in FinalizeSteps  BY DEF FinalizeSteps
  <2> QED  BY <1>5, <2>2, <2>3, ProceedType DEF Attest
<1>6. CASE FinalizeSelect(q)
  <2>1. r.html \in Html  BY <1>6, PageType DEF FinalizeSelect, FinalizeSteps
  <2>2. [r.html EXCEPT !.rows = Rows, !.makers = author] \in Html
    BY <2>1, GateTypes DEF Html, TypeOK
  <2>3. {} \in SUBSET Nat /\ "write" \in FinalizeSteps  BY DEF FinalizeSteps
  <2> QED  BY <1>6, <2>2, <2>3, ProceedType DEF FinalizeSelect
<1>7. CASE FinalizeWrite(q)
  <2>1. /\ r \in [op : FinalizeSteps, targets : SUBSET Nat, html : Html]
        /\ r.html \in Html
    BY <1>7, PageType DEF FinalizeWrite, FinalizeSteps
  <2>2. [r EXCEPT !.op = "insert"] \in RequestState
    <3> DEFINE s == r
    <3>1. s \in [op : FinalizeSteps, targets : SUBSET Nat, html : Html]  BY <2>1
    <3> HIDE DEF s
    <3>2. [s EXCEPT !.op = "insert"] \in RequestState
      BY <3>1 DEF RequestState, FinalizeSteps
    <3> QED  BY <3>2 DEF s
  <2>3. request' \in [Requests -> RequestState]
    BY <1>7, <2>2 DEF FinalizeWrite, TypeOK
  <2> QED  BY <1>7, <2>1, <2>3 DEF FinalizeWrite, TypeOK, historyVars
<1>8. CASE FinalizeInsert(q)
  <2>1. r.html \in Html  BY <1>8, PageType DEF FinalizeInsert, FinalizeSteps
  <2>2. request' \in [Requests -> RequestState]
    BY <1>8 DEF FinalizeInsert, RequestState, TypeOK
  <2> QED  BY <1>8, <2>1, <2>2 DEF FinalizeInsert, TypeOK, historyVars
<1> QED  BY <1>1, <1>2, <1>3, <1>4, <1>5, <1>6, <1>7, <1>8 DEF Finalizing

Approving(q) == ApproveNeeded(q) \/ ApproveCheck(q) \/ ApproveCommit(q)
LEMMA ApprovingTypes ==
    ASSUME TypeOK, NEW q \in Requests, Approving(q)
    PROVE  TypeOK'
<1> DEFINE r == request[q]
           S == [op : {"approval", "reviewers", "sign"}, by : People, waved : SUBSET Finding]
<1>1. r \in S
  BY DEF Approving, ApproveNeeded, ApproveCheck, ApproveCommit, TypeOK, RequestState,
         FinalizeSteps, Idle
<1>2. Idle \in RequestState /\ S \subseteq RequestState  BY DEF RequestState
<1>3. [r EXCEPT !.op = "reviewers"] \in S /\ [r EXCEPT !.op = "sign"] \in S
  <2> DEFINE s == r
  <2>1. s \in S  BY <1>1
  <2> HIDE DEF s
  <2>2. [s EXCEPT !.op = "reviewers"] \in S /\ [s EXCEPT !.op = "sign"] \in S  BY <2>1
  <2> QED  BY <2>2 DEF s
<1>4. \A f \in r.waved : f.id \in Nat  BY <1>1 DEF Finding
<1>5. r.by \in People  BY <1>1
<1> HIDE DEF S
<1>6. CASE ApproveNeeded(q)
  <2>1. request' \in [Requests -> RequestState]
    BY <1>2, <1>3, <1>6 DEF ApproveNeeded, TypeOK
  <2> QED  BY <1>6, <2>1 DEF ApproveNeeded, TypeOK, historyVars
<1>7. CASE ApproveCheck(q)
  <2>1. request' \in [Requests -> RequestState]
    BY <1>2, <1>3, <1>7 DEF ApproveCheck, TypeOK
  <2> QED  BY <1>7, <2>1 DEF ApproveCheck, TypeOK, historyVars
<1>8. CASE ApproveCommit(q)
  <2>1. Outstanding(q) \in SUBSET Nat  BY <1>4 DEF Outstanding
  <2>2. approval' \in Approvals
    BY <1>5, <1>8, <2>1 DEF ApproveCommit, Approvals, TypeOK
  <2>3. request' \in [Requests -> RequestState]  BY <1>2, <1>8 DEF ApproveCommit, TypeOK
  <2> QED  BY <1>8, <2>2, <2>3 DEF ApproveCommit, TypeOK, historyVars
<1> QED  BY <1>6, <1>7, <1>8 DEF Approving

LEMMA UpdatedType ==
    ASSUME NEW row \in Finding, NEW r, r.by \in People, r.status \in Decisions
    PROVE  /\ Updated(row, r) \in Finding
           /\ Updated(row, r).issue = row.issue /\ Updated(row, r).id = row.id
           /\ row = r.loaded => Updated(row, r).by = r.by
BY DEF Updated, Finding

LEMMA TypeNext == TypeOK /\ [Next]_vars => TypeOK'
<1> SUFFICES ASSUME TypeOK, [Next]_vars PROVE TypeOK'  OBVIOUS
<1>1. ASSUME NEW q \in Requests, NEW p \in People, FinalizeRead(q, p) PROVE TypeOK'
  <2>1. Blank(p) \in Html /\ {} \in SUBSET Nat /\ "acknowledged" \in FinalizeSteps
    BY GateTypes DEF FinalizeSteps
  <2> QED  BY <1>1, <2>1, ProceedType DEF FinalizeRead
<1>2. ASSUME NEW q \in Requests, Finalizing(q) PROVE TypeOK'
  BY <1>2, FinalizingTypes
<1>3. ASSUME NEW q \in Requests, Approving(q) PROVE TypeOK'
  BY <1>3, ApprovingTypes
<1>4. ASSUME NEW q \in Requests, NEW p \in People, ApproveRead(q, p) PROVE TypeOK'
  <2>1. [op |-> "approval", by |-> p, waved |-> Waved] \in RequestState
    BY GateTypes DEF RequestState
  <2>2. request' \in [Requests -> RequestState]  BY <1>4, <2>1 DEF ApproveRead, TypeOK
  <2> QED  BY <1>4, <2>2 DEF ApproveRead, TypeOK, historyVars
<1>5. ASSUME NEW q \in Requests, NEW p \in People, NEW n \in DOMAIN findings,
             NEW d \in Decisions, ReviewRead(q, p, n, d)
      PROVE  TypeOK'
  <2>1. n \in Nat /\ findings[n] \in Finding /\ generation \in Nat  BY RowType DEF TypeOK
  <2>2. [op |-> "review", by |-> p, row |-> n, generation |-> generation,
         loaded |-> findings[n], status |-> d] \in RequestState
    BY <2>1 DEF RequestState
  <2>3. request' \in [Requests -> RequestState]  BY <1>5, <2>2 DEF ReviewRead, TypeOK
  <2> QED  BY <1>5, <2>3 DEF ReviewRead, TypeOK, historyVars
<1>6. ASSUME NEW q \in Requests, ReviewCommit(q) PROVE TypeOK'
  <2> DEFINE r == request[q]
  <2>1. request' \in [Requests -> RequestState]
    BY <1>6 DEF ReviewCommit, RequestState, TypeOK
  <2>2. r.by \in People /\ r.status \in Decisions
    <3>1. r \in RequestState /\ r.op = "review"  BY <1>6 DEF ReviewCommit, TypeOK
    <3> HIDE DEF r
    <3> QED  BY <3>1 DEF RequestState, FinalizeSteps, Idle
  <2>3. findings' \in Seq(Finding)
    <3>1. CASE r.generation = generation
      <4>1. findings' = [findings EXCEPT ![r.row] = Updated(@, r)]
        BY <1>6, <3>1 DEF ReviewCommit
      <4>2. \A n \in DOMAIN findings : findings'[n] \in Finding
        BY <4>1, <2>2, RowType, UpdatedType
      <4>3. findings' = [n \in DOMAIN findings |-> findings'[n]]  BY <4>1
      <4> QED  BY <4>2, <4>3, SameLength, Zenon
    <3>2. CASE r.generation # generation  BY <1>6, <3>2 DEF ReviewCommit, TypeOK
    <3> QED  BY <3>1, <3>2
  <2>4. author' \in [Issues -> People \cup {Nobody}]
    BY <1>6, <2>2 DEF ReviewCommit, TypeOK
  <2> QED  BY <1>6, <2>1, <2>3, <2>4 DEF ReviewCommit, TypeOK
<1> USE DEF TypeOK
<1>7. ASSUME NEW p \in People, BulkOk(p) PROVE TypeOK'
  <2> DEFINE hit == {n \in DOMAIN findings :
                       Kind(findings[n].issue) = "low" /\ findings[n].status = "undecided"}
  <2>1. findings' = [n \in DOMAIN findings |->
            IF n \in hit THEN [findings[n] EXCEPT !.status = "waved", !.by = p] ELSE findings[n]]
    BY <1>7 DEF BulkOk
  <2>2. author' = [i \in Issues |-> IF \E n \in hit : findings[n].issue = i THEN p ELSE author[i]]
    BY <1>7 DEF BulkOk
  <2> HIDE DEF hit
  <2>3. \A n \in DOMAIN findings : findings'[n] \in Finding
    BY <2>1, RowType DEF Finding, Decisions
  <2>4. findings' \in Seq(Finding)  BY <2>1, <2>3, SameLength
  <2>5. author' \in [Issues -> People \cup {Nobody}]  BY <2>2
  <2> QED  BY <1>7, <2>4, <2>5 DEF BulkOk
<1>8. ASSUME NEW id, Acknowledge(id) PROVE TypeOK'
  <2>1. \A f \in Unevaluated : f.id \in Nat /\ f.issue \in Issues
    BY RowType DEF Unevaluated, Rows, Finding
  <2>2. acknowledged' \in SUBSET Nat  BY <1>8, <2>1 DEF Acknowledge
  <2>3. seen' \in SUBSET Issues  BY <1>8, <2>1 DEF Acknowledge
  <2> QED  BY <1>8, <2>2, <2>3 DEF Acknowledge
<1>9. ASSUME AskRecheck PROVE rechecks' \in [asked : 0 .. MaxRechecks, queued : Nat]
  BY <1>9, MaxRechecksAssumption DEF AskRecheck
<1>10. ASSUME NEW i \in Issues, Edit(i) PROVE TypeOK'
  BY <1>9, <1>10 DEF Edit, historyVars
<1>11. CASE Recheck
  BY <1>9, <1>11 DEF Recheck, historyVars
<1>12. ASSUME NEW w \in Workers, RecheckLoad(w) PROVE TypeOK'
  <2> DEFINE decided == {n \in DOMAIN findings : findings[n].status # "undecided"}
  <2>1. RowsAt(findings, decided) \in Seq(Finding)  BY RowsAtType
  <2>2. worker' = [worker EXCEPT ![w] =
           [op |-> "recheck", raised |-> raised, kept |-> RowsAt(findings, decided)]]
    BY <1>12 DEF RecheckLoad
  <2> HIDE DEF decided
  <2>3. worker' \in [Workers -> WorkerState]  BY <2>1, <2>2 DEF WorkerState
  <2>4. rechecks' \in [asked : 0 .. MaxRechecks, queued : Nat]
    BY <1>12 DEF RecheckLoad
  <2> QED  BY <1>12, <2>3, <2>4 DEF RecheckLoad, historyVars
<1>13. ASSUME NEW w \in Workers, RecheckCarry(w) PROVE TypeOK'
  <2>1. worker[w].raised \in SUBSET Issues /\ worker[w].kept \in Seq(Finding)
    BY <1>13 DEF RecheckCarry, WorkerState, Idle
  <2>2. [op |-> "save", raised |-> worker[w].raised, kept |-> worker[w].kept,
         previous |-> findings] \in WorkerState
    BY <2>1 DEF WorkerState
  <2>3. worker' \in [Workers -> WorkerState]  BY <1>13, <2>2 DEF RecheckCarry
  <2> QED  BY <1>13, <2>3 DEF RecheckCarry, historyVars
<1>14. ASSUME NEW w \in Workers, RecheckSave(w) PROVE TypeOK'
  <2>1. worker[w].raised \in SUBSET Issues
    BY <1>14 DEF RecheckSave, WorkerState, Idle
  <2>2. findings' \in Seq(Finding)  BY <1>14, RebuiltFacts DEF RecheckSave
  <2>3. worker' \in [Workers -> WorkerState]  BY <1>14 DEF RecheckSave, WorkerState
  <2> QED  BY <1>14, <2>1, <2>2, <2>3 DEF RecheckSave, historyVars
<1>15. ASSUME NEW w \in Workers, RecheckFails(w) PROVE TypeOK'
  <2>1. worker' \in [Workers -> WorkerState]  BY <1>15 DEF RecheckFails, WorkerState
  <2>2. rechecks' \in [asked : 0 .. MaxRechecks, queued : Nat]
    BY <1>15 DEF RecheckFails
  <2> QED  BY <1>15, <2>1, <2>2 DEF RecheckFails, historyVars
<1>16. CASE UNCHANGED vars  BY <1>16 DEF vars, historyVars
<1> QED
  BY <1>1, <1>2, <1>3, <1>4, <1>5, <1>6, <1>7, <1>8, <1>10, <1>11, <1>12, <1>13, <1>14, <1>15,
     <1>16
  DEF Next, Approving

\* Rows, requests and pages are always rows, requests and pages.
THEOREM ReviewTypeCorrect == Spec => []TypeOK
<1>1. TypeOK /\ [Next]_vars => TypeOK'  BY TypeNext
<1> QED  BY TypeInit, <1>1, PTL DEF Spec

-----------------------------------------------------------------------------
(* Until a re-check is saved. *)

\* The gaps among some rows, and what a rendered page says of them.
GapsIn(rows) == {f.issue : f \in {g \in rows : Kind(g.issue) = "unevaluated"}}
GapsSeen(page) == GapsIn(page.rows) \subseteq seen

\* The gate found nothing waved through, or a signature of somebody else; and the
\* rows of a page name who decided them, where one person did.
SignedFor(page) ==
    page.vetted = {} \/ page.signed.by \notin {Nobody} \cup Reviewers(page.vetted)
MadeBy(page) == \A f \in page.rows : page.makers[f.issue] \in {f.by, Nobody}

\* What an open finalizer has made sure of, given the acknowledged targets, the
\* gaps that are there and the issues somebody saw.
Assured(r, targets, gaps, known) ==
    /\ r.op \in {"waved", "signature", "unevaluated"} => r.targets \subseteq targets
    /\ r.op \in {"unevaluated", "attest", "select", "write", "insert"} => SignedFor(r.html)
    /\ r.op \in {"attest", "select"} => gaps \subseteq known
    /\ r.op \in {"write", "insert"} => GapsIn(r.html.rows) \subseteq known /\ MadeBy(r.html)

OneRowEach == \A m, n \in DOMAIN findings : findings[m].issue = findings[n].issue => m = n
RowsNameTheirAuthor ==
    \A n \in DOMAIN findings : author[findings[n].issue] \in {findings[n].by, Nobody}
AcknowledgedAreSeen == \A f \in Unevaluated : f.id \in acknowledged => f.issue \in seen
ReviewsFindTheirRow ==
    \A q \in Requests : request[q].op = "review" => request[q].row \in DOMAIN findings
PagesAreTrue == \A q \in Requests : Assured(request[q], acknowledged, GapsIn(Rows), seen)
ReportIsTrue == Frozen => GapsSeen(report) /\ SignedFor(report) /\ MadeBy(report)

FirstRows == /\ OneRowEach /\ RowsNameTheirAuthor /\ AcknowledgedAreSeen
             /\ ReviewsFindTheirRow /\ PagesAreTrue /\ ReportIsTrue

ReviewIInv == TypeOK /\ (generation = 0 => FirstRows)

LEMMA FirstRowsInit == Init => FirstRows
<1> SUFFICES ASSUME Init PROVE FirstRows  OBVIOUS
<1>1. raised \in SUBSET (1 .. Len(Kinds)) /\ Len(Kinds) \in Nat
  BY IssuesAreNumbers DEF Init
<1>2. /\ DOMAIN findings = DOMAIN InOrder(raised)
      /\ \A n \in DOMAIN InOrder(raised) :
            findings[n].issue = InOrder(raised)[n] /\ findings[n].by = Nobody
  <2>1. <<>> \in Seq(Finding) /\ Len(<<>>) = 0 /\ raised \in SUBSET Issues  BY DEF Init
  <2>2. /\ DOMAIN Raise(<<>>, raised) = DOMAIN InOrder(raised)
        /\ \A n \in DOMAIN InOrder(raised) :
              Raise(<<>>, raised)[n].issue = InOrder(raised)[n]
              /\ Raise(<<>>, raised)[n].by = Nobody
    BY <2>1, RaiseFacts
  <2>3. findings = Raise(<<>>, raised)  BY DEF Init
  <2> QED  BY <2>2, <2>3
<1>3. OneRowEach
  <2>1. \A m, n \in DOMAIN InOrder(raised) :
           InOrder(raised)[m] = InOrder(raised)[n] => m = n
    BY <1>1, OrderFacts
  <2> QED  BY <1>2, <2>1 DEF OneRowEach
<1>4. RowsNameTheirAuthor
  <2>1. \A n \in DOMAIN findings : findings[n].issue \in Issues
    BY TypeInit, RowType DEF Finding
  <2> QED  BY <1>2, <2>1 DEF Init, RowsNameTheirAuthor
<1>5. AcknowledgedAreSeen /\ ReviewsFindTheirRow /\ PagesAreTrue /\ ReportIsTrue
  BY DEF Init, AcknowledgedAreSeen, ReviewsFindTheirRow, PagesAreTrue, Assured, ReportIsTrue,
         Idle, Frozen
<1> QED  BY <1>3, <1>4, <1>5 DEF FirstRows

\* Rows in which decisions moved are the rows of the same issues.
LEMMA DecisionsMove ==
    ASSUME FirstRows,
           DOMAIN findings' = DOMAIN findings,
           \A n \in DOMAIN findings : findings'[n].issue = findings[n].issue
                                      /\ findings'[n].id = findings[n].id,
           UNCHANGED <<acknowledged, seen>>
    PROVE  OneRowEach' /\ AcknowledgedAreSeen' /\ GapsIn(Rows)' = GapsIn(Rows)
<1>1. OneRowEach'  BY DEF FirstRows, OneRowEach
<1>2. AcknowledgedAreSeen'
  BY DEF FirstRows, AcknowledgedAreSeen, Unevaluated, Rows
<1>3. GapsIn(Rows)' = GapsIn(Rows)  BY DEF GapsIn, Rows
<1> QED  BY <1>1, <1>2, <1>3

\* Pages stay true while more is acknowledged and seen and no gap appears, if the
\* request that moves is assured of what it goes on with.
LEMMA PagesStayTrue ==
    ASSUME TypeOK, PagesAreTrue, acknowledged \subseteq acknowledged', seen \subseteq seen',
           GapsIn(Rows)' = GapsIn(Rows), NEW q \in Requests, NEW r,
           request' = [request EXCEPT ![q] = r],
           Assured(r, acknowledged', GapsIn(Rows)', seen')
    PROVE  PagesAreTrue'
<1> SUFFICES ASSUME NEW o \in Requests
             PROVE  Assured(request'[o], acknowledged', GapsIn(Rows)', seen')
  BY DEF PagesAreTrue
<1>1. CASE o = q  BY <1>1 DEF TypeOK
<1>2. CASE o # q
  <2>1. request'[o] = request[o]  BY <1>2 DEF TypeOK
  <2>2. Assured(request[o], acknowledged, GapsIn(Rows), seen)  BY DEF PagesAreTrue
  <2> QED  BY <2>1, <2>2 DEF Assured
<1> QED  BY <1>1, <1>2

\* A request that is no review keeps the reviews as they are.
LEMMA ReviewsStay ==
    ASSUME TypeOK, ReviewsFindTheirRow, DOMAIN findings' = DOMAIN findings,
           NEW q \in Requests, NEW r, request' = [request EXCEPT ![q] = r],
           r.op = "review" => r.row \in DOMAIN findings
    PROVE  ReviewsFindTheirRow'
BY DEF TypeOK, ReviewsFindTheirRow

\* A request that only reads, or is refused, and is assured of what it goes on with.
LEMMA ReadingStep ==
    ASSUME TypeOK, FirstRows, NEW q \in Requests, NEW r,
           request' = [request EXCEPT ![q] = r],
           UNCHANGED <<findings, acknowledged, seen, author, report>>,
           r.op = "review" => r.row \in DOMAIN findings,
           Assured(r, acknowledged, GapsIn(Rows), seen)
    PROVE  FirstRows'
<1> USE DEF FirstRows
<1>1. OneRowEach' /\ RowsNameTheirAuthor' /\ AcknowledgedAreSeen'
  BY DEF OneRowEach, RowsNameTheirAuthor, AcknowledgedAreSeen, Unevaluated, Rows
<1>2. ReviewsFindTheirRow'  BY ReviewsStay
<1>3. GapsIn(Rows)' = GapsIn(Rows)  BY DEF GapsIn, Rows
<1>4. PagesAreTrue'  BY <1>3, PagesStayTrue
<1>5. ReportIsTrue'  BY DEF ReportIsTrue, GapsSeen, GapsIn, Frozen
<1> QED  BY <1>1, <1>2, <1>4, <1>5

LEMMA NothingAssured == ASSUME NEW targets, NEW gaps, NEW known, NEW r,
           r.op \notin FinalizeSteps \/ r.op = "acknowledged"
    PROVE  Assured(r, targets, gaps, known)
BY DEF Assured, FinalizeSteps

\* Each step of the gate assures the finalizer of what it read, and the page takes
\* that over.
LEMMA ProceedAssured ==
    ASSUME TypeOK, FirstRows, NEW q \in Requests, NEW open, NEW step \in FinalizeSteps,
           NEW targets, NEW html, Proceed(q, open, step, targets, html),
           open => Assured([op |-> step, targets |-> targets, html |-> html],
                           acknowledged, GapsIn(Rows), seen)
    PROVE  FirstRows'
<1> DEFINE r == IF open THEN [op |-> step, targets |-> targets, html |-> html] ELSE Idle
<1>1. /\ request' = [request EXCEPT ![q] = r]
      /\ UNCHANGED <<findings, acknowledged, seen, author, report>>
  BY DEF Proceed, historyVars
<1>2. r.op # "review"  BY DEF Idle, FinalizeSteps
<1>3. Assured(r, acknowledged, GapsIn(Rows), seen)
  <2>1. CASE open  BY <2>1
  <2>2. CASE ~open
    <3>1. r.op \notin FinalizeSteps  BY <2>2 DEF Idle, FinalizeSteps
    <3> QED  BY <3>1, NothingAssured
  <2> QED  BY <2>1, <2>2
<1> HIDE DEF r
<1> QED  BY <1>1, <1>2, <1>3, ReadingStep

LEMMA FinalizingAssured ==
    ASSUME TypeOK, FirstRows, NEW q \in Requests, Finalizing(q)
    PROVE  FirstRows'
<1> DEFINE r == request[q]
           IsAssured(s) == Assured(s, acknowledged, GapsIn(Rows), seen)
<1>0. IsAssured(r)  BY DEF FirstRows, PagesAreTrue
<1>1. CASE GateAcknowledged(q)
  <2>1. IsAssured([op |-> "waved", targets |-> acknowledged, html |-> r.html])
    BY DEF Assured
  <2> QED  BY <1>1, <2>1, ProceedAssured DEF GateAcknowledged, FinalizeSteps
<1>2. CASE GateWaved(q)
  <2>1. IsAssured([op |-> "signature", targets |-> r.targets,
                   html |-> [r.html EXCEPT !.vetted = Waved]])
    BY <1>0, <1>2 DEF Assured, GateWaved
  <2> QED  BY <1>2, <2>1, ProceedAssured DEF GateWaved, FinalizeSteps
<1>3. CASE GateSigned(q)
  <2> DEFINE open == r.html.vetted = {} \/ ApprovalCounts(r.html.vetted)
             html == [r.html EXCEPT !.signed = approval]
  <2>1. ASSUME open PROVE IsAssured([op |-> "unevaluated", targets |-> r.targets, html |-> html])
    <3>1. r.html \in Html  BY <1>3, PageType DEF GateSigned, FinalizeSteps
    <3>2. html.vetted = r.html.vetted /\ html.signed = approval  BY <3>1 DEF Html
    <3>3. ApprovalCounts(r.html.vetted) => approval.by # Nobody
      BY NobodyAssumption DEF ApprovalCounts, TypeOK, Approvals
    <3>4. SignedFor(html)  BY <2>1, <3>2, <3>3 DEF SignedFor, ApprovalCounts
    <3> HIDE DEF html
    <3> QED  BY <1>0, <1>3, <3>4 DEF Assured, GateSigned
  <2>2. Proceed(q, open, "unevaluated", r.targets, html)  BY <1>3 DEF GateSigned
  <2>3. "unevaluated" \in FinalizeSteps  BY DEF FinalizeSteps
  <2> HIDE DEF open, html
  <2> QED  BY <2>1, <2>2, <2>3, ProceedAssured
<1>4. CASE GateUnevaluated(q)
  <2>1. ASSUME GapsAcknowledged(r.targets)
        PROVE  IsAssured([op |-> "attest", targets |-> {}, html |-> r.html])
    <3>1. r.targets \subseteq acknowledged /\ SignedFor(r.html)
      BY <1>0, <1>4 DEF Assured, GateUnevaluated
    <3>2. GapsIn(Rows) \subseteq seen
      BY <2>1, <3>1 DEF FirstRows, AcknowledgedAreSeen, GapsAcknowledged, GapsIn, Unevaluated
    <3> QED  BY <3>1, <3>2 DEF Assured
  <2> QED  BY <1>4, <2>1, ProceedAssured DEF GateUnevaluated, FinalizeSteps
<1>5. CASE Attest(q)
  <2> DEFINE html == [r.html EXCEPT !.approval = approval]
  <2>1. r.html \in Html  BY <1>5, PageType DEF Attest, FinalizeSteps
  <2>2. html.vetted = r.html.vetted /\ html.signed = r.html.signed  BY <2>1 DEF Html
  <2>3. SignedFor(r.html) /\ GapsIn(Rows) \subseteq seen
    BY <1>0, <1>5 DEF Assured, Attest
  <2>4. SignedFor(html)  BY <2>2, <2>3 DEF SignedFor
  <2>5. Proceed(q, TRUE, "select", {}, html) /\ "select" \in FinalizeSteps
    BY <1>5 DEF Attest, FinalizeSteps
  <2> HIDE DEF html
  <2>6. IsAssured([op |-> "select", targets |-> {}, html |-> html])
    BY <2>3, <2>4 DEF Assured
  <2> QED  BY <2>5, <2>6, ProceedAssured
<1>6. CASE FinalizeSelect(q)
  <2> DEFINE html == [r.html EXCEPT !.rows = Rows, !.makers = author]
  <2>1. r.html \in Html  BY <1>6, PageType DEF FinalizeSelect, FinalizeSteps
  <2>2. /\ html.vetted = r.html.vetted /\ html.signed = r.html.signed
        /\ html.rows = Rows /\ html.makers = author
    BY <2>1 DEF Html
  <2>3. SignedFor(r.html) /\ GapsIn(Rows) \subseteq seen
    BY <1>0, <1>6 DEF Assured, FinalizeSelect
  <2>4. SignedFor(html)  BY <2>2, <2>3 DEF SignedFor
  <2>5. Proceed(q, TRUE, "write", {}, html) /\ "write" \in FinalizeSteps
    BY <1>6 DEF FinalizeSelect, FinalizeSteps
  <2> HIDE DEF html
  <2>6. MadeBy(html)  BY <2>2 DEF MadeBy, FirstRows, RowsNameTheirAuthor, Rows
  <2>7. IsAssured([op |-> "write", targets |-> {}, html |-> html])
    BY <2>2, <2>3, <2>4, <2>6 DEF Assured
  <2> QED  BY <2>5, <2>7, ProceedAssured
<1>7. CASE FinalizeWrite(q)
  <2> DEFINE s == [r EXCEPT !.op = "insert"]
  <2>1. /\ request' = [request EXCEPT ![q] = s] /\ r.op = "write"
        /\ UNCHANGED <<findings, acknowledged, seen, author, report>>
    BY <1>7 DEF FinalizeWrite, historyVars
  <2>2. r \in [op : FinalizeSteps, targets : SUBSET Nat, html : Html]
    BY <2>1, PageType DEF FinalizeSteps
  <2>3. s.op = "insert" /\ s.html = r.html  BY <2>2
  <2> HIDE DEF s
  <2>4. IsAssured(s)  BY <1>0, <2>1, <2>3 DEF Assured
  <2> QED  BY <2>1, <2>3, <2>4, ReadingStep
<1>8. CASE FinalizeInsert(q)
  <2>1. /\ r.op = "insert" /\ UNCHANGED <<findings, acknowledged, seen, author>>
        /\ request' = [request EXCEPT ![q] = Idle]
        /\ report' = IF Frozen THEN report ELSE r.html
    BY <1>8 DEF FinalizeInsert, historyVars
  <2>2. IsAssured(Idle) /\ Idle.op # "review"  BY NothingAssured DEF Idle, FinalizeSteps
  <2>3. ReviewsFindTheirRow'  BY <2>1, <2>2, ReviewsStay DEF FirstRows
  <2>4. GapsIn(Rows)' = GapsIn(Rows)  BY <2>1 DEF GapsIn, Rows
  <2>5. PagesAreTrue'  BY <2>1, <2>2, <2>4, PagesStayTrue DEF FirstRows
  <2>6. GapsIn(r.html.rows) \subseteq seen /\ SignedFor(r.html) /\ MadeBy(r.html)
    BY <1>0, <2>1 DEF Assured
  <2>7. ReportIsTrue'
    <3>1. CASE Frozen
      <4>1. report' = report /\ seen' = seen  BY <2>1, <3>1
      <4>2. GapsSeen(report) /\ SignedFor(report) /\ MadeBy(report)
        BY <3>1 DEF FirstRows, ReportIsTrue
      <4> QED  BY <4>1, <4>2 DEF ReportIsTrue, GapsSeen
    <3>2. CASE ~Frozen
      <4>1. report' = r.html /\ seen' = seen  BY <2>1, <3>2
      <4> QED  BY <4>1, <2>6 DEF ReportIsTrue, GapsSeen
    <3> QED  BY <3>1, <3>2
  <2>8. OneRowEach' /\ RowsNameTheirAuthor' /\ AcknowledgedAreSeen'
    BY <2>1 DEF FirstRows, OneRowEach, RowsNameTheirAuthor, AcknowledgedAreSeen, Unevaluated,
                Rows
  <2> QED  BY <2>3, <2>5, <2>7, <2>8 DEF FirstRows
<1> QED  BY <1>1, <1>2, <1>3, <1>4, <1>5, <1>6, <1>7, <1>8 DEF Finalizing

LEMMA ReviewCommitted ==
    ASSUME TypeOK, FirstRows, NEW q \in Requests, ReviewCommit(q)
    PROVE  FirstRows'
<1> DEFINE r == request[q]
<1>1. /\ request' = [request EXCEPT ![q] = Idle]
      /\ UNCHANGED <<acknowledged, seen, report>>
  BY DEF ReviewCommit
<1>2. Assured(Idle, acknowledged, GapsIn(Rows), seen) /\ Idle.op # "review"
  BY NothingAssured DEF Idle, FinalizeSteps
<1>3. CASE r.generation # generation
  <2>1. UNCHANGED <<findings, author>>  BY <1>3 DEF ReviewCommit
  <2> QED  BY <1>1, <1>2, <2>1, ReadingStep
<1>4. CASE r.generation = generation
  <2>1. PICK row \in DOMAIN findings : row = r.row
    BY DEF FirstRows, ReviewsFindTheirRow, ReviewCommit
  <2>2. /\ findings' = [findings EXCEPT ![row] = Updated(findings[row], r)]
        /\ author' = [author EXCEPT ![findings[row].issue] =
                        IF findings[row] = r.loaded THEN r.by ELSE Nobody]
    BY <1>4, <2>1 DEF ReviewCommit
  <2>3. \A n \in DOMAIN findings : findings[n] \in Finding  BY RowType
  <2>4. r.by \in People /\ r.status \in Decisions
    <3>1. r \in RequestState /\ r.op = "review"  BY DEF ReviewCommit, TypeOK
    <3> HIDE DEF r
    <3> QED  BY <3>1 DEF RequestState, FinalizeSteps, Idle
  <2>5. /\ Updated(findings[row], r).issue = findings[row].issue
        /\ Updated(findings[row], r).id = findings[row].id
        /\ findings[row] = r.loaded => Updated(findings[row], r).by = r.by
    BY <2>3, <2>4, UpdatedType
  <2>6. /\ DOMAIN findings' = DOMAIN findings
        /\ \A n \in DOMAIN findings :
              findings'[n].issue = findings[n].issue /\ findings'[n].id = findings[n].id
    BY <2>2, <2>5
  <2>7. OneRowEach' /\ AcknowledgedAreSeen' /\ GapsIn(Rows)' = GapsIn(Rows)
    BY <1>1, <2>6, DecisionsMove
  <2>8. RowsNameTheirAuthor'
    <3>1. \A n \in DOMAIN findings : findings[n].issue \in Issues  BY <2>3 DEF Finding
    <3>2. ASSUME NEW n \in DOMAIN findings
          PROVE  author'[findings[n].issue] \in {findings'[n].by, Nobody}
      <4>1. CASE n = row
        <5>1. findings'[n] = Updated(findings[row], r)  BY <2>2, <4>1
        <5>2. author'[findings[n].issue] = IF findings[row] = r.loaded THEN r.by ELSE Nobody
          BY <2>2, <3>1, <4>1 DEF TypeOK
        <5> QED  BY <5>1, <5>2, <2>5
      <4>2. CASE n # row
        <5>1. findings'[n] = findings[n]  BY <2>2, <4>2
        <5>2. findings[n].issue # findings[row].issue  BY <4>2 DEF FirstRows, OneRowEach
        <5>3. author'[findings[n].issue] = author[findings[n].issue]
          BY <2>2, <3>1, <5>2 DEF TypeOK
        <5> QED  BY <5>1, <5>3 DEF FirstRows, RowsNameTheirAuthor
      <4> QED  BY <4>1, <4>2
    <3> QED  BY <2>6, <3>2 DEF RowsNameTheirAuthor
  <2>9. ReviewsFindTheirRow'  BY <1>1, <1>2, <2>6, ReviewsStay DEF FirstRows
  <2>10. PagesAreTrue'  BY <1>1, <1>2, <2>7, PagesStayTrue DEF FirstRows
  <2>11. ReportIsTrue'  BY <1>1 DEF FirstRows, ReportIsTrue, GapsSeen, Frozen
  <2> QED  BY <2>7, <2>8, <2>9, <2>10, <2>11 DEF FirstRows
<1> QED  BY <1>3, <1>4

LEMMA FirstRowsNext ==
    ASSUME TypeOK, generation = 0 => FirstRows, [Next]_vars, generation' = 0
    PROVE  FirstRows'
<1>1. generation = 0
  <2>1. (\E w \in Workers : RecheckSave(w)) \/ UNCHANGED generation
    BY DEF Next, vars, historyVars, Finalizing, Proceed, FinalizeRead, GateAcknowledged,
           GateWaved, GateSigned, GateUnevaluated, Attest, FinalizeSelect, FinalizeWrite,
           FinalizeInsert, ReviewRead, ReviewCommit, BulkOk, ApproveRead, ApproveNeeded,
           ApproveCheck, ApproveCommit, Acknowledge, Edit, Recheck, RecheckLoad,
           RecheckCarry, RecheckFails
  <2>2. ASSUME NEW w \in Workers, RecheckSave(w) PROVE FALSE
    BY <2>2 DEF RecheckSave, TypeOK
  <2> QED  BY <2>1, <2>2
<1>2. FirstRows  BY <1>1
<1>3. ASSUME NEW q \in Requests, NEW r, request' = [request EXCEPT ![q] = r],
             r.op \notin FinalizeSteps, r.op = "review" => r.row \in DOMAIN findings,
             UNCHANGED <<findings, acknowledged, seen, author, report>>
      PROVE  FirstRows'
  <2>1. Assured(r, acknowledged, GapsIn(Rows), seen)  BY <1>3, NothingAssured
  <2> QED  BY <1>2, <1>3, <2>1, ReadingStep
<1>4. ASSUME UNCHANGED <<findings, acknowledged, seen, author, request, report>>
      PROVE  FirstRows'
  BY <1>2, <1>4 DEF FirstRows, OneRowEach, RowsNameTheirAuthor, AcknowledgedAreSeen,
       Unevaluated, Rows, ReviewsFindTheirRow, PagesAreTrue, Assured, GapsIn, ReportIsTrue,
       GapsSeen, Frozen
<1>5. ASSUME NEW q \in Requests, NEW p \in People, FinalizeRead(q, p) PROVE FirstRows'
  <2>1. "acknowledged" \in FinalizeSteps  BY DEF FinalizeSteps
  <2>2. Assured([op |-> "acknowledged", targets |-> {}, html |-> Blank(p)],
                acknowledged, GapsIn(Rows), seen)
    BY NothingAssured
  <2> QED  BY <1>2, <1>5, <2>1, <2>2, ProceedAssured DEF FinalizeRead
<1>6. ASSUME NEW q \in Requests, Finalizing(q) PROVE FirstRows'
  BY <1>2, <1>6, FinalizingAssured
<1>7. ASSUME NEW q \in Requests, NEW p \in People, NEW n \in DOMAIN findings,
             NEW d \in Decisions, ReviewRead(q, p, n, d)
      PROVE  FirstRows'
  <2> DEFINE r == [op |-> "review", by |-> p, row |-> n, generation |-> generation,
                   loaded |-> findings[n], status |-> d]
  <2>1. /\ request' = [request EXCEPT ![q] = r]
        /\ UNCHANGED <<findings, acknowledged, seen, author, report>>
    BY <1>7 DEF ReviewRead, historyVars
  <2>2. r.op \notin FinalizeSteps /\ r.row \in DOMAIN findings  BY DEF FinalizeSteps
  <2> HIDE DEF r
  <2> QED  BY <1>3, <2>1, <2>2
<1>8. ASSUME NEW q \in Requests, ReviewCommit(q) PROVE FirstRows'
  BY <1>2, <1>8, ReviewCommitted
<1>9. ASSUME NEW q \in Requests, NEW p \in People, ApproveRead(q, p) PROVE FirstRows'
  <2> DEFINE r == [op |-> "approval", by |-> p, waved |-> Waved]
  <2>1. /\ request' = [request EXCEPT ![q] = r]
        /\ UNCHANGED <<findings, acknowledged, seen, author, report>>
    BY <1>9 DEF ApproveRead, historyVars
  <2>2. r.op \notin FinalizeSteps /\ r.op # "review"  BY DEF FinalizeSteps
  <2> HIDE DEF r
  <2> QED  BY <1>3, <2>1, <2>2
<1>10. ASSUME NEW q \in Requests, Approving(q) PROVE FirstRows'
  <2> DEFINE S == [op : {"approval", "reviewers", "sign"}, by : People,
                   waved : SUBSET Finding]
  <2>1. request[q] \in S
    BY <1>10 DEF Approving, ApproveNeeded, ApproveCheck, ApproveCommit, TypeOK,
                 RequestState, FinalizeSteps, Idle
  <2>2. UNCHANGED <<findings, acknowledged, seen, author, report>>
    BY <1>10 DEF Approving, ApproveNeeded, ApproveCheck, ApproveCommit, historyVars
  <2>3. PICK r : /\ request' = [request EXCEPT ![q] = r]
                 /\ r \in {Idle, [request[q] EXCEPT !.op = "reviewers"],
                           [request[q] EXCEPT !.op = "sign"]}
    BY <1>10 DEF Approving, ApproveNeeded, ApproveCheck, ApproveCommit
  <2>4. r.op \notin FinalizeSteps /\ r.op # "review"  BY <2>1, <2>3 DEF FinalizeSteps, Idle
  <2> QED  BY <1>3, <2>2, <2>3, <2>4
<1>11. ASSUME NEW p \in People, BulkOk(p) PROVE FirstRows'
  <2> DEFINE hit == {n \in DOMAIN findings :
                       Kind(findings[n].issue) = "low" /\ findings[n].status = "undecided"}
  <2>1. /\ findings' = [n \in DOMAIN findings |->
            IF n \in hit THEN [findings[n] EXCEPT !.status = "waved", !.by = p] ELSE findings[n]]
        /\ author' = [i \in Issues |-> IF \E n \in hit : findings[n].issue = i THEN p ELSE author[i]]
        /\ UNCHANGED <<acknowledged, seen, request, report>>
    BY <1>11 DEF BulkOk
  <2>2. hit \subseteq DOMAIN findings  OBVIOUS
  <2> HIDE DEF hit
  <2>3. \A n \in DOMAIN findings : findings[n] \in Finding  BY RowType
  <2>4. /\ DOMAIN findings' = DOMAIN findings
        /\ \A n \in DOMAIN findings :
              /\ findings'[n].issue = findings[n].issue /\ findings'[n].id = findings[n].id
              /\ findings'[n].by = IF n \in hit THEN p ELSE findings[n].by
    BY <2>1, <2>3 DEF Finding
  <2>5. OneRowEach' /\ AcknowledgedAreSeen' /\ GapsIn(Rows)' = GapsIn(Rows)
    BY <1>2, <2>1, <2>4, DecisionsMove
  <2>6. RowsNameTheirAuthor'
    <3>1. \A n \in DOMAIN findings : findings[n].issue \in Issues  BY <2>3 DEF Finding
    <3>2. \A n \in DOMAIN findings :
             author'[findings[n].issue] = IF n \in hit THEN p ELSE author[findings[n].issue]
      BY <1>2, <2>1, <2>2, <3>1 DEF FirstRows, OneRowEach
    <3> QED  BY <1>2, <2>4, <3>2 DEF FirstRows, RowsNameTheirAuthor
  <2>7. ReviewsFindTheirRow'  BY <1>2, <2>1, <2>4 DEF FirstRows, ReviewsFindTheirRow
  <2>8. PagesAreTrue'  BY <1>2, <2>1, <2>5 DEF FirstRows, PagesAreTrue
  <2>9. ReportIsTrue'  BY <1>2, <2>1 DEF FirstRows, ReportIsTrue, GapsSeen, Frozen
  <2> QED  BY <2>5, <2>6, <2>7, <2>8, <2>9 DEF FirstRows
<1>12. ASSUME NEW id, Acknowledge(id) PROVE FirstRows'
  <2>1. /\ acknowledged' = acknowledged \cup {id}
        /\ seen' = seen \cup {f.issue : f \in {g \in Unevaluated : g.id = id}}
        /\ UNCHANGED <<findings, author, request, report>>
    BY <1>12 DEF Acknowledge
  <2>2. AcknowledgedAreSeen'
    BY <1>2, <2>1 DEF FirstRows, AcknowledgedAreSeen, Unevaluated, Rows
  <2>3. OneRowEach' /\ RowsNameTheirAuthor' /\ ReviewsFindTheirRow'
    BY <1>2, <2>1 DEF FirstRows, OneRowEach, RowsNameTheirAuthor, ReviewsFindTheirRow
  <2>4. acknowledged \subseteq acknowledged' /\ seen \subseteq seen'  BY <2>1
  <2>5. GapsIn(Rows)' = GapsIn(Rows)  BY <2>1 DEF GapsIn, Rows
  <2>6. PagesAreTrue'
    BY <1>2, <2>1, <2>4, <2>5 DEF FirstRows, PagesAreTrue, Assured
  <2>7. ReportIsTrue'  BY <1>2, <2>1, <2>4 DEF FirstRows, ReportIsTrue, GapsSeen, Frozen
  <2> QED  BY <2>2, <2>3, <2>6, <2>7 DEF FirstRows
<1>13. ASSUME NEW i \in Issues, Edit(i) PROVE FirstRows'
  BY <1>4, <1>13 DEF Edit, historyVars
<1>14. CASE Recheck
  BY <1>4, <1>14 DEF Recheck, historyVars
<1>15. ASSUME NEW w \in Workers,
              RecheckLoad(w) \/ RecheckCarry(w) \/ RecheckSave(w) \/ RecheckFails(w)
       PROVE  FirstRows'
  <2>1. ~RecheckSave(w)  BY <1>1 DEF RecheckSave
  <2> QED  BY <1>4, <1>15, <2>1 DEF RecheckLoad, RecheckCarry, RecheckFails, historyVars
<1>16. CASE UNCHANGED vars  BY <1>4, <1>16 DEF vars, historyVars
<1> QED
  BY <1>5, <1>6, <1>7, <1>8, <1>9, <1>10, <1>11, <1>12, <1>13, <1>14, <1>15, <1>16
  DEF Next, Approving

LEMMA ReviewIInvStep == ReviewIInv /\ [Next]_vars => ReviewIInv'
<1>1. TypeOK /\ [Next]_vars => TypeOK'  BY TypeNext
<1> QED  BY <1>1, FirstRowsNext DEF ReviewIInv

LEMMA ReviewIInvHolds == Spec => []ReviewIInv
<1>1. Init => ReviewIInv  BY TypeInit, FirstRowsInit DEF ReviewIInv
<1> QED  BY <1>1, ReviewIInvStep, PTL DEF Spec

\* What the gate let through is true of the report.
TrueReport == Frozen /\ GapsSeen(report) /\ SignedFor(report) /\ MadeBy(report)

LEMMA TruePages ==
    ASSUME Frozen => TrueReport
    PROVE  NoGapFrozenUnseen /\ ApproverIsSomebodyElse
<1>1. NoGapFrozenUnseen  BY DEF NoGapFrozenUnseen, FrozenRows, TrueReport, GapsSeen, GapsIn
<1>2. ApproverIsSomebodyElse
  <2> SUFFICES ASSUME Frozen, ~SignedMeanwhile,
                      NEW f \in FrozenRows("serious") \ DecidedMeanwhile, f.status = "waved"
               PROVE  report.approval.by \notin {Nobody, report.makers[f.issue]}
    BY DEF ApproverIsSomebodyElse
  <2>1. report.approval = report.signed /\ f \in report.vetted /\ f \in report.rows
    BY DEF SignedMeanwhile, DecidedMeanwhile, FrozenRows
  <2>2. report.signed.by \notin {Nobody} \cup Reviewers(report.vetted)
    BY <2>1 DEF TrueReport, SignedFor
  <2>3. report.makers[f.issue] \in {f.by, Nobody}  BY <2>1 DEF TrueReport, MadeBy
  <2> QED  BY <2>1, <2>2, <2>3 DEF Reviewers
<1> QED  BY <1>1, <1>2

\* Unless a re-check replaced the findings, every gap in a frozen report was
\* acknowledged, whatever the requests that decided, froze and signed overlapped.
THEOREM GapsAreSeen == Spec => [](generation = 0 => NoGapFrozenUnseen)
<1>1. ReviewIInv => (generation = 0 => NoGapFrozenUnseen)
  BY TruePages DEF ReviewIInv, FirstRows, ReportIsTrue, TrueReport
<1> QED  BY <1>1, ReviewIInvHolds, PTL

\* Unless a re-check replaced the findings, what was waved through in a frozen
\* report was signed for by somebody other than who waved it, but for what was
\* decided, or signed, after the finalizer's gate had looked: each of the gate's
\* SELECTs, of the attestation's and of the page's may be overtaken.
THEOREM SomebodyElseSigned == Spec => [](generation = 0 => ApproverIsSomebodyElse)
<1>1. ReviewIInv => (generation = 0 => ApproverIsSomebodyElse)
  BY TruePages DEF ReviewIInv, FirstRows, ReportIsTrue, TrueReport
<1> QED  BY <1>1, ReviewIInvHolds, PTL

-----------------------------------------------------------------------------
(* What a step may not do. *)

LEMMA StoredStays == [Next]_vars => (Frozen => report' = report)
<1> SUFFICES ASSUME [Next]_vars, Frozen PROVE report' = report  OBVIOUS
<1>1. ASSUME NEW q \in Requests, FinalizeInsert(q) PROVE UNCHANGED report
  BY <1>1 DEF FinalizeInsert
<1>2. (\E q \in Requests : FinalizeInsert(q)) \/ UNCHANGED report
  BY DEF Next, vars, historyVars, Finalizing, Proceed, FinalizeRead, GateAcknowledged,
         GateWaved, GateSigned, GateUnevaluated, Attest, FinalizeSelect, FinalizeWrite,
         ReviewRead, ReviewCommit, BulkOk, ApproveRead, ApproveNeeded, ApproveCheck,
         ApproveCommit, Acknowledge, Edit, Recheck, RecheckLoad, RecheckCarry, RecheckSave,
         RecheckFails
<1> QED  BY <1>1, <1>2

\* A stored report is never replaced, whatever finalizers passed the check with
\* the one that stored it.
THEOREM ReportIsFinal == Spec => OneReport
<1>1. [Next]_vars => [Frozen => report' = report]_vars  BY StoredStays
<1> QED  BY <1>1, PTL DEF Spec, OneReport

\* What was true when it was frozen stays so through every later re-check.
LEMMA TrueReportStays == TrueReport /\ [Next]_vars => TrueReport'
<1> SUFFICES ASSUME TrueReport, [Next]_vars PROVE TrueReport'  OBVIOUS
<1>1. UNCHANGED report  BY StoredStays DEF TrueReport
<1>2. seen \subseteq seen'
  <2>1. (\E id \in {f.id : f \in Unevaluated} : Acknowledge(id)) \/ UNCHANGED seen
    BY DEF Next, vars, historyVars, Finalizing, Proceed, FinalizeRead, GateAcknowledged,
           GateWaved, GateSigned, GateUnevaluated, Attest, FinalizeSelect, FinalizeWrite,
           FinalizeInsert, ReviewRead, ReviewCommit, BulkOk, ApproveRead, ApproveNeeded,
           ApproveCheck, ApproveCommit, Edit, Recheck, RecheckLoad, RecheckCarry,
           RecheckSave, RecheckFails
  <2>2. ASSUME NEW id, Acknowledge(id) PROVE seen \subseteq seen'
    BY <2>2 DEF Acknowledge
  <2> QED  BY <2>1, <2>2
<1> QED  BY <1>1, <1>2 DEF TrueReport, Frozen, GapsSeen

\* A report frozen before any re-check keeps both promises for good.
THEOREM FrozenInTimeStaysTrue ==
    Spec => [](Frozen /\ generation = 0 => [](NoGapFrozenUnseen /\ ApproverIsSomebodyElse))
<1>1. ReviewIInv => (Frozen /\ generation = 0 => TrueReport)
  BY DEF ReviewIInv, FirstRows, ReportIsTrue, TrueReport
<1>2. TrueReport => NoGapFrozenUnseen /\ ApproverIsSomebodyElse
  BY TruePages
<1> QED  BY <1>1, <1>2, TrueReportStays, ReviewIInvHolds, PTL DEF Spec

\* A re-check that raises an issue again gives it the decision its rows agreed on,
\* if the rows it read are the rows it deletes.
LEMMA AgreedIsCarried ==
    ASSUME TypeOK, NEW w \in Workers, RecheckSave(w),
           NEW i \in Issues \ DecidedSince(w), NEW d \in Decisions,
           \A n \in DOMAIN findings : findings[n].issue = i => findings[n].status = d,
           \E n \in DOMAIN findings : findings[n].issue = i,
           NEW m \in DOMAIN findings', findings'[m].issue = i
    PROVE  findings'[m].status = d
<1> DEFINE rows == worker[w].previous
<1>1. PICK row \in Finding : findings'[m] = Carried(rows, row)
  BY RebuiltFacts DEF RecheckSave
<1>2. rows \in Seq(Finding)  BY RebuiltFacts DEF RecheckSave
<1>3. RowsOf(rows, i) = RowsOf(findings, i)  BY DEF DecidedSince
<1>4. \A n \in DOMAIN rows : rows[n].issue = i => rows[n].status = d
  <2> SUFFICES ASSUME NEW n \in DOMAIN rows, rows[n].issue = i PROVE rows[n].status = d
    OBVIOUS
  <2>1. rows[n] \in RowsOf(rows, i)  BY DEF RowsOf
  <2>2. PICK k \in DOMAIN findings : findings[k].issue = i /\ findings[k] = rows[n]
    BY <1>3, <2>1 DEF RowsOf
  <2> QED  BY <2>2
<1>5. \E n \in DOMAIN rows : rows[n].issue = i
  <2>1. RowsOf(findings, i) # {}  BY DEF RowsOf
  <2> QED  BY <1>3, <2>1 DEF RowsOf
<1> HIDE DEF rows
<1>6. row.issue = i  BY <1>1, <1>2, CarriedFacts
<1> DEFINE same == {n \in DOMAIN rows : rows[n].issue = row.issue}
           last == CHOOSE n \in same : \A k \in same : k <= n
<1>7. same # {}  BY <1>5, <1>6
<1>8. last \in same
  <2>1. Len(rows) \in Nat /\ same \in SUBSET (1 .. Len(rows))  BY <1>2
  <2> HIDE DEF same
  <2> QED  BY <2>1, <1>7, Largest
<1>9. rows[last].status = d  BY <1>4, <1>6, <1>8
<1>10. Carried(rows, row) = [row EXCEPT !.by = Nobody,
                               !.status = IF same = {} THEN @ ELSE rows[last].status]
  BY DEF Carried
<1> HIDE DEF same, last
<1> QED  BY <1>1, <1>7, <1>9, <1>10 DEF Finding

\* A re-check keeps every decision that the rows of an issue agree on, but for the
\* issues somebody decided between its SELECT of the decisions and its DELETE.
THEOREM DecisionsAreCarried == Spec => AgreedDecisionsSurvive
<1> DEFINE Stays == \A w \in Workers : RecheckSave(w) =>
              \A i \in Issues \ DecidedSince(w), d \in Decisions :
                 (\A n \in DOMAIN findings : findings[n].issue = i => findings[n].status = d)
                 /\ (\E n \in DOMAIN findings : findings[n].issue = i)
                 => \A n \in DOMAIN findings' : findings'[n].issue = i => findings'[n].status = d
<1>1. TypeOK /\ [Next]_vars => [Stays]_vars  BY AgreedIsCarried
<1>2. []TypeOK /\ [][Next]_vars => [][Stays]_vars
  <2> HIDE DEF Stays
  <2> QED  BY <1>1, PTL
<1> QED  BY <1>2, ReviewTypeCorrect DEF Spec, AgreedDecisionsSurvive

-----------------------------------------------------------------------------
(***************************************************************************)
(* Proofs about Signatures, for any findings, runs, customers and          *)
(* requests.                                                               *)
(*                                                                         *)
(* A row follows its verdicts because a request that will write it has     *)
(* concluded from what the verdicts will be, and that stays so until       *)
(* somebody else decides on the signature or takes a verdict away: then    *)
(* the conclusion is remembered as overtaken.                              *)
(***************************************************************************)

Judgements == [RunFindings -> {"undecided", "gone"} \cup Verdicts]
SignatureStates == {"none", "blocked", "watching", "would_demote"}
Conclusions == UNION {[K -> SignatureStates] : K \in SUBSET SignatureKeys}
OpenDecisions ==
    [findings : SUBSET RunFindings, verdict : {"undecided"} \cup Verdicts,
     concluded : Conclusions, missed : SUBSET SignatureKeys, adds : SUBSET SignatureKeys]

SignaturesTyped ==
    /\ verdict \in Judgements
    /\ state \in [SignatureKeys -> SignatureStates]
    /\ deciding \in [Deciders -> OpenDecisions]
    /\ stale \subseteq SignatureKeys
    /\ given \in Nat

\* The verdicts there are when a request that decides d commits.
After(d, v) == [f \in RunFindings |-> IF f \in d.findings THEN d.verdict ELSE v[f]]

\* What d concludes of a signature is what the verdicts then say, in the spelling of one
\* of the findings that have one.
ConcludesOn(k, d, v) ==
    \E g \in RunFindings :
        /\ SignatureOf(g) = k /\ After(d, v)[g] \in Verdicts
        /\ d.concluded[k] = Decide(After(d, v), Counted(After(d, v), k, SpelledBy(g)))

ConclusionsHold ==
    \A q \in Deciders : \A k \in DOMAIN deciding[q].concluded \ deciding[q].missed :
        ConcludesOn(k, deciding[q], verdict)

HasRule(k) == k[2] # ""

\* A request concludes on every signature it decides a finding of, and on no finding
\* that has none.
Covers(d) ==
    /\ \A f \in d.findings : Tracked(f) => SignatureOf(f) \in DOMAIN d.concluded
    /\ \A k \in DOMAIN d.concluded : k[2] # ""

\* A row says what the verdicts add up to if they agree on a spelling.
Follows(k, row, v) ==
    \A g \in RunFindings :
        /\ SignatureOf(g) = k /\ v[g] \in Verdicts /\ k[2] # ""
        /\ \A f \in RunFindings :
              SignatureOf(f) = k /\ v[f] \in Verdicts => SpelledBy(f) = SpelledBy(g)
        => row = Decide(v, Counted(v, k, SpelledBy(g)))

RowsFollow == \A k \in SignatureKeys \ stale : Follows(k, state[k], verdict)

SignaturesIInv ==
    /\ SignaturesTyped
    /\ ConclusionsHold
    /\ \A q \in Deciders : Covers(deciding[q])
    /\ RowsFollow

\* The verdicts v and w on a signature are the same.
SameOn(k, v, w) ==
    \A f \in RunFindings :
        SignatureOf(f) = k /\ (v[f] \in Verdicts \/ w[f] \in Verdicts) => v[f] = w[f]

LEMMA SignatureOfType ==
    ASSUME NEW f \in RunFindings
    PROVE  SignatureOf(f) \in SignatureKeys /\ SignatureOf(f)[2] = FindingOf[f].subject
BY DEF SignatureOf, SignatureKeys

LEMMA DecideType ==
    ASSUME NEW v, NEW counted
    PROVE  Decide(v, counted) \in SignatureStates
BY DEF Decide, SignatureStates

LEMMA AfterType ==
    ASSUME NEW d \in OpenDecisions, NEW v \in Judgements
    PROVE  After(d, v) \in Judgements
BY DEF After, OpenDecisions, Judgements

\* Equal verdicts are counted and judged alike, and whatever is concluded of them.
LEMMA SameConclusion ==
    ASSUME NEW v \in Judgements, NEW w \in Judgements, NEW k \in SignatureKeys,
           SameOn(k, v, w), NEW g \in RunFindings
    PROVE  Decide(v, Counted(v, k, SpelledBy(g))) = Decide(w, Counted(w, k, SpelledBy(g)))
<1>1. Counted(v, k, SpelledBy(g)) = Counted(w, k, SpelledBy(g))
  BY DEF SameOn, Counted
<1>2. \A f \in Counted(v, k, SpelledBy(g)) : v[f] = w[f]
  BY DEF SameOn, Counted
<1> DEFINE C == Counted(v, k, SpelledBy(g))
<1>3. Decide(v, C) = Decide(w, C)
  <2> HIDE DEF C
  <2> QED BY <1>2 DEF Decide, C
<1> QED BY <1>1, <1>3

LEMMA FollowsKept ==
    ASSUME NEW v \in Judgements, NEW w \in Judgements, NEW k \in SignatureKeys,
           SameOn(k, v, w), NEW row \in SignatureStates, Follows(k, row, v)
    PROVE  Follows(k, row, w)
<1> SUFFICES ASSUME NEW g \in RunFindings,
                    SignatureOf(g) = k, w[g] \in Verdicts, k[2] # "",
                    \A f \in RunFindings :
                       SignatureOf(f) = k /\ w[f] \in Verdicts => SpelledBy(f) = SpelledBy(g)
             PROVE  row = Decide(w, Counted(w, k, SpelledBy(g)))
  BY DEF Follows
<1>1. \A f \in RunFindings :
         SignatureOf(f) = k /\ v[f] \in Verdicts => SpelledBy(f) = SpelledBy(g)
  BY DEF SameOn
<1>2. v[g] \in Verdicts
  BY DEF SameOn
<1>3. row = Decide(v, Counted(v, k, SpelledBy(g)))
  BY <1>1, <1>2 DEF Follows
<1> QED BY <1>3, SameConclusion

LEMMA ConcludesKept ==
    ASSUME NEW v \in Judgements, NEW w \in Judgements, NEW k \in SignatureKeys,
           SameOn(k, v, w), NEW d \in OpenDecisions, ConcludesOn(k, d, v)
    PROVE  ConcludesOn(k, d, w)
<1>1. SameOn(k, After(d, v), After(d, w))
  BY DEF SameOn, After
<1>2. After(d, v) \in Judgements /\ After(d, w) \in Judgements
  BY AfterType
<1>3. PICK g \in RunFindings :
        /\ SignatureOf(g) = k /\ After(d, v)[g] \in Verdicts
        /\ d.concluded[k] = Decide(After(d, v), Counted(After(d, v), k, SpelledBy(g)))
  BY DEF ConcludesOn
<1>4. After(d, w)[g] \in Verdicts
  BY <1>1, <1>3 DEF SameOn
<1>5. d.concluded[k] = Decide(After(d, w), Counted(After(d, w), k, SpelledBy(g)))
  BY <1>1, <1>2, <1>3, SameConclusion
<1> QED BY <1>3, <1>4, <1>5 DEF ConcludesOn

\* A conclusion that holds is what the row is to say.
LEMMA ConclusionFollows ==
    ASSUME NEW v \in Judgements, NEW k \in SignatureKeys, NEW d \in OpenDecisions,
           ConcludesOn(k, d, v)
    PROVE  Follows(k, d.concluded[k], After(d, v))
<1>1. PICK g \in RunFindings :
        /\ SignatureOf(g) = k /\ After(d, v)[g] \in Verdicts
        /\ d.concluded[k] = Decide(After(d, v), Counted(After(d, v), k, SpelledBy(g)))
  BY DEF ConcludesOn
<1> DEFINE w == After(d, v)
<1> HIDE DEF w
<1>2. ASSUME NEW h \in RunFindings,
             \A f \in RunFindings :
                SignatureOf(f) = k /\ w[f] \in Verdicts => SpelledBy(f) = SpelledBy(h)
      PROVE  d.concluded[k] = Decide(w, Counted(w, k, SpelledBy(h)))
  <2>1. SpelledBy(g) = SpelledBy(h)
    BY <1>1, <1>2 DEF w
  <2> QED BY <1>1, <2>1 DEF w
<1> QED BY <1>2 DEF Follows, w

LEMMA ConclusionsType ==
    ASSUME NEW d \in OpenDecisions
    PROVE  /\ DOMAIN d.concluded \subseteq SignatureKeys
           /\ \A k \in DOMAIN d.concluded : d.concluded[k] \in SignatureStates
           /\ d.findings \subseteq RunFindings /\ d.missed \subseteq SignatureKeys
<1>1. d.concluded \in Conclusions
  BY DEF OpenDecisions
<1>2. PICK K \in SUBSET SignatureKeys : d.concluded \in [K -> SignatureStates]
  BY <1>1 DEF Conclusions
<1> QED BY <1>2 DEF OpenDecisions

LEMMA NotDecidingType ==
    /\ NotDeciding \in OpenDecisions
    /\ NotDeciding.findings = {} /\ DOMAIN NotDeciding.concluded = {}
    /\ Covers(NotDeciding)
<1>1. [k \in {} |-> ""] \in [{} -> SignatureStates]
  OBVIOUS
<1>2. [k \in {} |-> ""] \in Conclusions
  <2>1. {} \in SUBSET SignatureKeys
    OBVIOUS
  <2> QED BY <1>1, <2>1 DEF Conclusions
<1> QED BY <1>2 DEF NotDeciding, OpenDecisions, Covers

\* RecomputeFor concludes on the signatures of the findings it is given.
LEMMA RecomputeType ==
    ASSUME NEW v \in Judgements, NEW r, NEW S \in SUBSET RunFindings
    PROVE  /\ RecomputeFor(v, r, S) \in Conclusions
           /\ DOMAIN RecomputeFor(v, r, S) = {SignatureOf(f) : f \in {g \in S : Tracked(g)}}
           /\ \A k \in DOMAIN RecomputeFor(v, r, S) :
                 RecomputeFor(v, r, S)[k] = Decide(v, Counted(v, k, CustomerOf[r]))
<1> DEFINE K == {SignatureOf(f) : f \in {g \in S : Tracked(g)}}
<1>1. K \in SUBSET SignatureKeys
  BY SignatureOfType
<1>2. RecomputeFor(v, r, S) = [k \in K |-> Decide(v, Counted(v, k, CustomerOf[r]))]
  BY DEF RecomputeFor
<1> HIDE DEF K
<1>3. RecomputeFor(v, r, S) \in [K -> SignatureStates]
  BY <1>2, DecideType
<1>4. RecomputeFor(v, r, S) \in Conclusions
  BY <1>1, <1>3 DEF Conclusions
<1> QED BY <1>2, <1>4 DEF K

LEMMA InitSignatures == SignaturesInit => SignaturesIInv
<1> SUFFICES ASSUME SignaturesInit PROVE SignaturesIInv
  OBVIOUS
<1>1. SignaturesTyped
  BY NotDecidingType DEF SignaturesInit, SignaturesTyped, Judgements, SignatureStates
<1>2. ConclusionsHold /\ \A q \in Deciders : Covers(deciding[q])
  BY NotDecidingType DEF SignaturesInit, ConclusionsHold
<1>3. \A f \in RunFindings : verdict[f] \notin Verdicts
  BY DEF SignaturesInit, Verdicts, DISMISSING_VERDICTS, UPHOLDING_VERDICTS
<1>4. RowsFollow
  BY <1>3 DEF RowsFollow, Follows
<1> QED BY <1>1, <1>2, <1>4 DEF SignaturesIInv

\* A request begins: its conclusions are those of the verdicts there will be.
LEMMA BeginStep ==
    ASSUME SignaturesIInv, NEW q \in Deciders, NEW v \in Verdicts,
           NEW F \in SUBSET RunFindings, NEW S \in SUBSET RunFindings, NEW r,
           NEW w \in Judgements, w = [f \in RunFindings |-> IF f \in F THEN v ELSE verdict[f]],
           F \subseteq S, \A f \in S : RunOf(f) = r /\ w[f] \in Verdicts,
           Begin(q, F, v, RecomputeFor(w, r, S))
    PROVE  SignaturesIInv'
<1> DEFINE C == RecomputeFor(w, r, S)
           new == [findings |-> F, verdict |-> v, concluded |-> C, missed |-> {},
                   adds |-> {k \in DOMAIN C : state[k] = "none"}]
<1>1. /\ C \in Conclusions
      /\ DOMAIN C = {SignatureOf(f) : f \in {g \in S : Tracked(g)}}
      /\ \A k \in DOMAIN C : C[k] = Decide(w, Counted(w, k, CustomerOf[r]))
  BY RecomputeType
<1>2. DOMAIN C \subseteq SignatureKeys
  BY <1>1, SignatureOfType
<1>3. /\ deciding' = [deciding EXCEPT ![q] = new] /\ given' = given + 1
      /\ UNCHANGED <<verdict, state, stale>>
  BY DEF Begin
<1> HIDE DEF C
<1>4. new \in OpenDecisions
  BY <1>1, <1>2 DEF OpenDecisions
<1>5. new.findings = F /\ new.verdict = v /\ new.concluded = C /\ new.missed = {}
  OBVIOUS
<1> HIDE DEF new
<1>6. \A p \in Deciders : deciding'[p] = IF p = q THEN new ELSE deciding[p]
  BY <1>3 DEF SignaturesIInv, SignaturesTyped
<1>7. SignaturesTyped'
  BY <1>3, <1>4 DEF SignaturesIInv, SignaturesTyped
<1>8. ASSUME NEW k \in DOMAIN C PROVE ConcludesOn(k, new, verdict)
  <2>1. PICK g \in S : Tracked(g) /\ SignatureOf(g) = k
    BY <1>1
  <2>2. After(new, verdict) = w
    BY <1>5 DEF After
  <2>3. w[g] \in Verdicts /\ SpelledBy(g) = CustomerOf[r]
    BY DEF SpelledBy
  <2> QED BY <1>1, <1>5, <2>1, <2>2, <2>3 DEF ConcludesOn
<1>9. ConclusionsHold'
  BY <1>3, <1>5, <1>6, <1>8 DEF SignaturesIInv, ConclusionsHold
<1>10. Covers(new)
  <2>1. \A f \in F : Tracked(f) => SignatureOf(f) \in DOMAIN C
    BY <1>1
  <2>2. \A k \in DOMAIN C : k[2] # ""
    BY <1>1, SignatureOfType DEF Tracked
  <2> QED BY <1>5, <2>1, <2>2 DEF Covers
<1>11. \A p \in Deciders : Covers(deciding'[p])
  BY <1>6, <1>10 DEF SignaturesIInv
<1>12. RowsFollow'
  BY <1>3 DEF SignaturesIInv, RowsFollow
<1> QED BY <1>7, <1>9, <1>11, <1>12 DEF SignaturesIInv

LEMMA ReviewFindingStep ==
    ASSUME SignaturesIInv, NEW q \in Deciders, NEW f \in RunFindings,
           NEW v \in {"confirmed", "false_positive"}, ReviewFinding(q, f, v)
    PROVE  SignaturesIInv'
<1> DEFINE w == [verdict EXCEPT ![f] = v]
<1>1. v \in Verdicts
  BY DEF Verdicts, DISMISSING_VERDICTS, UPHOLDING_VERDICTS
<1>2. w = [g \in RunFindings |-> IF g \in {f} THEN v ELSE verdict[g]] /\ w \in Judgements
  BY <1>1 DEF SignaturesIInv, SignaturesTyped, Judgements
<1>3. Begin(q, {f}, v, RecomputeFor(w, RunOf(f), {f}))
  BY DEF ReviewFinding
<1>4. \A g \in {f} : RunOf(g) = RunOf(f) /\ w[g] \in Verdicts
  BY <1>1, <1>2
<1> HIDE DEF w
<1> QED BY <1>1, <1>2, <1>3, <1>4, BeginStep

LEMMA BulkOkStep ==
    ASSUME SignaturesIInv, NEW q \in Deciders, NEW r, BulkOkLowSeverity(q, r)
    PROVE  SignaturesIInv'
<1> DEFINE low == {f \in RunFindings : /\ RunOf(f) = r /\ verdict[f] = "undecided"
                                       /\ FindingOf[f].severity = "low"}
           w == [f \in RunFindings |-> IF f \in low THEN "false_positive" ELSE verdict[f]]
           S == {f \in RunFindings : RunOf(f) = r /\ w[f] \in Verdicts}
<1>1. "false_positive" \in Verdicts
  BY DEF Verdicts, DISMISSING_VERDICTS
<1>2. w \in Judgements
  BY <1>1 DEF SignaturesIInv, SignaturesTyped, Judgements
<1>3. Begin(q, low, "false_positive", RecomputeFor(w, r, S))
  BY DEF BulkOkLowSeverity, RecomputeForRun
<1>4. low \in SUBSET RunFindings /\ S \in SUBSET RunFindings /\ low \subseteq S
  BY <1>1
<1>5. \A f \in S : RunOf(f) = r /\ w[f] \in Verdicts
  OBVIOUS
<1>6. w = [f \in RunFindings |-> IF f \in low THEN "false_positive" ELSE verdict[f]]
  OBVIOUS
<1> HIDE DEF w, S, low
<1> QED BY <1>1, <1>2, <1>3, <1>4, <1>5, <1>6, BeginStep

\* Conclusions that were overtaken are remembered; nothing else of a request changes.
LEMMA OvertakenType ==
    ASSUME NEW D \in [Deciders -> OpenDecisions], NEW K \in SUBSET SignatureKeys
    PROVE  /\ Overtaken(D, K) \in [Deciders -> OpenDecisions]
           /\ \A p \in Deciders :
                 /\ Overtaken(D, K)[p].findings = D[p].findings
                 /\ Overtaken(D, K)[p].verdict = D[p].verdict
                 /\ Overtaken(D, K)[p].concluded = D[p].concluded
                 /\ Overtaken(D, K)[p].missed = D[p].missed \cup (K \cap DOMAIN D[p].concluded)
<1> SUFFICES ASSUME NEW p \in Deciders
             PROVE  /\ Overtaken(D, K)[p] \in OpenDecisions
                    /\ Overtaken(D, K)[p].findings = D[p].findings
                    /\ Overtaken(D, K)[p].verdict = D[p].verdict
                    /\ Overtaken(D, K)[p].concluded = D[p].concluded
                    /\ Overtaken(D, K)[p].missed = D[p].missed \cup (K \cap DOMAIN D[p].concluded)
  BY DEF Overtaken
<1> DEFINE M == D[p].missed \cup (K \cap DOMAIN D[p].concluded)
<1>1. Overtaken(D, K)[p] = [D[p] EXCEPT !.missed = M]
  BY DEF Overtaken
<1>2. D[p] \in OpenDecisions /\ M \in SUBSET SignatureKeys
  BY DEF OpenDecisions
<1> HIDE DEF M
<1>3. Overtaken(D, K)[p] \in OpenDecisions
  BY <1>1, <1>2 DEF OpenDecisions
<1>4. /\ Overtaken(D, K)[p].findings = D[p].findings
      /\ Overtaken(D, K)[p].verdict = D[p].verdict
      /\ Overtaken(D, K)[p].concluded = D[p].concluded
      /\ Overtaken(D, K)[p].missed = M
  BY <1>1, <1>2 DEF OpenDecisions
<1> QED BY <1>3, <1>4 DEF M

LEMMA OvertakenAs ==
    ASSUME NEW D \in [Deciders -> OpenDecisions], NEW K \in SUBSET SignatureKeys,
           deciding' = Overtaken(D, K), NEW p \in Deciders
    PROVE  /\ deciding'[p].findings = D[p].findings /\ deciding'[p].verdict = D[p].verdict
           /\ deciding'[p].concluded = D[p].concluded
           /\ deciding'[p].missed = D[p].missed \cup (K \cap DOMAIN D[p].concluded)
BY OvertakenType

\* When verdicts change on signatures that are then overtaken, what is not overtaken holds.
LEMMA OvertakingKeeps ==
    ASSUME SignaturesIInv, NEW D \in [Deciders -> OpenDecisions], NEW K \in SUBSET SignatureKeys,
           \A p \in Deciders : D[p] \in {deciding[p], NotDeciding},
           deciding' = Overtaken(D, K), verdict' \in Judgements,
           \A k \in SignatureKeys \ K : HasRule(k) => SameOn(k, verdict, verdict')
    PROVE  ConclusionsHold' /\ \A p \in Deciders : Covers(deciding'[p])
<1>1. ASSUME NEW p \in Deciders
      PROVE  /\ Covers(deciding'[p])
             /\ \A k \in DOMAIN deciding'[p].concluded \ deciding'[p].missed :
                   ConcludesOn(k, deciding'[p], verdict')
  <2>1. /\ deciding'[p].findings = D[p].findings /\ deciding'[p].verdict = D[p].verdict
        /\ deciding'[p].concluded = D[p].concluded
        /\ deciding'[p].missed = D[p].missed \cup (K \cap DOMAIN D[p].concluded)
    BY OvertakenAs
  <2>2. Covers(D[p])
    BY NotDecidingType DEF SignaturesIInv
  <2>3. Covers(deciding'[p])
    BY <2>1, <2>2 DEF Covers
  <2>4. ASSUME NEW k \in DOMAIN D[p].concluded, k \notin D[p].missed, k \notin K
        PROVE  ConcludesOn(k, deciding'[p], verdict')
    <3>1. D[p] = deciding[p] /\ D[p] \in OpenDecisions
      BY <2>4, NotDecidingType
    <3>2. k \in SignatureKeys /\ HasRule(k)
      BY <2>2, <3>1, ConclusionsType DEF Covers, HasRule
    <3>3. ConcludesOn(k, D[p], verdict)
      BY <2>4, <3>1 DEF SignaturesIInv, ConclusionsHold
    <3>4. SameOn(k, verdict, verdict')
      BY <2>4, <3>2
    <3>5. ConcludesOn(k, D[p], verdict')
      BY <3>1, <3>2, <3>3, <3>4, ConcludesKept DEF SignaturesIInv, SignaturesTyped
    <3> QED BY <2>1, <3>5 DEF ConcludesOn, After
  <2> QED BY <2>1, <2>3, <2>4
<1> QED BY <1>1 DEF ConclusionsHold

LEMMA CommitsStep ==
    ASSUME SignaturesIInv, NEW q \in Deciders, Commits(q)
    PROVE  SignaturesIInv'
<1> DEFINE d == deciding[q]
           W == DOMAIN d.concluded
           closed == [deciding EXCEPT ![q] = NotDeciding]
<1>1. /\ d \in OpenDecisions /\ d.findings \subseteq RunFindings
      /\ W \in SUBSET SignatureKeys /\ d.missed \in SUBSET SignatureKeys
      /\ \A k \in W : d.concluded[k] \in SignatureStates
  BY ConclusionsType DEF SignaturesIInv, SignaturesTyped
<1>2. closed \in [Deciders -> OpenDecisions]
  BY NotDecidingType DEF SignaturesIInv, SignaturesTyped
<1>3. \A p \in Deciders : closed[p] = IF p = q THEN NotDeciding ELSE deciding[p]
  BY DEF SignaturesIInv, SignaturesTyped
<1>4. CASE \E k \in d.adds : state[k] # "none"
  <2>1. deciding' = closed /\ UNCHANGED <<verdict, state, stale, given>>
    BY <1>4 DEF Commits
  <2>2. SignaturesTyped'
    BY <1>2, <2>1 DEF SignaturesIInv, SignaturesTyped
  <2> HIDE DEF closed
  <2>3. ConclusionsHold' /\ \A p \in Deciders : Covers(deciding'[p])
    BY <1>3, <2>1, NotDecidingType DEF SignaturesIInv, ConclusionsHold
  <2> QED BY <2>1, <2>2, <2>3 DEF SignaturesIInv, RowsFollow
<1>5. CASE ~\E k \in d.adds : state[k] # "none"
  <2>1. /\ verdict' = After(d, verdict)
        /\ state' = [k \in SignatureKeys |-> IF k \in W THEN d.concluded[k] ELSE state[k]]
        /\ stale' = (stale \ W) \cup d.missed
        /\ deciding' = Overtaken(closed, W)
        /\ given' = given
    BY <1>5 DEF Commits, After
  <2> HIDE DEF closed, W, d
  <2>2. verdict' \in Judgements
    BY <1>1, <2>1, AfterType DEF SignaturesIInv, SignaturesTyped
  <2>3. SignaturesTyped'
    BY <1>1, <1>2, <2>1, <2>2, OvertakenType DEF SignaturesIInv, SignaturesTyped
  <2>4. ASSUME NEW k \in SignatureKeys \ W, k[2] # ""
        PROVE  SameOn(k, verdict, verdict')
    <3>1. Covers(d)
      BY DEF SignaturesIInv, d
    <3>2. \A f \in RunFindings : SignatureOf(f) = k => f \notin d.findings
      BY <2>4, <3>1, SignatureOfType DEF Covers, Tracked, W
    <3> QED BY <2>1, <3>2 DEF SameOn, After
  <2>5. ConclusionsHold' /\ \A p \in Deciders : Covers(deciding'[p])
    BY <1>1, <1>2, <1>3, <2>1, <2>2, <2>4, OvertakingKeeps DEF HasRule
  <2>6. RowsFollow'
    <3>1. ASSUME NEW k \in SignatureKeys, k \notin stale' PROVE Follows(k, state'[k], verdict')
      <4>1. CASE k \in W
        <5>1. ConcludesOn(k, d, verdict)
          BY <2>1, <3>1, <4>1 DEF SignaturesIInv, ConclusionsHold, d, W
        <5>2. state'[k] = d.concluded[k]
          BY <2>1, <4>1
        <5> QED BY <1>1, <2>1, <5>1, <5>2, ConclusionFollows
                DEF SignaturesIInv, SignaturesTyped
      <4>2. CASE k \notin W
        <5>1. state'[k] = state[k] /\ k \notin stale
          BY <2>1, <3>1, <4>2
        <5>2. Follows(k, state[k], verdict) /\ state[k] \in SignatureStates
          BY <5>1 DEF SignaturesIInv, SignaturesTyped, RowsFollow
        <5>3. CASE k[2] = ""
          BY <5>3 DEF Follows
        <5>4. CASE k[2] # ""
          BY <2>2, <2>4, <4>2, <5>1, <5>2, <5>4, FollowsKept
          DEF SignaturesIInv, SignaturesTyped
        <5> QED BY <5>3, <5>4
      <4> QED BY <4>1, <4>2
    <3> QED BY <3>1 DEF RowsFollow
  <2> QED BY <2>3, <2>5, <2>6 DEF SignaturesIInv
<1> QED BY <1>4, <1>5

LEMMA ReplaceFindingsStep ==
    ASSUME SignaturesIInv, NEW r, NEW again \in SUBSET FindingsOf(r),
           ReplaceFindings(r, again)
    PROVE  SignaturesIInv'
<1> DEFINE own == FindingsOf(r)
           lost == {SignatureOf(f) : f \in {g \in own \ again : verdict[g] \in Verdicts}}
<1>1. /\ verdict' = [f \in RunFindings |->
                        CASE f \in own \ again -> "gone"
                          [] f \in again /\ verdict[f] = "gone" -> "undecided"
                          [] OTHER -> verdict[f]]
      /\ stale' = stale \cup lost /\ deciding' = Overtaken(deciding, lost)
      /\ UNCHANGED <<state, given>>
  BY DEF ReplaceFindings
<1>2. own \subseteq RunFindings
  BY DEF FindingsOf
<1>3. lost \in SUBSET SignatureKeys
  BY <1>2, SignatureOfType
<1>4. verdict' \in Judgements
  BY <1>1 DEF SignaturesIInv, SignaturesTyped, Judgements
<1>5. ASSUME NEW k \in SignatureKeys \ lost
      PROVE  SameOn(k, verdict, verdict')
  <2>1. ASSUME NEW f \in RunFindings, SignatureOf(f) = k,
               verdict[f] \in Verdicts \/ verdict'[f] \in Verdicts
        PROVE  verdict[f] = verdict'[f]
    <3>1. "gone" \notin Verdicts /\ "undecided" \notin Verdicts
      BY DEF Verdicts, DISMISSING_VERDICTS, UPHOLDING_VERDICTS
    <3>2. verdict[f] \in Verdicts => f \notin own \ again
      BY <1>5, <2>1
    <3> QED BY <1>1, <2>1, <3>1, <3>2
  <2> QED BY <2>1 DEF SameOn
<1> HIDE DEF lost, own
<1>6. SignaturesTyped'
  BY <1>1, <1>3, <1>4, OvertakenType DEF SignaturesIInv, SignaturesTyped
<1>7. ConclusionsHold' /\ \A p \in Deciders : Covers(deciding'[p])
  BY <1>1, <1>3, <1>4, <1>5, OvertakingKeeps DEF SignaturesIInv, SignaturesTyped
<1>8. RowsFollow'
  <2>1. ASSUME NEW k \in SignatureKeys, k \notin stale' PROVE Follows(k, state'[k], verdict')
    <3>1. k \notin stale /\ k \notin lost /\ state' = state
      BY <1>1, <2>1
    <3>2. Follows(k, state[k], verdict) /\ state[k] \in SignatureStates
      BY <3>1 DEF SignaturesIInv, SignaturesTyped, RowsFollow
    <3> QED BY <1>4, <1>5, <3>1, <3>2, FollowsKept DEF SignaturesIInv, SignaturesTyped
  <2> QED BY <2>1 DEF RowsFollow
<1> QED BY <1>6, <1>7, <1>8 DEF SignaturesIInv

LEMMA SignaturesStep ==
    ASSUME SignaturesIInv, [SignaturesNext]_signatureVars
    PROVE  SignaturesIInv'
<1>1. CASE UNCHANGED signatureVars
  BY <1>1 DEF signatureVars, SignaturesIInv, SignaturesTyped, ConclusionsHold, RowsFollow
<1>2. ASSUME NEW q \in Deciders, NEW f \in RunFindings,
             NEW v \in {"confirmed", "false_positive"}, ReviewFinding(q, f, v)
      PROVE  SignaturesIInv'
  BY <1>2, ReviewFindingStep
<1>3. ASSUME NEW q \in Deciders, NEW r \in DOMAIN CustomerOf, BulkOkLowSeverity(q, r)
      PROVE  SignaturesIInv'
  BY <1>3, BulkOkStep
<1>4. ASSUME NEW q \in Deciders, Commits(q) PROVE SignaturesIInv'
  BY <1>4, CommitsStep
<1>5. ASSUME NEW r \in DOMAIN CustomerOf, NEW again \in SUBSET FindingsOf(r),
             ReplaceFindings(r, again)
      PROVE  SignaturesIInv'
  BY <1>5, ReplaceFindingsStep
<1> QED BY <1>1, <1>2, <1>3, <1>4, <1>5 DEF SignaturesNext

\* However decisions, deletions and re-checks interleave, open requests have concluded
\* what the verdicts will say, but for what they were overtaken in, and rows that are
\* not known to be stale follow their verdicts.
THEOREM SignaturesInvariance == SignaturesSpec => []SignaturesIInv
<1>1. SignaturesIInv /\ [SignaturesNext]_signatureVars => SignaturesIInv'
  BY SignaturesStep
<1> QED BY <1>1, InitSignatures, PTL DEF SignaturesSpec

\* One spelling of the customer is a set of one.
LEMMA OneSpelling ==
    ASSUME SignaturesIInv, NEW k \in SignatureKeys \ stale, k[2] # "",
           Cardinality({SpelledBy(f) : f \in Decided(k)}) = 1, IsFiniteSet(RunFindings)
    PROVE  state[k] = Decide(verdict, Standing(k))
<1> DEFINE D == Decided(k)
           Sp == {SpelledBy(f) : f \in D}
<1>1. IsFiniteSet(D)
  BY FS_Subset DEF Decided
<1>2. IsFiniteSet(Sp)
  <2> DEFINE spelling == [f \in D |-> SpelledBy(f)]
  <2>1. spelling \in Surjection(D, Sp)
    BY DEF Surjection
  <2> HIDE DEF D, spelling, Sp
  <2> QED BY <1>1, <2>1, FS_Surjection
<1>3. PICK c : Sp = {c}
  BY <1>2, FS_Singleton
<1>4. PICK g \in D : SpelledBy(g) = c
  BY <1>3
<1>5. \A f \in RunFindings :
         SignatureOf(f) = k /\ verdict[f] \in Verdicts => SpelledBy(f) = SpelledBy(g)
  BY <1>3, <1>4 DEF Decided
<1>6. g \in RunFindings /\ SignatureOf(g) = k /\ verdict[g] \in Verdicts
  BY DEF Decided
<1>7. state[k] = Decide(verdict, Counted(verdict, k, SpelledBy(g)))
  BY <1>5, <1>6 DEF SignaturesIInv, RowsFollow, Follows
<1>8. Counted(verdict, k, SpelledBy(g)) = Standing(k)
  BY <1>5 DEF Counted, Standing, Decided
<1> QED BY <1>7, <1>8

\* The row of a recurring finding says what the verdicts that stand add up to, for any
\* finite number of findings, as long as the customer is spelled in one way, no finding
\* was taken away since and no two decisions about it overlapped.
THEOREM RowsAreTheirVerdicts ==
    ASSUME IsFiniteSet(RunFindings) PROVE SignaturesSpec => []RowIsItsVerdicts
<1>1. SignaturesIInv => RowIsItsVerdicts
  BY OneSpelling DEF RowIsItsVerdicts
<1> QED BY <1>1, SignaturesInvariance, PTL

-----------------------------------------------------------------------------
(***************************************************************************)
(* Proofs about Criteria, for any attributes, alias table and values, and  *)
(* any requirements that fit the schema.                                   *)
(*                                                                         *)
(* A check that is derived from a condition is a bound that each record    *)
(* meets or not. What the smallest or largest value says of the bound, it  *)
(* says of every record; and a record meets the bounds of a condition, or  *)
(* of its inverse, exactly when it keeps it, or breaks it.                 *)
(***************************************************************************)
BoundKinds == {"min_at_least", "min_greater_than", "max_at_most", "max_less_than"}
Bound(kind, field, b) == [kind |-> kind, field |-> field, value |-> b]

\* One value against one bound.
Meets(k, v) ==
    CASE k.kind = "min_at_least"     -> v >= k.value
      [] k.kind = "min_greater_than" -> v > k.value
      [] k.kind = "max_at_most"      -> v <= k.value
      [] k.kind = "max_less_than"    -> v < k.value

\* The value of a record that a check looks at.
At(k, record) == record[Resolve(k.field)]

BoundChecks == {Bound(kind, field, b) : kind \in BoundKinds, field \in Attributes, b \in Values}

\* A record has a value for every attribute, under its canonical name.
LEMMA RecordHasAttribute ==
    ASSUME NEW record \in Records, NEW a \in Attributes
    PROVE  record[Resolve(a)] \in Values
BY DEF Records

\* The least of a delivery is the least of two values.
LEMMA LeastOfTwo ==
    ASSUME NEW x \in Int, NEW y \in Int, NEW least,
           least = CHOOSE v \in {x, y} : \A u \in {x, y} : v <= u
    PROVE  least \in {x, y} /\ least <= x /\ least <= y
<1>1. \E v \in {x, y} : \A u \in {x, y} : v <= u
  <2>1. CASE x <= y
    BY <2>1
  <2>2. CASE y <= x
    BY <2>2
  <2> QED BY <2>1, <2>2
<1> QED BY <1>1

LEMMA MostOfTwo ==
    ASSUME NEW x \in Int, NEW y \in Int, NEW most,
           most = CHOOSE v \in {x, y} : \A u \in {x, y} : v >= u
    PROVE  most \in {x, y} /\ most >= x /\ most >= y
<1>1. \E v \in {x, y} : \A u \in {x, y} : v >= u
  <2>1. CASE x <= y
    BY <2>1
  <2>2. CASE y <= x
    BY <2>2
  <2> QED BY <2>1, <2>2
<1> QED BY <1>1

\* A check of two records passes if both meet it and fails otherwise.
LEMMA TwoRecordsJudged ==
    ASSUME NEW k \in BoundChecks, NEW a \in Records, NEW b \in Records
    PROVE  CheckBound(k, {a, b}) =
               IF Meets(k, At(k, a)) /\ Meets(k, At(k, b)) THEN "passed" ELSE "failed"
<1> DEFINE x == At(k, a)
           y == At(k, b)
           least == CHOOSE v \in {x, y} : \A u \in {x, y} : v <= u
           most == CHOOSE v \in {x, y} : \A u \in {x, y} : v >= u
<1>1. k.kind \in BoundKinds /\ k.value \in Int /\ x \in Int /\ y \in Int
  BY RecordHasAttribute, CriteriaAssumption DEF BoundChecks, Bound, At
<1>2. CheckBound(k, {a, b}) =
        IF CASE k.kind = "min_at_least"     -> least >= k.value
             [] k.kind = "min_greater_than" -> least > k.value
             [] k.kind = "max_at_most"      -> most <= k.value
             [] k.kind = "max_less_than"    -> most < k.value
        THEN "passed" ELSE "failed"
  <2>1. {record[Resolve(k.field)] : record \in {a, b}} = {x, y}
    BY DEF At
  <2>2. {x, y} # {}
    OBVIOUS
  <2> HIDE DEF x, y
  <2> QED BY <2>1, <2>2, Zenon DEF CheckBound
<1> HIDE DEF x, y
<1>3. least \in {x, y} /\ least <= x /\ least <= y
  BY <1>1, LeastOfTwo
<1>4. most \in {x, y} /\ most >= x /\ most >= y
  BY <1>1, MostOfTwo
<1> HIDE DEF least, most
<1>5. CASE k.kind = "min_at_least"
  BY <1>1, <1>2, <1>3, <1>5 DEF Meets, x, y
<1>6. CASE k.kind = "min_greater_than"
  BY <1>1, <1>2, <1>3, <1>6 DEF Meets, x, y
<1>7. CASE k.kind = "max_at_most"
  BY <1>1, <1>2, <1>4, <1>7 DEF Meets, x, y
<1>8. CASE k.kind = "max_less_than"
  BY <1>1, <1>2, <1>4, <1>8 DEF Meets, x, y
<1> QED BY <1>1, <1>5, <1>6, <1>7, <1>8 DEF BoundKinds

\* What a check says of a delivery it says of its records.
LEMMA DeliveryJudged ==
    ASSUME NEW k \in BoundChecks, NEW delivery \in Deliveries
    PROVE  /\ CheckBound(k, delivery) = "failed" => \E r \in delivery : ~Meets(k, At(k, r))
           /\ CheckBound(k, delivery) = "passed" => \A r \in delivery : Meets(k, At(k, r))
<1>1. CASE delivery = {}
  <2>1. {record[Resolve(k.field)] : record \in delivery} = {}
    BY <1>1
  <2>2. CheckBound(k, delivery) = "could_not_evaluate"
    BY <2>1, Zenon DEF CheckBound
  <2> QED BY <1>1, <2>2
<1>2. CASE delivery # {}
  <2>1. PICK a \in Records, b \in Records : delivery = {a, b}
    BY <1>2 DEF Deliveries
  <2>2. CheckBound(k, delivery) =
               IF Meets(k, At(k, a)) /\ Meets(k, At(k, b)) THEN "passed" ELSE "failed"
    BY <2>1, TwoRecordsJudged
  <2> QED BY <2>1, <2>2
<1> QED BY <1>1, <1>2

\* The bounds of an interval are numbers, and say what the operator says.
LEMMA IntervalSays ==
    ASSUME NEW operator \in RangeOperators, NEW value, HasInterval(operator, value),
           DOMAIN value = 1 .. (IF operator = "between" THEN 2 ELSE 1),
           NEW field \in Attributes, NEW v \in Values
    PROVE  /\ ChecksFromInterval(IntervalOf(operator, value), field) \subseteq BoundChecks
           /\ (\A k \in ChecksFromInterval(IntervalOf(operator, value), field) : Meets(k, v))
              <=> Holds([operator |-> operator, value |-> value], v)
<1> DEFINE m == ParseNumber(value[1])
           n == ParseNumber(value[2])
           c == [operator |-> operator, value |-> value]
           checks == ChecksFromInterval(IntervalOf(operator, value), field)
<1>1. m \in Values /\ m \in Int /\ v \in Int /\ (operator = "between" => n \in Values /\ n \in Int)
  <2>1. 1 \in DOMAIN value /\ (operator = "between" => 2 \in DOMAIN value)
    OBVIOUS
  <2> QED BY <2>1, CriteriaAssumption DEF HasInterval
<1>2. checks =
        {Bound(IF operator # ">" THEN "min_at_least" ELSE "min_greater_than", field, b)
            : b \in IF operator \in {">", ">=", "=", "between"} THEN {m} ELSE {}}
        \cup {Bound(IF operator # "<" THEN "max_at_most" ELSE "max_less_than", field, b)
            : b \in IF operator \in {"<", "<=", "="} THEN {m}
                    ELSE IF operator = "between" THEN {n} ELSE {}}
  BY DEF ChecksFromInterval, IntervalOf, Bound
<1> HIDE DEF m, n, checks
<1>3. \A b \in Values :
        /\ \A kind \in BoundKinds : Bound(kind, field, b) \in BoundChecks
        /\ Meets(Bound("min_at_least", field, b), v) <=> v >= b
        /\ Meets(Bound("min_greater_than", field, b), v) <=> v > b
        /\ Meets(Bound("max_at_most", field, b), v) <=> v <= b
        /\ Meets(Bound("max_less_than", field, b), v) <=> v < b
  <2>1. \A b \in Values : b \in Int
    BY CriteriaAssumption
  <2>2. \A b \in Values : \A kind \in BoundKinds : Bound(kind, field, b) \in BoundChecks
    BY DEF BoundChecks
  <2>3. ASSUME NEW b \in Values
        PROVE  Meets(Bound("min_at_least", field, b), v) <=> v >= b
    BY <1>1, <2>1 DEF Meets, Bound
  <2>4. ASSUME NEW b \in Values
        PROVE  Meets(Bound("min_greater_than", field, b), v) <=> v > b
    BY <1>1, <2>1 DEF Meets, Bound
  <2>5. ASSUME NEW b \in Values
        PROVE  Meets(Bound("max_at_most", field, b), v) <=> v <= b
    BY <1>1, <2>1 DEF Meets, Bound
  <2>6. ASSUME NEW b \in Values
        PROVE  Meets(Bound("max_less_than", field, b), v) <=> v < b
    BY <1>1, <2>1 DEF Meets, Bound
  <2> QED BY <2>2, <2>3, <2>4, <2>5, <2>6
<1>4. CASE operator = "<"
  <2>1. checks = {Bound("max_less_than", field, m)}
    BY <1>2, <1>4
  <2>2. Holds(c, v) <=> v < m
    BY <1>4 DEF Holds, m
  <2> QED BY <1>1, <1>3, <2>1, <2>2 DEF BoundKinds, checks
<1>5. CASE operator = "<="
  <2>1. checks = {Bound("max_at_most", field, m)}
    BY <1>2, <1>5
  <2>2. Holds(c, v) <=> v <= m
    BY <1>5 DEF Holds, m
  <2> QED BY <1>1, <1>3, <2>1, <2>2 DEF BoundKinds, checks
<1>6. CASE operator = ">"
  <2>1. checks = {Bound("min_greater_than", field, m)}
    BY <1>2, <1>6
  <2>2. Holds(c, v) <=> v > m
    BY <1>6 DEF Holds, m
  <2> QED BY <1>1, <1>3, <2>1, <2>2 DEF BoundKinds, checks
<1>7. CASE operator = ">="
  <2>1. checks = {Bound("min_at_least", field, m)}
    BY <1>2, <1>7
  <2>2. Holds(c, v) <=> v >= m
    BY <1>7 DEF Holds, m
  <2> QED BY <1>1, <1>3, <2>1, <2>2 DEF BoundKinds, checks
<1>8. CASE operator = "="
  <2>1. checks = {Bound("min_at_least", field, m), Bound("max_at_most", field, m)}
    BY <1>2, <1>8
  <2>2. Holds(c, v) <=> v = m
    BY <1>8 DEF Holds, m
  <2>3. v = m <=> v >= m /\ v <= m
    BY <1>1
  <2> QED BY <1>1, <1>3, <2>1, <2>2, <2>3 DEF BoundKinds, checks
<1>9. CASE operator = "between"
  <2>1. checks = {Bound("min_at_least", field, m), Bound("max_at_most", field, n)}
    BY <1>2, <1>9
  <2>2. Holds(c, v) <=> m <= v /\ v <= n
    BY <1>9 DEF Holds, m, n
  <2>3. m <= v <=> v >= m
    BY <1>1
  <2> QED BY <1>1, <1>3, <1>9, <2>1, <2>2, <2>3 DEF BoundKinds, checks
<1> QED BY <1>4, <1>5, <1>6, <1>7, <1>8, <1>9 DEF RangeOperators

\* For the operator a condition is checked by, the checks are met by the values that keep
\* it, or by those that do not when the condition is there to reject.
LEMMA ConditionSays ==
    ASSUME NEW rule, NEW c, IsCondition(c), NEW o \in Expected(rule, c),
           HasInterval(o, c.value), NEW v \in Values
    PROVE  /\ ChecksFromInterval(IntervalOf(o, c.value), c.field) \subseteq BoundChecks
           /\ (\A k \in ChecksFromInterval(IntervalOf(o, c.value), c.field) : Meets(k, v))
              <=> (Holds(c, v) <=> rule.action # "reject")
<1> DEFINE d == [operator |-> o, value |-> c.value]
<1>1. o \in RangeOperators /\ c.operator \in Operators /\ c.field \in Attributes
  BY DEF HasInterval, IsCondition
<1>2. CASE rule.action # "reject"
  <2>1. o = c.operator
    BY <1>2 DEF Expected
  <2>2. DOMAIN c.value = 1 .. (IF o = "between" THEN 2 ELSE 1)
    BY <1>1, <2>1 DEF IsCondition, RangeOperators
  <2>3. Holds(d, v) <=> Holds(c, v)
    BY <2>1 DEF Holds
  <2> QED BY <1>1, <1>2, <2>2, <2>3, IntervalSays
<1>3. CASE rule.action = "reject"
  <2>1. c.operator \in InverseOperators /\ o = INVERSE_OPERATOR[c.operator]
    BY <1>3 DEF Expected
  <2>2. \/ c.operator = "<" /\ o = ">="
        \/ c.operator = "<=" /\ o = ">"
        \/ c.operator = ">" /\ o = "<="
        \/ c.operator = ">=" /\ o = "<"
        \/ c.operator = "!=" /\ o = "="
    BY <1>1, <2>1 DEF InverseOperators, INVERSE_OPERATOR, RangeOperators
  <2>3. DOMAIN c.value = 1 .. 1 /\ o # "between"
    BY <2>2 DEF IsCondition
  <2>4. ParseNumber(c.value[1]) \in Int /\ v \in Int
    BY <2>3, CriteriaAssumption DEF HasInterval
  <2>5. Holds(d, v) <=> ~Holds(c, v)
    <3>1. CASE c.operator = "<" /\ o = ">="
      BY <3>1, <2>4 DEF Holds
    <3>2. CASE c.operator = "<=" /\ o = ">"
      BY <3>2, <2>4 DEF Holds
    <3>3. CASE c.operator = ">" /\ o = "<="
      BY <3>3, <2>4 DEF Holds
    <3>4. CASE c.operator = ">=" /\ o = "<"
      BY <3>4, <2>4 DEF Holds
    <3>5. CASE c.operator = "!=" /\ o = "="
      BY <3>5, <2>4 DEF Holds
    <3> QED BY <2>2, <3>1, <3>2, <3>3, <3>4, <3>5
  <2>6. DOMAIN c.value = 1 .. (IF o = "between" THEN 2 ELSE 1)
    BY <2>3
  <2> QED BY <1>1, <1>3, <2>5, <2>6, IntervalSays
<1> QED BY <1>2, <1>3

\* The checks of a requirement are those of its conditions.
LEMMA ChecksOfConditions ==
    ASSUME NEW rule, NEW k \in CriteriaChecks(rule)
    PROVE  /\ ~(rule.logic = "OR" /\ Len(rule.conditions) > 1)
           /\ \E c \in Range(rule.conditions) : \E o \in Expected(rule, c) :
                 /\ HasInterval(o, c.value)
                 /\ k \in ChecksFromInterval(IntervalOf(o, c.value), c.field)
<1>1. CASE rule.logic = "OR" /\ Len(rule.conditions) > 1
  BY <1>1 DEF CriteriaChecks
<1>2. CASE ~(rule.logic = "OR" /\ Len(rule.conditions) > 1)
  <2>1. k \in UNION {UNION {ChecksFromInterval(IntervalOf(o, c.value), c.field)
                               : o \in {e \in Expected(rule, c) : HasInterval(e, c.value)}}
                      : c \in Range(rule.conditions)}
    BY <1>2, Zenon DEF CriteriaChecks
  <2> QED BY <1>2, <2>1
<1> QED BY <1>1, <1>2

\* A record that keeps each condition of an acceptance obeys it, and no other does when
\* they are joined by AND or there is one; a rejection on one condition is the converse.
LEMMA ObeysConditions ==
    ASSUME NEW rule, NEW record, rule.type = "criteria", IsRequirement(rule), JudgesRecords(rule),
           Len(rule.conditions) \in Nat, DOMAIN rule.conditions = 1 .. Len(rule.conditions),
           rule.logic = "AND" \/ Len(rule.conditions) = 1
    PROVE  Obeys(rule, record)
           <=> \A c \in Range(rule.conditions) :
                   Holds(c, record[Resolve(c.field)]) <=> rule.action # "reject"
<1> DEFINE C == Range(rule.conditions)
           holds == {c \in C : Holds(c, record[Resolve(c.field)])}
<1>1. Len(rule.conditions) = 1 => \E c \in C : C = {c}
  BY DEF Range
<1>2. Matches(rule, record) <=> IF rule.logic = "AND" THEN holds = C ELSE holds # {}
  BY DEF Matches
<1>3. rule.action = "accept" \/ (rule.action = "reject" /\ Len(rule.conditions) = 1)
  BY DEF JudgesRecords
<1> HIDE DEF C
<1>4. holds = C <=> \A c \in C : Holds(c, record[Resolve(c.field)])
  OBVIOUS
<1>5. Matches(rule, record) <=> holds = C
  BY <1>1, <1>2
<1>6. CASE rule.action = "accept"
  BY <1>4, <1>5, <1>6 DEF Obeys, C
<1>7. CASE rule.action = "reject" /\ Len(rule.conditions) = 1
  <2>1. PICK c \in C : C = {c}
    BY <1>1, <1>7
  <2>2. Matches(rule, record) <=> Holds(c, record[Resolve(c.field)])
    BY <1>4, <1>5, <2>1
  <2>3. Obeys(rule, record) <=> ~Matches(rule, record)
    BY <1>7 DEF Obeys
  <2> QED BY <1>7, <2>1, <2>2, <2>3 DEF C
<1> QED BY <1>3, <1>6, <1>7

\* Derived checks judge the records of a delivery as the requirement does.
LEMMA ChecksJudge ==
    ASSUME NEW rule, rule.type = "criteria", IsRequirement(rule), JudgesRecords(rule),
           NEW delivery \in Deliveries,
           NEW answers, answers = {CheckBound(k, delivery) : k \in CriteriaChecks(rule)},
           NEW obeyed, obeyed <=> \A record \in delivery : Obeys(rule, record)
    PROVE  /\ "failed" \in answers => ~obeyed
           /\ EveryConditionIsChecked(rule) /\ answers \subseteq {"passed"} => obeyed
<1> DEFINE C == Range(rule.conditions)
           checks(o, c) == ChecksFromInterval(IntervalOf(o, c.value), c.field)
           ok(c, record) == Holds(c, record[Resolve(c.field)]) <=> rule.action # "reject"
<1>1. /\ Len(rule.conditions) \in Nat /\ DOMAIN rule.conditions = 1 .. Len(rule.conditions)
      /\ rule.logic \in {"AND", "OR"} /\ \A c \in C : IsCondition(c)
  BY DEF IsRequirement
<1>2. \A record \in delivery : record \in Records
  BY DEF Deliveries
<1>3. ASSUME rule.logic = "AND" \/ Len(rule.conditions) = 1, NEW record
      PROVE  Obeys(rule, record) <=> \A c \in C : ok(c, record)
  BY <1>1, <1>3, ObeysConditions
<1>4. ASSUME NEW c \in C, NEW o \in Expected(rule, c), HasInterval(o, c.value)
      PROVE  /\ \A k \in checks(o, c) : k \in BoundChecks /\ k.field = c.field
             /\ \A record \in delivery :
                   (\A k \in checks(o, c) : Meets(k, record[Resolve(c.field)])) <=> ok(c, record)
  <2>1. IsCondition(c) /\ c.field \in Attributes
    BY <1>1 DEF IsCondition
  <2>2. \A k \in checks(o, c) : k.field = c.field
    BY DEF ChecksFromInterval
  <2>3. ASSUME NEW record \in delivery
        PROVE  /\ checks(o, c) \subseteq BoundChecks
               /\ (\A k \in checks(o, c) : Meets(k, record[Resolve(c.field)])) <=> ok(c, record)
    <3>1. record[Resolve(c.field)] \in Values
      BY <1>2, <2>1, RecordHasAttribute
    <3> QED BY <1>4, <2>1, <3>1, ConditionSays
  <2>4. checks(o, c) \subseteq BoundChecks
    <3>1. PICK v : v \in Values
      BY CriteriaAssumption
    <3> QED BY <1>4, <2>1, <3>1, ConditionSays
  <2> QED BY <2>2, <2>3, <2>4
<1> HIDE DEF C, checks, ok
<1>5. "failed" \in answers => ~obeyed
  <2> SUFFICES ASSUME NEW k \in CriteriaChecks(rule), CheckBound(k, delivery) = "failed"
               PROVE  ~obeyed
    OBVIOUS
  <2>1. ~(rule.logic = "OR" /\ Len(rule.conditions) > 1)
    BY ChecksOfConditions
  <2>2. PICK c \in C : \E o \in Expected(rule, c) : HasInterval(o, c.value) /\ k \in checks(o, c)
    BY ChecksOfConditions DEF C, checks
  <2>6. PICK o \in Expected(rule, c) : HasInterval(o, c.value) /\ k \in checks(o, c)
    BY <2>2
  <2>3. rule.logic = "AND" \/ Len(rule.conditions) = 1
    <3>1. DOMAIN rule.conditions # {}
      BY <2>2 DEF C, Range
    <3>2. Len(rule.conditions) # 0 /\ Len(rule.conditions) \in Nat /\ rule.logic \in {"AND", "OR"}
      BY <1>1, <3>1
    <3>3. ~(Len(rule.conditions) > 1) => Len(rule.conditions) = 1
      <4>1. \A n \in Nat : n # 0 /\ ~(n > 1) => n = 1
        OBVIOUS
      <4> QED BY <3>2, <4>1, Zenon
    <3> QED BY <2>1, <3>2, <3>3
  <2>4. PICK record \in delivery : ~Meets(k, record[Resolve(k.field)])
    BY <1>4, <2>6, DeliveryJudged DEF At
  <2>5. ~ok(c, record)
    BY <1>4, <2>4, <2>6
  <2> QED BY <1>3, <2>3, <2>4, <2>5
<1>6. ASSUME EveryConditionIsChecked(rule), answers \subseteq {"passed"}
      PROVE  obeyed
  <2>1. rule.logic = "AND" \/ Len(rule.conditions) = 1
    BY <1>6 DEF EveryConditionIsChecked
  <2>2. ASSUME NEW record \in delivery, NEW c \in C
        PROVE  ok(c, record)
    <3>1. PICK o \in Expected(rule, c) : HasInterval(o, c.value)
      BY <1>6 DEF EveryConditionIsChecked, C
    <3>2. \A k \in checks(o, c) : k \in CriteriaChecks(rule)
      <4>0. Len(rule.conditions) = 1 => ~(Len(rule.conditions) > 1)
        OBVIOUS
      <4>5. rule.logic = "AND" => ~(rule.logic = "OR")
        OBVIOUS
      <4>1. ~(rule.logic = "OR" /\ Len(rule.conditions) > 1)
        BY <4>0, <4>5, <2>1, Zenon
      <4> DEFINE of(d) == UNION {checks(e, d) : e \in {f \in Expected(rule, d) : HasInterval(f, d.value)}}
      <4>2. CriteriaChecks(rule) = UNION {of(d) : d \in C}
        BY <4>1 DEF CriteriaChecks, C, checks
      <4>3. \A k \in checks(o, c) : k \in of(c)
        BY <3>1
      <4> HIDE DEF of
      <4> QED BY <4>2, <4>3
    <3>3. \A k \in checks(o, c) : CheckBound(k, delivery) = "passed"
      BY <1>6, <3>2
    <3>4. \A k \in checks(o, c) : Meets(k, record[Resolve(c.field)])
      BY <1>4, <3>1, <3>3, DeliveryJudged DEF At
    <3> QED BY <1>4, <3>1, <3>4
  <2> QED BY <1>3, <2>1, <2>2
<1> QED BY <1>5, <1>6

\* An allow-list and a deny-list are judged as what they allow.
LEMMA SetsJudge ==
    ASSUME NEW rule, rule.type = "set", IsRequirement(rule), NEW present \in SUBSET Members,
           NEW k \in SetChecks(rule)
    PROVE  CheckValueSet(k, present) = "passed" <=> present \subseteq Allowed(rule)
<1>1. rule.mode \in {"include", "exclude"}
  BY DEF IsRequirement
<1>2. CASE rule.mode = "exclude"
  BY <1>2 DEF SetChecks, CheckValueSet, Allowed
<1>3. CASE rule.mode = "include"
  BY <1>3 DEF SetChecks, CheckValueSet, Allowed
<1> QED BY <1>1, <1>2, <1>3

\* The pair of rules is one that was asked about; nothing moves.
OneReading == \E r \in Readings : asked = r[1] /\ element = r[2]

\* A derived check that fails names a record that breaks the requirement, and checks that
\* pass for every condition leave none that does: for any attributes, values and requirements.
THEOREM DerivedChecksAreRight == CriteriaSpec => []ChecksJudgeTheRecords
<1>1. CriteriaInit => OneReading
  BY DEF CriteriaInit, OneReading
<1>2. OneReading /\ [FALSE]_criteriaVars => OneReading'
  BY DEF OneReading, criteriaVars
<1>3. OneReading => ChecksJudgeTheRecords
  <2> SUFFICES ASSUME OneReading PROVE ChecksJudgeTheRecords
    OBVIOUS
  <2>1. IsRequirement(asked)
    BY ReadingsAssumption DEF OneReading
  <2>2. ASSUME asked.type = "criteria", JudgesRecords(asked), NEW delivery \in Deliveries
        PROVE  LET answers == {CheckBound(k, delivery) : k \in CriteriaChecks(asked)}
                   obeyed == \A record \in delivery : Obeys(asked, record)
               IN  /\ "failed" \in answers => ~ obeyed
                   /\ EveryConditionIsChecked(asked) /\ answers \subseteq {"passed"} => obeyed
    BY <2>1, <2>2, ChecksJudge
  <2>3. ASSUME asked.type = "set", NEW present \in SUBSET Members, NEW k \in SetChecks(asked)
        PROVE  CheckValueSet(k, present) = "passed" <=> present \subseteq Allowed(asked)
    BY <2>1, <2>3, SetsJudge
  <2> QED BY <2>2, <2>3 DEF ChecksJudgeTheRecords
<1> QED BY <1>1, <1>2, <1>3, PTL DEF CriteriaSpec

-----------------------------------------------------------------------------
(* What stage 5 says of a requirement and the configuration. Two ranges    *)
(* that are not empty differ in a bound, or in whether it belongs to them, *)
(* and the numbers on it, just beyond it or below all bounds tell them     *)
(* apart. The conditions a condition could be compared with are those on   *)
(* one attribute, so one of them stands for all. Steps that are shared,    *)
(* kept in order, are one sequence only where a climb through the          *)
(* configured steps meets the required ones.                               *)

\* What an interval accepts.
Within(range, v) ==
    /\ \A b \in range.lower : IF range.lowerIn THEN b <= v ELSE b < v
    /\ \A b \in range.upper : IF range.upperIn THEN v <= b ELSE v < b

\* The ranges conditions come to: one bound, with its value or without, or two with both.
Above(range, a) == range.lower = {a} /\ range.upper = {} /\ range.upperIn = TRUE
Below(range, b) == range.lower = {} /\ range.upper = {b} /\ range.lowerIn = TRUE
Between(range, a, b) ==
    range.lower = {a} /\ range.upper = {b} /\ range.lowerIn = TRUE /\ range.upperIn = TRUE
Shaped(range) ==
    /\ range.lowerIn \in BOOLEAN /\ range.upperIn \in BOOLEAN
    /\ \/ \E a \in Bounds : Above(range, a)
       \/ \E b \in Bounds : Below(range, b)
       \/ \E a, b \in Bounds : Between(range, a, b)
    /\ \E v \in Values : Within(range, v)

SameRange(r, s) ==
    r.lower = s.lower /\ r.upper = s.upper /\ r.lowerIn = s.lowerIn /\ r.upperIn = s.upperIn

AcceptsAlike(r, s) == \A v \in Values : Within(r, v) <=> Within(s, v)

\* Every bound has values on both sides, and so have two at once.
LEMMA Room ==
    /\ \A a \in Bounds : a \in Values /\ a \in Int
    /\ \A v \in Values : v \in Int
    /\ \A a, b \in Bounds : \E v \in Values : v < a /\ v < b
    /\ \A a, b \in Bounds : \E v \in Values : a < v /\ b < v
<1>1. \A a \in Bounds : a \in Values /\ a \in Int
  BY BoundsAssumption, CriteriaAssumption
<1>2. \A v \in Values : v \in Int
  BY CriteriaAssumption
<1>3. \A a \in Bounds : (\E v \in Values : v < a) /\ (\E v \in Values : a < v)
  BY BoundsAssumption
<1>4. ASSUME NEW a \in Bounds, NEW b \in Bounds PROVE \E v \in Values : v < a /\ v < b
  <2>1. PICK v \in Values : v < a
    BY <1>3
  <2>2. PICK w \in Values : w < b
    BY <1>3
  <2>3. v \in Int /\ w \in Int /\ a \in Int /\ b \in Int
    BY <1>1, <1>2
  <2>4. CASE v <= w
    <3>1. v < b
      BY <2>2, <2>3, <2>4
    <3> QED BY <3>1, <2>1
  <2>5. CASE ~ v <= w
    <3>1. w < a
      BY <2>1, <2>3, <2>5
    <3> QED BY <3>1, <2>2
  <2> QED BY <2>4, <2>5
<1>5. ASSUME NEW a \in Bounds, NEW b \in Bounds PROVE \E v \in Values : a < v /\ b < v
  <2>1. PICK v \in Values : a < v
    BY <1>3
  <2>2. PICK w \in Values : b < w
    BY <1>3
  <2>3. v \in Int /\ w \in Int /\ a \in Int /\ b \in Int
    BY <1>1, <1>2
  <2>4. CASE w <= v
    <3>1. b < v
      BY <2>2, <2>3, <2>4
    <3> QED BY <3>1, <2>1
  <2>5. CASE ~ w <= v
    <3>1. a < w
      BY <2>1, <2>3, <2>5
    <3> QED BY <3>1, <2>2
  <2> QED BY <2>4, <2>5
<1> QED BY <1>1, <1>2, <1>4, <1>5

\* A range that is open below accepts what no range with a lower bound does.
LEMMA BoundBelow ==
    ASSUME NEW r, NEW s, Shaped(r), Shaped(s), AcceptsAlike(r, s), NEW a \in Bounds, s.lower = {a}
    PROVE  r.lower # {}
<1> SUFFICES ASSUME r.lower = {} PROVE FALSE
  OBVIOUS
<1>1. PICK b \in Bounds : Below(r, b)
  BY DEF Shaped, Above, Between
<1>2. PICK v \in Values : v < a /\ v < b
  BY Room
<1>3. v \in Int /\ a \in Int /\ b \in Int
  BY Room
<1>4. Within(r, v)
  BY <1>1, <1>2, <1>3 DEF Within, Below
<1>5. ~ Within(s, v)
  BY <1>2, <1>3 DEF Within
<1> QED BY <1>4, <1>5 DEF AcceptsAlike

\* The same above.
LEMMA BoundAbove ==
    ASSUME NEW r, NEW s, Shaped(r), Shaped(s), AcceptsAlike(r, s), NEW a \in Bounds, s.upper = {a}
    PROVE  r.upper # {}
<1> SUFFICES ASSUME r.upper = {} PROVE FALSE
  OBVIOUS
<1>1. PICK b \in Bounds : Above(r, b)
  BY DEF Shaped, Below, Between
<1>2. PICK v \in Values : a < v /\ b < v
  BY Room
<1>3. v \in Int /\ a \in Int /\ b \in Int
  BY Room
<1>4. Within(r, v)
  BY <1>1, <1>2, <1>3 DEF Within, Above
<1>5. ~ Within(s, v)
  BY <1>2, <1>3 DEF Within
<1> QED BY <1>4, <1>5 DEF AcceptsAlike

\* A lower bound is accepted, or what lies just above it is; what is below it is not.
LEMMA LowerBound ==
    ASSUME NEW r, Shaped(r), NEW a \in Bounds, r.lower = {a}
    PROVE  /\ r.lowerIn => Within(r, a)
           /\ ~ r.lowerIn => ~ Within(r, a)
           /\ \A b \in Bounds : a < b => \E v \in Values : v < b /\ Within(r, v)
           /\ \A v \in Values : v < a => ~ Within(r, v)
<1>1. a \in Values /\ a \in Int /\ (\A v \in Values : v \in Int) /\ (\A b \in Bounds : b \in Int)
  BY Room
<1>2. \A v \in Values : v < a => ~ Within(r, v)
  <2> SUFFICES ASSUME NEW v \in Values, v < a PROVE ~ Within(r, v)
    OBVIOUS
  <2>1. v \in Int /\ a \in Int
    BY <1>1
  <2>2. ~ (IF r.lowerIn THEN a <= v ELSE a < v)
    BY <2>1
  <2>3. a \in r.lower
    OBVIOUS
  <2> QED BY <2>2, <2>3 DEF Within
<1>3. ~ r.lowerIn => ~ Within(r, a)
  <2>1. a \in r.lower /\ ~ a < a
    BY <1>1
  <2> QED BY <2>1 DEF Within
<1>4. CASE Above(r, a)
  <2>1. r.lowerIn => Within(r, a)
    BY <1>1, <1>4 DEF Above, Within
  <2>2. ASSUME NEW b \in Bounds, a < b PROVE \E v \in Values : v < b /\ Within(r, v)
    <3>1. PICK v \in Values : a < v /\ v < b
      BY <2>2, BoundsAssumption
    <3>2. Within(r, v)
      BY <1>1, <1>4, <3>1 DEF Above, Within
    <3> QED BY <3>1, <3>2
  <2> QED BY <1>2, <1>3, <2>1, <2>2
<1>5. ASSUME NEW b \in Bounds, Between(r, a, b)
      PROVE  Within(r, a) /\ r.lowerIn
  <2>1. PICK v \in Values : Within(r, v)
    BY DEF Shaped
  <2>2. a <= v /\ v <= b
    BY <1>5, <2>1 DEF Between, Within
  <2>3. a \in Int /\ b \in Int /\ v \in Int
    BY <1>1
  <2>4. a <= b /\ a <= a
    BY <2>2, <2>3
  <2> QED BY <1>5, <2>4 DEF Between, Within
<1>6. Above(r, a) \/ \E b \in Bounds : Between(r, a, b)
  BY DEF Shaped, Above, Below, Between
<1>7. CASE \E b \in Bounds : Between(r, a, b)
  BY <1>1, <1>2, <1>3, <1>5, <1>7
<1> QED BY <1>4, <1>6, <1>7

\* The same for an upper bound.
LEMMA UpperBound ==
    ASSUME NEW r, Shaped(r), NEW a \in Bounds, r.upper = {a}
    PROVE  /\ r.upperIn => Within(r, a)
           /\ ~ r.upperIn => ~ Within(r, a)
           /\ \A b \in Bounds : b < a => \E v \in Values : b < v /\ Within(r, v)
           /\ \A v \in Values : a < v => ~ Within(r, v)
<1>1. a \in Values /\ a \in Int /\ (\A v \in Values : v \in Int) /\ (\A b \in Bounds : b \in Int)
  BY Room
<1>2. \A v \in Values : a < v => ~ Within(r, v)
  <2> SUFFICES ASSUME NEW v \in Values, a < v PROVE ~ Within(r, v)
    OBVIOUS
  <2>1. v \in Int /\ a \in Int
    BY <1>1
  <2>2. ~ (IF r.upperIn THEN v <= a ELSE v < a)
    BY <2>1
  <2>3. a \in r.upper
    OBVIOUS
  <2> QED BY <2>2, <2>3 DEF Within
<1>3. ~ r.upperIn => ~ Within(r, a)
  <2>1. a \in r.upper /\ ~ a < a
    BY <1>1
  <2> QED BY <2>1 DEF Within
<1>4. CASE Below(r, a)
  <2>1. r.upperIn => Within(r, a)
    BY <1>1, <1>4 DEF Below, Within
  <2>2. ASSUME NEW b \in Bounds, b < a PROVE \E v \in Values : b < v /\ Within(r, v)
    <3>1. PICK v \in Values : b < v /\ v < a
      BY <2>2, BoundsAssumption
    <3>2. Within(r, v)
      BY <1>1, <1>4, <3>1 DEF Below, Within
    <3> QED BY <3>1, <3>2
  <2> QED BY <1>2, <1>3, <2>1, <2>2
<1>5. ASSUME NEW b \in Bounds, Between(r, b, a)
      PROVE  Within(r, a) /\ r.upperIn
  <2>1. PICK v \in Values : Within(r, v)
    BY DEF Shaped
  <2>2. b <= v /\ v <= a
    BY <1>5, <2>1 DEF Between, Within
  <2>3. a \in Int /\ b \in Int /\ v \in Int
    BY <1>1
  <2>4. b <= a /\ a <= a
    BY <2>2, <2>3
  <2> QED BY <1>5, <2>4 DEF Between, Within
<1>6. Below(r, a) \/ \E b \in Bounds : Between(r, b, a)
  BY DEF Shaped, Above, Below, Between
<1>7. CASE \E b \in Bounds : Between(r, b, a)
  BY <1>1, <1>2, <1>3, <1>5, <1>7
<1> QED BY <1>4, <1>6, <1>7

\* Ranges that accept the same are the same.
LEMMA RangesDiffer ==
    ASSUME NEW r, NEW s, Shaped(r), Shaped(s)
    PROVE  AcceptsAlike(r, s) <=> SameRange(r, s)
<1>1. SameRange(r, s) => AcceptsAlike(r, s)
  BY DEF SameRange, AcceptsAlike, Within
<1> SUFFICES ASSUME AcceptsAlike(r, s) PROVE SameRange(r, s)
  BY <1>1
<1>2. AcceptsAlike(s, r)
  BY DEF AcceptsAlike
<1>3. /\ r.lower = {} \/ \E a \in Bounds : r.lower = {a}
      /\ s.lower = {} \/ \E a \in Bounds : s.lower = {a}
      /\ r.upper = {} \/ \E a \in Bounds : r.upper = {a}
      /\ s.upper = {} \/ \E a \in Bounds : s.upper = {a}
      /\ (r.lower = {} => r.lowerIn = TRUE) /\ (s.lower = {} => s.lowerIn = TRUE)
      /\ (r.upper = {} => r.upperIn = TRUE) /\ (s.upper = {} => s.upperIn = TRUE)
      /\ r.lowerIn \in BOOLEAN /\ r.upperIn \in BOOLEAN /\ s.lowerIn \in BOOLEAN /\ s.upperIn \in BOOLEAN
  BY DEF Shaped, Above, Below, Between
<1>4. r.lower = s.lower /\ r.lowerIn = s.lowerIn
  <2>1. CASE r.lower = {}
    <3>1. s.lower = {}
      BY <1>2, <1>3, <2>1, BoundBelow
    <3> QED BY <1>3, <2>1, <3>1
  <2>2. CASE s.lower = {}
    <3>1. r.lower = {}
      BY <1>2, <1>3, <2>2, BoundBelow
    <3> QED BY <1>3, <2>2, <3>1
  <2>3. ASSUME NEW a \in Bounds, r.lower = {a}, NEW b \in Bounds, s.lower = {b}
        PROVE  r.lower = s.lower /\ r.lowerIn = s.lowerIn
    <3>1. a \in Int /\ b \in Int /\ a \in Values /\ b \in Values /\ \A v \in Values : v \in Int
      BY Room
    <3>2. ~ a < b
      <4> SUFFICES ASSUME a < b PROVE FALSE
        OBVIOUS
      <4>1. PICK v \in Values : v < b /\ Within(r, v)
        BY <2>3, LowerBound
      <4>2. ~ Within(s, v)
        BY <2>3, <4>1, LowerBound
      <4> QED BY <4>1, <4>2 DEF AcceptsAlike
    <3>3. ~ b < a
      <4> SUFFICES ASSUME b < a PROVE FALSE
        OBVIOUS
      <4>1. PICK v \in Values : v < a /\ Within(s, v)
        BY <2>3, LowerBound
      <4>2. ~ Within(r, v)
        BY <2>3, <4>1, LowerBound
      <4> QED BY <4>1, <4>2 DEF AcceptsAlike
    <3>4. a = b
      BY <3>1, <3>2, <3>3
    <3>5. Within(r, a) <=> Within(s, a)
      BY <3>1 DEF AcceptsAlike
    <3>6. (r.lowerIn => Within(r, a)) /\ (~ r.lowerIn => ~ Within(r, a))
      BY <2>3, LowerBound
    <3>7. (s.lowerIn => Within(s, a)) /\ (~ s.lowerIn => ~ Within(s, a))
      BY <2>3, <3>4, LowerBound
    <3> QED BY <1>3, <2>3, <3>4, <3>5, <3>6, <3>7
  <2> QED BY <1>3, <2>1, <2>2, <2>3
<1>5. r.upper = s.upper /\ r.upperIn = s.upperIn
  <2>1. CASE r.upper = {}
    <3>1. s.upper = {}
      BY <1>2, <1>3, <2>1, BoundAbove
    <3> QED BY <1>3, <2>1, <3>1
  <2>2. CASE s.upper = {}
    <3>1. r.upper = {}
      BY <1>2, <1>3, <2>2, BoundAbove
    <3> QED BY <1>3, <2>2, <3>1
  <2>3. ASSUME NEW a \in Bounds, r.upper = {a}, NEW b \in Bounds, s.upper = {b}
        PROVE  r.upper = s.upper /\ r.upperIn = s.upperIn
    <3>1. a \in Int /\ b \in Int /\ a \in Values /\ b \in Values /\ \A v \in Values : v \in Int
      BY Room
    <3>2. ~ a < b
      <4> SUFFICES ASSUME a < b PROVE FALSE
        OBVIOUS
      <4>1. PICK v \in Values : a < v /\ Within(s, v)
        BY <2>3, UpperBound
      <4>2. ~ Within(r, v)
        BY <2>3, <4>1, UpperBound
      <4> QED BY <4>1, <4>2 DEF AcceptsAlike
    <3>3. ~ b < a
      <4> SUFFICES ASSUME b < a PROVE FALSE
        OBVIOUS
      <4>1. PICK v \in Values : b < v /\ Within(r, v)
        BY <2>3, UpperBound
      <4>2. ~ Within(s, v)
        BY <2>3, <4>1, UpperBound
      <4> QED BY <4>1, <4>2 DEF AcceptsAlike
    <3>4. a = b
      BY <3>1, <3>2, <3>3
    <3>5. Within(r, a) <=> Within(s, a)
      BY <3>1 DEF AcceptsAlike
    <3>6. (r.upperIn => Within(r, a)) /\ (~ r.upperIn => ~ Within(r, a))
      BY <2>3, UpperBound
    <3>7. (s.upperIn => Within(s, a)) /\ (~ s.upperIn => ~ Within(s, a))
      BY <2>3, <3>4, UpperBound
    <3> QED BY <1>3, <2>3, <3>4, <3>5, <3>6, <3>7
  <2> QED BY <1>3, <2>1, <2>2, <2>3
<1> QED BY <1>4, <1>5 DEF SameRange

\* What a condition keeps is what is within its interval.
RangeOf(c) == IntervalOf(c.operator, c.value)

\* It has the bounds its operator takes.
HasBounds(c) == 1 \in DOMAIN c.value /\ (c.operator = "between" => 2 \in DOMAIN c.value)

\* A range has one of the shapes, and its values are those its operator means.
LEMMA RangeHolds ==
    ASSUME NEW c, HasBounds(c), IsRange(c)
    PROVE  Shaped(RangeOf(c)) /\ \A v \in Values : Holds(c, v) <=> Within(RangeOf(c), v)
<1>1. /\ c.operator \in RangeOperators /\ 1 \in DOMAIN c.value
      /\ c.operator = "between" => 2 \in DOMAIN c.value
      /\ \A i \in DOMAIN c.value : ParseNumber(c.value[i]) \in Bounds
      /\ \E v \in Values : Holds(c, v)
  BY DEF IsRange, HasBounds, HasInterval, Accepted, RangeOperators
<1> DEFINE a == ParseNumber(c.value[1])
           b == ParseNumber(c.value[2])
           r == RangeOf(c)
<1>2. a \in Bounds /\ (c.operator = "between" => b \in Bounds)
  BY <1>1
<1>3. /\ c.operator = "<" => Below(r, a) /\ r.upperIn = FALSE /\ \A v \in Values : Holds(c, v) <=> v < a
      /\ c.operator = "<=" => Below(r, a) /\ r.upperIn = TRUE /\ \A v \in Values : Holds(c, v) <=> v <= a
      /\ c.operator = ">" => Above(r, a) /\ r.lowerIn = FALSE /\ \A v \in Values : Holds(c, v) <=> a < v
      /\ c.operator = ">=" => Above(r, a) /\ r.lowerIn = TRUE /\ \A v \in Values : Holds(c, v) <=> a <= v
      /\ c.operator = "=" => Between(r, a, a) /\ \A v \in Values : Holds(c, v) <=> v = a
      /\ c.operator = "between" =>
             Between(r, a, b) /\ \A v \in Values : Holds(c, v) <=> a <= v /\ v <= b
  BY <1>2, Room DEF RangeOf, IntervalOf, Above, Below, Between, Holds
<1> HIDE DEF r, a, b
<1>4. \A v \in Values : Holds(c, v) <=> Within(r, v)
  <2>1. CASE c.operator \in {"<", "<="}
    BY <1>3, <2>1 DEF Below, Within
  <2>2. CASE c.operator \in {">", ">="}
    BY <1>3, <2>2 DEF Above, Within
  <2>3. CASE c.operator \in {"="}
    <3>1. a \in Int /\ \A v \in Values : v \in Int
      BY <1>2, Room
    <3> QED BY <1>3, <2>3, <3>1 DEF Between, Within
  <2>4. CASE c.operator \in {"between"}
    BY <1>3, <2>4 DEF Between, Within
  <2> QED BY <1>1, <2>1, <2>2, <2>3, <2>4 DEF RangeOperators
<1>5. r.lowerIn \in BOOLEAN /\ r.upperIn \in BOOLEAN
  BY DEF r, RangeOf, IntervalOf
<1>6. \/ \E x \in Bounds : Above(r, x)
      \/ \E x \in Bounds : Below(r, x)
      \/ \E x, y \in Bounds : Between(r, x, y)
  BY <1>1, <1>2, <1>3 DEF RangeOperators
<1>7. Shaped(r)
  BY <1>1, <1>4, <1>5, <1>6 DEF Shaped
<1> QED BY <1>4, <1>7 DEF r

\* Two ranges are compared without a finding when they accept the same.
LEMMA ConditionsCompared ==
    ASSUME NEW c, HasBounds(c), IsRange(c), NEW d, HasBounds(d), IsRange(d)
    PROVE  CompareConditions(c, d) = {} <=> Accepted(c) = Accepted(d)
<1> DEFINE r == RangeOf(c)
           s == RangeOf(d)
<1>1. Shaped(r) /\ \A v \in Values : Holds(c, v) <=> Within(r, v)
  BY RangeHolds
<1>2. Shaped(s) /\ \A v \in Values : Holds(d, v) <=> Within(s, v)
  BY RangeHolds
<1>3. AcceptsAlike(r, s) <=> SameRange(r, s)
  BY <1>1, <1>2, RangesDiffer
<1>4. Accepted(c) = Accepted(d) <=> AcceptsAlike(r, s)
  BY <1>1, <1>2 DEF Accepted, AcceptsAlike
<1>5. CompareConditions(c, d) = {} <=> SameRange(r, s)
  <2>1. HasInterval(c.operator, c.value) /\ HasInterval(d.operator, d.value)
    BY DEF IsRange
  <2> QED BY <2>1 DEF CompareConditions, SameBounds, SameRange, RangeOf
<1> QED BY <1>3, <1>4, <1>5

\* What stage 5 compares a condition with is on the attribute the condition means, and
\* there is something where any condition is.
LEMMA CounterpartFacts ==
    ASSUME NEW rule, NEW other, other.type = "criteria", IsSeq(rule.conditions), IsSeq(other.conditions),
           NEW c
    PROVE  LET near == {d \in Range(other.conditions) : MeansTheSameAttribute(rule, other, c, d)}
           IN  /\ Counterpart(rule, other, c) \subseteq near
               /\ near # {} => Counterpart(rule, other, c) # {}
               /\ \A d, e \in near : d = e \/ Resolve(d.field) = Resolve(e.field)
<1> DEFINE theirs == other.conditions
           n == Len(theirs)
           same == {i \in DOMAIN theirs : Resolve(theirs[i].field) = Resolve(c.field)}
           single == Len(rule.conditions) = 1 /\ Len(theirs) = 1
           last == CHOOSE i \in same : \A j \in same : j <= i
           near == {d \in Range(theirs) : MeansTheSameAttribute(rule, other, c, d)}
           these == Counterpart(rule, other, c)
<1>1. n \in Nat /\ DOMAIN theirs = 1 .. n
  BY SeqIn
<1>2. these = IF same # {} THEN {theirs[last]} ELSE IF single /\ ~ Knows(c.field) THEN {theirs[1]} ELSE {}
  BY DEF Counterpart, ConditionsOf
<1>3. same # {} => last \in same
  <2> SUFFICES ASSUME same # {} PROVE last \in same
    OBVIOUS
  <2>1. same \in SUBSET (1 .. n)
    BY <1>1
  <2> HIDE DEF same
  <2>2. \E m \in same : \A k \in same : k <= m
    BY <1>1, <2>1, Largest
  <2> QED BY <2>2
<1>4. near = {theirs[i] : i \in same} \cup {d \in Range(theirs) : single /\ ~ Knows(c.field)}
  BY DEF MeansTheSameAttribute, Range
<1>5. single => Range(theirs) = {theirs[1]} /\ 1 \in DOMAIN theirs
  BY <1>1 DEF Range
<1>6. \A i \in same : i \in DOMAIN theirs /\ Resolve(theirs[i].field) = Resolve(c.field)
  OBVIOUS
<1> HIDE DEF same, last, single, theirs
<1>7. these \subseteq near
  BY <1>2, <1>3, <1>4, <1>5
<1>8. near # {} => these # {}
  BY <1>2, <1>4
<1>9. \A d, e \in near : d = e \/ Resolve(d.field) = Resolve(e.field)
  <2>1. CASE single
    BY <1>4, <1>5, <1>6, <2>1
  <2>2. CASE ~ single
    BY <1>4, <1>6, <2>2
  <2> QED BY <2>1, <2>2
<1> QED BY <1>7, <1>8, <1>9 DEF theirs

\* Stage 5 compares a condition with one of those it could mean, and they all keep the same.
LEMMA CriteriaCompared ==
    ASSUME NEW rule, NEW other, rule.type = "criteria", other.type = "criteria",
           IsSeq(rule.conditions), IsSeq(other.conditions),
           \A c \in Range(rule.conditions) \cup Range(other.conditions) : HasBounds(c) /\ IsRange(c),
           \A d, e \in Range(other.conditions) :
               Resolve(d.field) = Resolve(e.field) => Accepted(d) = Accepted(e)
    PROVE  CompareCriteria(rule, other) = {} <=> KeepsTheSame(rule, other)
<1> DEFINE near(c) == {d \in Range(other.conditions) : MeansTheSameAttribute(rule, other, c, d)}
           these(c) == Counterpart(rule, other, c)
           says(c) == IF these(c) = {} THEN {"rule_missing_in_config"}
                      ELSE UNION {CompareConditions(c, d) : d \in these(c)}
           C == Range(rule.conditions)
           D == Range(other.conditions)
<1>1. KeepsTheSame(rule, other) <=> \A c \in C : \E d \in near(c) : Accepted(c) = Accepted(d)
  BY DEF KeepsTheSame
<1>2. CompareCriteria(rule, other) = UNION {says(c) : c \in C}
  BY Zenon DEF CompareCriteria
<1>3. ASSUME NEW c \in C PROVE says(c) = {} <=> \E d \in near(c) : Accepted(c) = Accepted(d)
  <2>1. /\ these(c) \subseteq near(c) /\ (near(c) # {} => these(c) # {})
        /\ \A d, e \in near(c) : d = e \/ Resolve(d.field) = Resolve(e.field)
    BY CounterpartFacts, Zenon
  <2>2. near(c) \subseteq D
    OBVIOUS
  <2>3. \A d, e \in near(c) : Accepted(d) = Accepted(e)
    BY <2>1, <2>2
  <2>4. \A d \in near(c) : CompareConditions(c, d) = {} <=> Accepted(c) = Accepted(d)
    BY <2>2, ConditionsCompared
  <2>5. says(c) = {} <=> these(c) # {} /\ \A d \in these(c) : CompareConditions(c, d) = {}
    OBVIOUS
  <2> HIDE DEF near, these, says, D
  <2> QED BY <2>1, <2>3, <2>4, <2>5
<1> HIDE DEF says, near, C
<1>4. UNION {says(c) : c \in C} = {} <=> \A c \in C : says(c) = {}
  OBVIOUS
<1> QED BY <1>1, <1>2, <1>3, <1>4

\* Sets are compared value by value, and lists that include with lists that include.
LEMMA SetsCompared ==
    ASSUME NEW rule, NEW other, rule.type = "set", other.type = "set"
    PROVE  CompareSets(rule, other) = {} <=> rule.values = other.values /\ rule.mode = other.mode
<1>1. CASE rule.mode # other.mode
  BY <1>1 DEF CompareSets
<1>2. CASE rule.mode = other.mode
  <2>1. CompareSets(rule, other) =
            {k \in {"rule_missing_in_config", "extra_rule_in_config"} :
                 IF k = "rule_missing_in_config" THEN ~ rule.values \subseteq other.values
                                                 ELSE ~ other.values \subseteq rule.values}
    BY <1>2 DEF CompareSets, ValuesOf
  <2>2. CompareSets(rule, other) = {} <=> rule.values \subseteq other.values /\ other.values \subseteq rule.values
    BY <2>1
  <2> QED BY <1>2, <2>2
<1> QED BY <1>1, <1>2

\* The steps a requirement asks for are found in its order exactly when those of the
\* configuration that it asks for are they.
LEMMA StepsCompared ==
    ASSUME NEW rule, NEW other, rule.type = "waterfall", other.type = "waterfall",
           IsSeq(rule.steps), IsSeq(other.steps), IsInjective(other.steps)
    PROVE  CompareSteps(rule, other) = {} <=> KeepsTheSame(rule, other)
<1> DEFINE a == rule.steps
           g == other.steps
           m == Len(a)
           n == Len(g)
<1>1. m \in Nat /\ n \in Nat /\ DOMAIN a = 1 .. m /\ DOMAIN g = 1 .. n
  BY SeqIn
<1>2. CompareSteps(rule, other) = {} <=>
          Range(a) \subseteq Range(g) /\ Kept(a, Range(g)) = Kept(g, Range(a))
  <2>1. CompareSteps(rule, other) =
            {k \in {"rule_missing_in_config", "waterfall_order_mismatch"} :
                 IF k = "rule_missing_in_config" THEN ~ Range(a) \subseteq Range(g)
                                                 ELSE Kept(a, Range(g)) # Kept(g, Range(a))}
    BY DEF CompareSteps, StepsOf
  <2> QED BY <2>1
<1>3. KeepsTheSame(rule, other) <=>
          \E f \in [1 .. m -> 1 .. n] : (\A i \in 1 .. m : a[i] = g[f[i]]) /\ Climbs(f, m)
  BY <1>1 DEF KeepsTheSame, Climbs
<1>4. Range(a) = {a[i] : i \in 1 .. m} /\ Range(g) = {g[i] : i \in 1 .. n}
  BY <1>1 DEF Range
<1>5. IsSeq(a) /\ IsSeq(g) /\ \A i, j \in 1 .. n : g[i] = g[j] => i = j
  BY <1>1 DEF IsInjective
<1> HIDE DEF a, g, m, n
<1>6. Range(a) \subseteq Range(g) => Kept(a, Range(g)) = a
  BY <1>4, <1>5, KeptWhole DEF m
<1>7. ASSUME Range(a) \subseteq Range(g), Kept(a, Range(g)) = Kept(g, Range(a))
      PROVE  \E f \in [1 .. m -> 1 .. n] : (\A i \in 1 .. m : a[i] = g[f[i]]) /\ Climbs(f, m)
  <2>1. PICK h : KeepsBy(h, Kept(g, Range(a)), g, Range(a), Len(g))
    BY <1>5, KeptInOrder
  <2>2. KeepsBy(h, a, g, Range(a), n)
    BY <1>6, <1>7, <2>1 DEF n
  <2> QED BY <2>2 DEF KeepsBy, m
<1>8. ASSUME NEW f \in [1 .. m -> 1 .. n], \A i \in 1 .. m : a[i] = g[f[i]], Climbs(f, m)
      PROVE  Range(a) \subseteq Range(g) /\ Kept(a, Range(g)) = Kept(g, Range(a))
  <2>1. Range(a) \subseteq Range(g)
    BY <1>4, <1>8
  <2>2. \A i \in 1 .. n : g[i] \in Range(a) => \E k \in 1 .. m : f[k] = i
    <3> SUFFICES ASSUME NEW i \in 1 .. n, g[i] \in Range(a) PROVE \E k \in 1 .. m : f[k] = i
      OBVIOUS
    <3>1. PICK k \in 1 .. m : g[i] = a[k]
      BY <1>4
    <3>2. f[k] \in 1 .. n /\ g[f[k]] = g[i]
      BY <1>8, <3>1
    <3> QED BY <1>5, <3>2
  <2>3. KeepsBy(f, a, g, Range(a), Len(g))
    BY <1>4, <1>5, <1>8, <2>2 DEF KeepsBy, m, n
  <2>4. Kept(g, Range(a)) = a
    BY <1>5, <2>3, KeptIs
  <2> QED BY <1>6, <2>1, <2>4
<1> QED BY <1>2, <1>3, <1>7, <1>8

\* The three kinds of requirements.
LEMMA FindingsDiffer ==
    ASSUME NEW rule, NEW other, IsRequirement(rule), IsRequirement(other), other # NoElement,
           rule.type = other.type, Comparable(rule), Comparable(other)
    PROVE  Compare(rule, other) = {} <=> KeepsTheSame(rule, other)
<1>1. CASE rule.type = "set"
  <2>1. /\ rule.values \subseteq Members /\ other.values \subseteq Members
        /\ rule.mode \in {"include", "exclude"}
    BY <1>1 DEF IsRequirement
  <2>2. rule.mode = other.mode =>
            (Allowed(rule) = Allowed(other) <=> rule.values = other.values)
    <3>1. CASE rule.mode = "include"
      BY <3>1 DEF Allowed
    <3>2. CASE rule.mode # "include"
      <4>1. \A A, B \in SUBSET Members : Members \ A = Members \ B => A = B
        OBVIOUS
      <4> QED BY <2>1, <3>2, <4>1 DEF Allowed
    <3> QED BY <3>1, <3>2
  <2>3. KeepsTheSame(rule, other) <=> Allowed(rule) = Allowed(other) /\ rule.mode = other.mode
    BY <1>1 DEF KeepsTheSame
  <2>4. Compare(rule, other) = CompareSets(rule, other)
    BY <1>1 DEF Compare, CompareWith
  <2> QED BY <1>1, <2>2, <2>3, <2>4, SetsCompared
<1>2. CASE rule.type = "criteria"
  <2>1. /\ rule.conditions \in Seq(Range(rule.conditions))
        /\ other.conditions \in Seq(Range(other.conditions))
        /\ \A c \in Range(rule.conditions) : IsCondition(c)
        /\ \A c \in Range(other.conditions) : IsCondition(c)
    BY <1>2 DEF IsRequirement
  <2>2. IsSeq(rule.conditions) /\ IsSeq(other.conditions)
    BY <2>1, SeqIs
  <2>3. /\ \A c \in Range(rule.conditions) : IsRange(c)
        /\ \A c \in Range(other.conditions) : IsRange(c)
        /\ OnePerAttribute(other)
    BY <1>2 DEF Comparable
  <2>4. \A c : IsCondition(c) /\ IsRange(c) => HasBounds(c)
    BY DEF IsCondition, IsRange, HasInterval, HasBounds, RangeOperators
  <2>5. \A d, e \in Range(other.conditions) :
            Resolve(d.field) = Resolve(e.field) => Accepted(d) = Accepted(e)
    BY <2>3 DEF OnePerAttribute
  <2>6. Compare(rule, other) = CompareCriteria(rule, other)
    BY <1>2 DEF Compare, CompareWith
  <2>7. \A c \in Range(rule.conditions) \cup Range(other.conditions) : HasBounds(c) /\ IsRange(c)
    BY <2>1, <2>3, <2>4
  <2> QED BY <1>2, <2>2, <2>5, <2>6, <2>7, CriteriaCompared
<1>3. CASE rule.type = "waterfall"
  <2>1. IsSeq(rule.steps) /\ IsSeq(other.steps) /\ IsInjective(other.steps)
    BY <1>3 DEF IsRequirement, Comparable
  <2>2. Compare(rule, other) = CompareSteps(rule, other)
    BY <1>3 DEF Compare, CompareWith
  <2> QED BY <1>3, <2>1, <2>2, StepsCompared
<1> QED BY <1>1, <1>2, <1>3 DEF IsRequirement

\* Stage 5 has nothing to say about a requirement and what implements it exactly when they
\* keep the same: for any attributes, alias table, values and rules that can be compared.
THEOREM DifferencesAreFound == CriteriaSpec => []FindingsAreDifferences
<1>1. CriteriaInit => OneReading
  BY DEF CriteriaInit, OneReading
<1>2. OneReading /\ [FALSE]_criteriaVars => OneReading'
  BY DEF OneReading, criteriaVars
<1>3. OneReading => FindingsAreDifferences
  <2>1. OneReading /\ element # NoElement => IsRequirement(asked) /\ IsRequirement(element)
    BY ReadingsAssumption DEF OneReading
  <2> QED BY <2>1, FindingsDiffer DEF FindingsAreDifferences
<1> QED BY <1>1, <1>2, <1>3, PTL DEF CriteriaSpec

-----------------------------------------------------------------------------
(* From the model's answers to the findings. What keeps to the schema is   *)
(* folded to itself, so a rule and the requirement it was made of differ   *)
(* in their spelling alone: a number in a text, a state's name, a product  *)
(* code, a mode that goes without saying. The invariant keeps, with each   *)
(* rule and each block, what was said of it; links lead to blocks of the   *)
(* same kind; and rules are compared as in the section before.             *)

\* Reading a number twice reads it once.
LEMMA NumberOnce == \A v : ParseNumber(ParseNumber(v)) = ParseNumber(v)
<1>1. \A v \in DOMAIN Numeral : Numeral[v] \in Values /\ Numeral[v] \notin DOMAIN Numeral
  BY CriteriaAssumption, AnswersAssumption
<1> QED BY <1>1 DEF ParseNumber

\* A condition as it is meant, with every text a number is read out of taken for it.
Meant(c) ==
    [field |-> c.field, operator |-> c.operator,
     value |-> [k \in DOMAIN c.value |-> ParseNumber(c.value[k])]]

\* Where the one is a range so is the other, and they keep the same values.
Alike(read, meant) ==
    /\ read.field = meant.field
    /\ IsRange(meant) => IsRange(read) /\ HasBounds(read) /\ Accepted(read) = Accepted(meant)

LEMMA ReadAsMeant ==
    ASSUME NEW c, IsSeq(c.value), c.shape = "one" => Len(c.value) = 1,
           c.operator = "between" => Len(c.value) = 2
    PROVE  Alike(ReadCondition(c), Meant(c))
<1> DEFINE r == ReadCondition(c)
           m == Meant(c)
           n == Len(c.value)
<1>1. n \in Nat /\ DOMAIN c.value = 1 .. n
  BY SeqIn
<1>2. /\ r.field = c.field /\ m.field = c.field /\ r.operator = c.operator /\ m.operator = c.operator
      /\ r.value = IF c.shape = "one" THEN <<ParseNumber(c.value[1])>> ELSE c.value
      /\ m.value = [k \in 1 .. n |-> ParseNumber(c.value[k])]
  BY <1>1 DEF ReadCondition, Meant
<1>3. DOMAIN r.value = 1 .. n /\ DOMAIN m.value = 1 .. n
  BY <1>1, <1>2
<1>4. \A k \in 1 .. n : ParseNumber(r.value[k]) = ParseNumber(m.value[k])
  <2>1. CASE c.shape = "one"
    <3>1. \A k \in 1 .. n : k = 1
      BY <1>1, <2>1
    <3> QED BY <1>2, <2>1, <3>1
  <2>2. CASE c.shape # "one"
    <3>1. \A k \in 1 .. n : m.value[k] = ParseNumber(c.value[k]) /\ r.value[k] = c.value[k]
      BY <1>2, <2>2
    <3> QED BY <3>1, NumberOnce
  <2> QED BY <2>1, <2>2
<1> HIDE DEF r, m
<1>5. (r.value = <<>> <=> m.value = <<>>) /\ (m.value # <<>> => 1 \in 1 .. n)
  <2>1. n = 0 => r.value = <<>> /\ m.value = <<>>
    <3>1. r.value = [k \in 1 .. n |-> r.value[k]] /\ m.value = [k \in 1 .. n |-> m.value[k]]
      <4>1. CASE c.shape = "one"
        BY <1>1, <1>2, <1>3, <4>1
      <4>2. CASE c.shape # "one"
        BY <1>1, <1>2, <1>3, <4>2 DEF IsSeq
      <4> QED BY <4>1, <4>2
    <3>2. n = 0 => 1 .. n = {}
      OBVIOUS
    <3> QED BY <3>1, <3>2
  <2>2. n # 0 => 1 \in 1 .. n /\ r.value # <<>> /\ m.value # <<>>
    BY <1>1, <1>3
  <2> QED BY <2>1, <2>2
<1>6. HasInterval(r.operator, r.value) <=> HasInterval(m.operator, m.value)
  BY <1>2, <1>3, <1>4, <1>5 DEF HasInterval
<1>7. ASSUME HasInterval(m.operator, m.value)
      PROVE  HasBounds(r) /\ Accepted(r) = Accepted(m)
  <2>1. c.operator \in RangeOperators /\ 1 \in 1 .. n /\ (c.operator = "between" => 2 \in 1 .. n)
    BY <1>1, <1>2, <1>5, <1>7 DEF HasInterval
  <2>2. HasBounds(r)
    BY <1>2, <1>3, <2>1 DEF HasBounds
  <2>3. ParseNumber(r.value[1]) = ParseNumber(m.value[1])
    BY <1>4, <2>1
  <2>4. c.operator = "between" => ParseNumber(r.value[2]) = ParseNumber(m.value[2])
    BY <1>4, <2>1
  <2>5. \A v \in Values : Holds(r, v) <=> Holds(m, v)
    BY <1>2, <2>1, <2>3, <2>4 DEF Holds, RangeOperators
  <2> QED BY <2>2, <2>5 DEF Accepted
<1>8. IsRange(m) => IsRange(r)
  BY <1>3, <1>4, <1>6, <1>7 DEF IsRange
<1>9. IsRange(m) => HasInterval(m.operator, m.value)
  BY DEF IsRange
<1> QED BY <1>2, <1>7, <1>8, <1>9 DEF Alike, r, m

\* What is read of the conditions of an answer and what is meant by them, one by one.
LEMMA ConditionsRead ==
    ASSUME NEW a, IsSaid(a)
    PROVE  /\ IsSeq(ReadConditions(a)) /\ IsSeq(MeantConditions(a))
           /\ DOMAIN ReadConditions(a) = DOMAIN MeantConditions(a)
           /\ \A i \in DOMAIN ReadConditions(a) : Alike(ReadConditions(a)[i], MeantConditions(a)[i])
<1> DEFINE S == {c \in Range(a.conditions) : Usable(c)}
           usable == Kept(a.conditions, S)
           R == ReadConditions(a)
           M == MeantConditions(a)
<1>1. IsSeq(a.conditions)
  BY DEF IsSaid
<1>2. IsSeq(usable) /\ \A i \in DOMAIN usable : usable[i] \in S
  BY <1>1, KeptFacts, Zenon
<1>3. R = [i \in DOMAIN usable |-> ReadCondition(usable[i])]
  BY Zenon DEF ReadConditions
<1>4. M = [i \in DOMAIN usable |-> Meant(usable[i])]
  BY Zenon DEF MeantConditions, Meant
<1> HIDE DEF usable, R, M
<1>5. \A i \in DOMAIN usable : Alike(ReadCondition(usable[i]), Meant(usable[i]))
  <2> SUFFICES ASSUME NEW i \in DOMAIN usable PROVE Alike(ReadCondition(usable[i]), Meant(usable[i]))
    OBVIOUS
  <2> DEFINE c == usable[i]
  <2>1. c \in Range(a.conditions) /\ Usable(c)
    BY <1>2
  <2>2. IsSeq(c.value) /\ (c.shape = "one" => Len(c.value) = 1)
    BY <2>1, Zenon DEF IsSaid
  <2>3. c.operator = "between" => Len(c.value) = 2
    BY <2>1 DEF Usable, NullOperators
  <2> HIDE DEF c
  <2>4. Alike(ReadCondition(c), Meant(c))
    BY <2>2, <2>3, ReadAsMeant
  <2> QED BY <2>4 DEF c
<1>6. R = [i \in DOMAIN usable |-> R[i]] /\ M = [i \in DOMAIN usable |-> M[i]]
  BY <1>3, <1>4
<1>7. IsSeq(R) /\ DOMAIN R = DOMAIN usable /\ IsSeq(M) /\ DOMAIN M = DOMAIN usable
  BY <1>2, <1>6, AlongSeq, Zenon
<1> QED BY <1>3, <1>4, <1>5, <1>7 DEF R, M

\* An answer that keeps to the schema is what the fold makes of it.
LEMMA FoldedIsSaid ==
    ASSUME NEW r, IsSaid(r), Validates(r), NEW codes, NEW action
    PROVE  LET f == AsSchema(r, codes, action)
           IN  /\ IsSaid(f) /\ Validates(f)
               /\ f.type = r.type /\ f.conditions = r.conditions /\ f.values = r.values
               /\ f.codes = codes /\ f.mode = r.mode /\ f.steps = r.steps
               /\ f.quantity = r.quantity /\ f.confident = r.confident
<1> DEFINE f == AsSchema(r, codes, action)
<1>1. /\ f.form = "schema" /\ f.type = FoldedType(r.type) /\ f.conditions = FoldedConditions(r)
      /\ f.values = r.values /\ f.codes = codes /\ f.mode = r.mode /\ f.steps = r.steps
      /\ f.quantity = r.quantity /\ f.confident = r.confident
  BY DEF AsSchema
<1>2. /\ r.form = "schema" /\ r.type \in ReqTypes
      /\ \A c \in Range(r.conditions) : c.operator \in Operators
  BY DEF Validates, KeepsToSchema
<1>3. FoldedType(r.type) = r.type
  BY <1>2 DEF FoldedType, TypeAliases, ReqTypes
<1>4. \A c \in Range(r.conditions) : FoldedCondition(c) = c
  <2> SUFFICES ASSUME NEW c \in Range(r.conditions) PROVE FoldedCondition(c) = c
    OBVIOUS
  <2>1. c = [field |-> c.field, operator |-> c.operator, shape |-> c.shape, value |-> c.value]
    BY Zenon DEF IsSaid
  <2>2. c.operator \in Operators /\ c.operator \notin DOMAIN OperatorAliases
    BY <1>2 DEF Operators, RangeOperators, ListOperators, NullOperators, OperatorAliases
  <2>3. FoldedCondition(c) =
            [field |-> c.field, shape |-> c.shape, value |-> c.value, operator |-> c.operator]
    BY <2>2 DEF FoldedCondition
  <2> QED BY <2>1, <2>3
<1>5. FoldedConditions(r) = r.conditions
  <2>1. r.conditions = [i \in DOMAIN r.conditions |-> r.conditions[i]]
    <3>1. IsSeq(r.conditions)
      BY DEF IsSaid
    <3> QED BY <3>1, SeqIn DEF IsSeq
  <2>2. FoldedConditions(r) = [i \in DOMAIN r.conditions |-> FoldedCondition(r.conditions[i])]
    BY <1>2 DEF FoldedConditions
  <2>3. \A i \in DOMAIN r.conditions : FoldedCondition(r.conditions[i]) = r.conditions[i]
    BY <1>4 DEF Range
  <2> QED BY <2>1, <2>2, <2>3
<1>6. f.type = r.type /\ f.conditions = r.conditions
  BY <1>1, <1>3, <1>5
<1> HIDE DEF f
<1>7. IsSaid(f)
  BY <1>1, <1>6 DEF IsSaid
<1>8. Validates(f)
  BY <1>1, <1>2, <1>6 DEF Validates, KeepsToSchema
<1> QED BY <1>1, <1>6, <1>7, <1>8 DEF f

\* What a requirement that was said has to do with the rule that was made of it.
AddedByCodes(r) ==
    {v \in UNION {Catalogue[k] : k \in Range(r.codes) \cap DOMAIN Catalogue} : r.type = "attributes"}

Makes(r, rule) ==
    /\ IsSaid(r) /\ r.type \in ReqTypes
    /\ rule.family = r.type /\ rule.type = (IF r.type \in SET_TYPES THEN "set" ELSE r.type)
    /\ rule.conditions = ReadConditions(r) /\ rule.values = ReadValues(r) \cup AddedByCodes(r)
    /\ rule.mode = (IF r.mode = NoMode /\ r.type \in SET_TYPES THEN "include" ELSE r.mode)
    /\ rule.steps = r.steps /\ rule.quantity = r.quantity

\* A rule of the document: its product codes are looked up.
LEMMA RequirementMakes ==
    ASSUME NEW a, IsSaid(a), Validates(a)
    PROVE  Makes(a, ExpandProductCodes(RuleOf(Folded(a))))
<1> DEFINE f == Folded(a)
           rule == RuleOf(f)
           whole == ExpandProductCodes(rule)
           codes == IF FoldedType(a.type) = "attributes" THEN a.codes ELSE <<>>
           more == UNION {Catalogue[k] : k \in rule.codes \cap DOMAIN Catalogue}
<1>1. /\ f.type = a.type /\ f.conditions = a.conditions /\ f.values = a.values
      /\ f.codes = codes /\ f.mode = a.mode /\ f.steps = a.steps /\ f.quantity = a.quantity
  <2> HIDE DEF codes
  <2>1. LET g == AsSchema(a, codes, a.action)
        IN  /\ g.type = a.type /\ g.conditions = a.conditions /\ g.values = a.values
            /\ g.codes = codes /\ g.mode = a.mode /\ g.steps = a.steps /\ g.quantity = a.quantity
    BY FoldedIsSaid
  <2>2. f = AsSchema(a, codes, a.action)
    BY Zenon DEF Folded, codes
  <2> QED BY <2>1, <2>2
<1>2. a.type \in ReqTypes
  BY DEF Validates
<1>3. FoldedType(a.type) = a.type
  BY <1>2 DEF FoldedType, TypeAliases, ReqTypes
<1>4. ReadConditions(f) = ReadConditions(a) /\ ReadValues(f) = ReadValues(a)
  BY <1>1 DEF ReadConditions, ReadValues
<1> HIDE DEF f
<1>5. /\ rule.type = (IF a.type \in SET_TYPES THEN "set" ELSE a.type) /\ rule.family = a.type
      /\ rule.conditions = ReadConditions(a) /\ rule.values = ReadValues(a)
      /\ rule.codes = Range(f.codes)
      /\ rule.mode = (IF a.mode = NoMode /\ a.type \in SET_TYPES THEN "include" ELSE a.mode)
      /\ rule.steps = a.steps /\ rule.quantity = a.quantity
  BY <1>1, <1>4 DEF RuleOf
<1>6. /\ whole.type = rule.type /\ whole.family = rule.family /\ whole.conditions = rule.conditions
      /\ whole.values = IF rule.family = "attributes" THEN rule.values \cup more ELSE rule.values
      /\ whole.mode = rule.mode /\ whole.steps = rule.steps /\ whole.quantity = rule.quantity
  BY DEF ExpandProductCodes, RuleOf
<1> HIDE DEF rule, whole
<1>7. a.type = "attributes" => more = UNION {Catalogue[k] : k \in Range(a.codes) \cap DOMAIN Catalogue}
  BY <1>1, <1>3, <1>5
<1> HIDE DEF more
<1>8. whole.values = ReadValues(a) \cup AddedByCodes(a)
  BY <1>5, <1>6, <1>7 DEF AddedByCodes
<1> QED BY <1>2, <1>5, <1>6, <1>8 DEF Makes, whole, rule, f

\* A rule of a block: a block has none.
LEMMA BlockMakes ==
    ASSUME NEW d, IsSaid(d.is), Validates(d.is)
    PROVE  Makes(Described(d), RuleOf(Described(d)))
<1> DEFINE f == Described(d)
<1>1. IsSaid(f) /\ Validates(f) /\ f.codes = <<>>
  <2>1. LET g == AsSchema(d.is, <<>>, "accept")
        IN  IsSaid(g) /\ Validates(g) /\ g.codes = <<>>
    BY FoldedIsSaid
  <2> QED BY <2>1 DEF Described
<1> HIDE DEF f
<1>2. AddedByCodes(f) = {}
  BY <1>1 DEF AddedByCodes, Range
<1>3. f.type \in ReqTypes
  BY <1>1 DEF Validates
<1> QED BY <1>1, <1>2, <1>3 DEF Makes, RuleOf, f

\* Lists of values are what was meant by them.
LEMMA SetsAsMeant ==
    ASSUME NEW a, NEW rule, Makes(a, rule), a.type \in SET_TYPES, CanBeCompared(a)
    PROVE  rule.values = MeantValues(a) /\ rule.mode = MeantMode(a)
<1>1. rule.mode = MeantMode(a)
  BY DEF Makes, MeantMode
<1>2. MeantValues(a) = {Spelled(a, v) : v \in Range(a.values) \ {NoValueText}} \cup AddedByCodes(a)
  BY DEF MeantValues, AddedByCodes
<1>3. ReadValues(a) = {Spelled(a, v) : v \in Range(a.values) \ {NoValueText}}
  <2>1. CASE a.type = "geography"
    <3>1. Range(a.values) \ {NoValueText} = Range(a.values)
      BY <2>1 DEF CanBeCompared
    <3>2. ReadValues(a) = {NormalizeState(v) : v \in Range(a.values)}
      BY <2>1 DEF ReadValues
    <3>3. \A v : Spelled(a, v) = NormalizeState(v)
      BY <2>1 DEF Spelled
    <3> HIDE DEF Range
    <3> QED BY <3>1, <3>2, <3>3
  <2>2. CASE a.type # "geography"
    <3>1. ReadValues(a) = Range(a.values) \ {NoValueText}
      BY <2>2 DEF ReadValues, SET_TYPES
    <3>2. \A v : Spelled(a, v) = v
      BY <2>2 DEF Spelled
    <3> QED BY <3>1, <3>2
  <2> QED BY <2>1, <2>2
<1> QED BY <1>1, <1>2, <1>3 DEF Makes

\* Conditions that are read and those that are meant keep the same, on either side.
LEMMA CriteriaAsMeant ==
    ASSUME NEW a, IsSaid(a), NEW b, IsSaid(b), NEW rule, NEW other,
           a.type = "criteria", b.type = "criteria", rule.type = "criteria", other.type = "criteria",
           rule.conditions = ReadConditions(a), other.conditions = ReadConditions(b),
           CanBeCompared(a), CanBeCompared(b)
    PROVE  CompareCriteria(rule, other) = {} <=> KeepsTheSame(AsMeant(a), AsMeant(b))
<1> DEFINE R == ReadConditions(a)
           M == MeantConditions(a)
           S == ReadConditions(b)
           N == MeantConditions(b)
           meant == AsMeant(a)
           theirs == AsMeant(b)
<1>1. /\ IsSeq(R) /\ IsSeq(M) /\ DOMAIN R = DOMAIN M
      /\ \A i \in DOMAIN R : Alike(R[i], M[i])
  BY ConditionsRead, Zenon
<1>2. /\ IsSeq(S) /\ IsSeq(N) /\ DOMAIN S = DOMAIN N
      /\ \A i \in DOMAIN S : Alike(S[i], N[i])
  BY ConditionsRead, Zenon
<1>3. /\ meant.type = "criteria" /\ meant.conditions = M
      /\ theirs.type = "criteria" /\ theirs.conditions = N
  BY DEF AsMeant
<1>4. Comparable(meant) /\ Comparable(theirs)
  BY Zenon DEF CanBeCompared
<1> HIDE DEF R, M, S, N, meant, theirs
<1>5. /\ \A i \in DOMAIN M : IsRange(M[i])
      /\ \A i \in DOMAIN N : IsRange(N[i])
      /\ \A i, j \in DOMAIN N : Resolve(N[i].field) = Resolve(N[j].field) => N[i] = N[j]
  BY <1>3, <1>4 DEF Comparable, OnePerAttribute, Range
<1>6. \A i \in DOMAIN M : /\ R[i].field = M[i].field
                          /\ IsRange(R[i]) /\ HasBounds(R[i]) /\ Accepted(R[i]) = Accepted(M[i])
  BY <1>1, <1>5 DEF Alike
<1>7. \A i \in DOMAIN N : /\ S[i].field = N[i].field
                          /\ IsRange(S[i]) /\ HasBounds(S[i]) /\ Accepted(S[i]) = Accepted(N[i])
  BY <1>2, <1>5 DEF Alike
<1>8. \A c \in Range(R) \cup Range(S) : HasBounds(c) /\ IsRange(c)
  BY <1>1, <1>2, <1>6, <1>7 DEF Range
<1>9. \A d, e \in Range(S) : Resolve(d.field) = Resolve(e.field) => Accepted(d) = Accepted(e)
  <2> SUFFICES ASSUME NEW i \in DOMAIN S, NEW j \in DOMAIN S, Resolve(S[i].field) = Resolve(S[j].field)
               PROVE  Accepted(S[i]) = Accepted(S[j])
    BY DEF Range
  <2>1. N[i] = N[j]
    BY <1>2, <1>5, <1>7
  <2> QED BY <1>2, <1>7, <2>1
<1>10. rule.conditions = R /\ other.conditions = S
  BY DEF R, S
<1>11. CompareCriteria(rule, other) = {} <=> KeepsTheSame(rule, other)
  BY <1>1, <1>2, <1>8, <1>9, <1>10, CriteriaCompared
<1>12. Len(R) = Len(M) /\ Len(S) = Len(N)
  BY <1>1, <1>2, SeqIn
<1>13. KeepsTheSame(rule, other) <=>
           \A i \in DOMAIN R : \E j \in DOMAIN S :
               MeansTheSameAttribute(rule, other, R[i], S[j]) /\ Accepted(R[i]) = Accepted(S[j])
  BY <1>10 DEF KeepsTheSame, Range
<1>14. KeepsTheSame(meant, theirs) <=>
           \A i \in DOMAIN M : \E j \in DOMAIN N :
               MeansTheSameAttribute(meant, theirs, M[i], N[j]) /\ Accepted(M[i]) = Accepted(N[j])
  BY <1>3 DEF KeepsTheSame, Range
<1>15. \A i \in DOMAIN M : \A j \in DOMAIN N :
           /\ MeansTheSameAttribute(rule, other, R[i], S[j]) <=>
                  MeansTheSameAttribute(meant, theirs, M[i], N[j])
           /\ Accepted(R[i]) = Accepted(S[j]) <=> Accepted(M[i]) = Accepted(N[j])
  BY <1>3, <1>6, <1>7, <1>10, <1>12 DEF MeansTheSameAttribute
<1>16. KeepsTheSame(rule, other) <=> KeepsTheSame(meant, theirs)
  BY <1>1, <1>2, <1>13, <1>14, <1>15
<1> QED BY <1>11, <1>16 DEF meant, theirs

\* The kinds a comparison finds, apart from how sure the model was.
Differences(rule, other) ==
    CASE rule.type = "quantity" -> CompareQuantity(rule, other)
      [] rule.type = "other"    -> {}
      [] OTHER                  -> CompareWith(rule, other)

\* Rules that were made of what was said are compared as what was said.
LEMMA RulesComparedAsSaid ==
    ASSUME NEW a, NEW b, NEW rule, NEW other, Makes(a, rule), Makes(b, other), a.type = b.type,
           CanBeCompared(a), CanBeCompared(b)
    PROVE  Differences(rule, other) = {} <=> SaysTheSame(a, b)
<1>1. a.type \in ReqTypes /\ a.type # "other" /\ IsSaid(a) /\ IsSaid(b)
  BY DEF Makes, CanBeCompared
<1>2. CASE a.type \in SET_TYPES
  <2>1. rule.type = "set" /\ other.type = "set"
    BY <1>2 DEF Makes
  <2>2. Differences(rule, other) = CompareSets(rule, other)
    BY <2>1 DEF Differences, CompareWith
  <2>3. CompareSets(rule, other) = {} <=> rule.values = other.values /\ rule.mode = other.mode
    BY <2>1, SetsCompared
  <2>4. /\ rule.values = MeantValues(a) /\ rule.mode = MeantMode(a)
        /\ other.values = MeantValues(b) /\ other.mode = MeantMode(b)
    BY <1>2, SetsAsMeant
  <2>5. SaysTheSame(a, b) <=> MeantValues(a) = MeantValues(b) /\ MeantMode(a) = MeantMode(b)
    BY <1>2 DEF SaysTheSame, SET_TYPES
  <2> QED BY <2>2, <2>3, <2>4, <2>5
<1>3. CASE a.type = "quantity"
  <2>1. rule.type = "quantity" /\ rule.quantity = a.quantity /\ other.quantity = b.quantity
    BY <1>3 DEF Makes, SET_TYPES
  <2>2. SaysTheSame(a, b) <=> a.quantity = b.quantity
    BY <1>3 DEF SaysTheSame, SET_TYPES
  <2> QED BY <2>1, <2>2 DEF Differences, CompareQuantity
<1>4. CASE a.type = "criteria"
  <2>1. /\ rule.type = "criteria" /\ other.type = "criteria"
        /\ rule.conditions = ReadConditions(a) /\ other.conditions = ReadConditions(b)
    BY <1>4 DEF Makes, SET_TYPES
  <2>2. Differences(rule, other) = CompareCriteria(rule, other)
    BY <2>1 DEF Differences, CompareWith
  <2>3. SaysTheSame(a, b) <=> KeepsTheSame(AsMeant(a), AsMeant(b))
    BY <1>4 DEF SaysTheSame, SET_TYPES
  <2>4. CompareCriteria(rule, other) = {} <=> KeepsTheSame(AsMeant(a), AsMeant(b))
    BY <1>1, <1>4, <2>1, CriteriaAsMeant
  <2> QED BY <2>2, <2>3, <2>4
<1>5. CASE a.type = "waterfall"
  <2> DEFINE meant == AsMeant(a)
             theirs == AsMeant(b)
  <2>1. /\ rule.type = "waterfall" /\ other.type = "waterfall"
        /\ rule.steps = a.steps /\ other.steps = b.steps
    BY <1>5 DEF Makes, SET_TYPES
  <2>2. /\ meant.type = "waterfall" /\ meant.steps = a.steps
        /\ theirs.type = "waterfall" /\ theirs.steps = b.steps
    BY <1>5 DEF AsMeant
  <2>3. IsSeq(a.steps) /\ IsSeq(b.steps)
    BY <1>1 DEF IsSaid
  <2>4. Comparable(theirs)
    BY DEF CanBeCompared
  <2> HIDE DEF meant, theirs
  <2>5. IsInjective(b.steps)
    BY <2>2, <2>4 DEF Comparable
  <2>6. CompareSteps(rule, other) = {} <=> KeepsTheSame(rule, other)
    BY <2>1, <2>3, <2>5, StepsCompared
  <2>7. KeepsTheSame(rule, other) <=> KeepsTheSame(meant, theirs)
    BY <2>1, <2>2 DEF KeepsTheSame
  <2>8. Differences(rule, other) = CompareSteps(rule, other)
    BY <2>1 DEF Differences, CompareWith
  <2>9. SaysTheSame(a, b) <=> KeepsTheSame(meant, theirs)
    BY <1>5 DEF SaysTheSame, SET_TYPES, meant, theirs
  <2> QED BY <2>6, <2>7, <2>8, <2>9
<1> QED BY <1>1, <1>2, <1>3, <1>4, <1>5 DEF ReqTypes, SET_TYPES

\* How sure the model was is no difference.
LEMMA DifferencesAreNamed ==
    ASSUME NEW a, NEW rule, NEW other, Makes(a, rule)
    PROVE  "low_confidence_extraction" \notin Differences(rule, other)
<1> DEFINE sure == "low_confidence_extraction"
<1>1. sure \notin CompareSets(rule, other)
  BY DEF CompareSets
<1>2. sure \notin CompareSteps(rule, other)
  BY DEF CompareSteps
<1>3. sure \notin CompareQuantity(rule, other)
  BY DEF CompareQuantity
<1>4. \A c, d : sure \notin CompareConditions(c, d)
  BY DEF CompareConditions
<1>5. sure \notin CompareCriteria(rule, other)
  <2> DEFINE these(c) == Counterpart(rule, other, c)
             says(c) == IF these(c) = {} THEN {"rule_missing_in_config"}
                        ELSE UNION {CompareConditions(c, d) : d \in these(c)}
  <2>1. CompareCriteria(rule, other) = UNION {says(c) : c \in Range(rule.conditions)}
    BY Zenon DEF CompareCriteria
  <2>2. ASSUME NEW c PROVE sure \notin says(c)
    <3> HIDE DEF these
    <3> QED BY <1>4
  <2> HIDE DEF says, sure
  <2> QED BY <2>1, <2>2
<1>6. rule.type \in {"set", "criteria", "waterfall", "quantity", "other"}
  BY DEF Makes, ReqTypes, SET_TYPES
<1> HIDE DEF sure
<1>7. sure \notin Differences(rule, other)
  BY <1>1, <1>2, <1>3, <1>5, <1>6 DEF Differences, CompareWith
<1> QED BY <1>7 DEF sure

\* A rule is linked to a block of its shortlist, which is of its kind, or to none.
OfItsKind(rule, b) ==
    b \in DOMAIN elements /\ \E other \in elements[b].rule : other.family = rule.family

LEMMA LinkedToItsKind ==
    ASSUME IsSeq(elements), NEW rule, NEW verdicts
    PROVE  Linked(rule, verdicts) = 0 \/ OfItsKind(rule, Linked(rule, verdicts))
<1> DEFINE listed == Shortlist(rule)
           exact == {b \in listed : \E other \in elements[b].rule : ExactMatch(rule, other)}
           sure == {b \in listed : verdicts[b] = "implemented"}
           unsure == {b \in listed : verdicts[b] = "unsure"}
<1>1. \A b \in listed : OfItsKind(rule, b)
  BY DEF Shortlist, OfItsKind
<1>2. \A b \in listed : b \in Nat
  BY <1>1, SeqIn DEF OfItsKind
<1>3. ASSUME NEW B, B \subseteq listed, B # {} PROVE Min(B) \in listed
  <2>1. B \in SUBSET Nat
    BY <1>2, <1>3
  <2>2. \E m \in B : \A k \in B : m <= k
    BY <1>3, <2>1, Smallest
  <2>3. Min(B) \in B
    BY <2>2 DEF Min
  <2> QED BY <1>3, <2>3
<1>4. Linked(rule, verdicts) = IF exact # {} THEN Min(exact) ELSE IF sure # {} THEN Min(sure)
                               ELSE IF unsure # {} THEN Min(unsure) ELSE 0
  BY Zenon DEF Linked
<1>5. exact \subseteq listed /\ sure \subseteq listed /\ unsure \subseteq listed
  OBVIOUS
<1> HIDE DEF listed, exact, sure, unsure
<1> QED BY <1>1, <1>3, <1>4, <1>5

\* The inductive invariant: what each rule and each block was made of, and, once they are
\* linked and compared, what they are linked to and what was found.
IsElement(e) ==
    \/ e.said = {} /\ e.rule = {}
    \/ \E r : /\ e.said = {r}
              /\ \A rule \in e.rule : Makes(r, rule) /\ e.rule = {rule}

ExtractionIInv ==
    /\ IsSeq(elements) /\ \A b \in DOMAIN elements : IsElement(elements[b])
    /\ \A i \in DOMAIN rules : Makes(said[rules[i].of], rules[i].is)
    /\ stage \in {"compare", "read"} =>
           \A i \in DOMAIN rules : traces[i] = 0 \/ OfItsKind(rules[i].is, traces[i])
    /\ stage = "read" => \A i \in DOMAIN rules : found[i] = FoundFor(rules[i].is, traces[i])

LEMMA ExtractionIInvInit == ExtractionInit => ExtractionIInv
BY ShortSeqs DEF ExtractionInit, ExtractionIInv

\* Every rule of an accepted answer was made of one of its requirements.
LEMMA RulesMade ==
    ASSUME NEW answer \in Answers, \A r \in Range(answer) : Validates(r)
    PROVE  LET made == RulesOf(answer)
           IN  \A i \in DOMAIN made : Makes(answer[made[i].of], made[i].is)
<1> DEFINE fits == {i \in DOMAIN answer : ToRule(Folded(answer[i])) # {}}
           places == [i \in DOMAIN answer |-> i]
           kept == Kept(places, fits)
           made == RulesOf(answer)
<1>1. IsSeq(answer) /\ \A r \in Range(answer) : IsSaid(r)
  BY AnswersAssumption
<1>2. IsSeq(places)
  <2>1. places = [i \in DOMAIN answer |-> places[i]]
    OBVIOUS
  <2> HIDE DEF places
  <2> QED BY <1>1, <2>1, AlongSeq, Zenon
<1>3. \A k \in DOMAIN kept : kept[k] \in fits
  <2> HIDE DEF places, fits
  <2> QED BY <1>2, KeptFacts
<1>4. made = [k \in DOMAIN kept |->
                 [of |-> kept[k], is |-> ExpandProductCodes(RuleOf(Folded(answer[kept[k]])))]]
  BY Zenon DEF RulesOf
<1>5. fits \subseteq DOMAIN answer
  OBVIOUS
<1> HIDE DEF kept, fits, made
<1>6. ASSUME NEW k \in DOMAIN made PROVE Makes(answer[made[k].of], made[k].is)
  <2>1. /\ k \in DOMAIN kept /\ made[k].of = kept[k]
        /\ made[k].is = ExpandProductCodes(RuleOf(Folded(answer[kept[k]])))
    BY <1>4
  <2>2. answer[kept[k]] \in Range(answer)
    BY <1>3, <1>5, <2>1 DEF Range
  <2>3. IsSaid(answer[kept[k]]) /\ Validates(answer[kept[k]])
    BY <1>1, <2>2
  <2> QED BY <2>1, <2>3, RequirementMakes
<1> QED BY <1>6 DEF made

\* A block is described by one item of the answer at most.
LEMMA ElementMade ==
    ASSUME NEW answer \in BlockAnswers, \A d \in Range(answer) : ValidatesBlock(d)
    PROVE  IsElement(ElementOf(answer))
<1> DEFINE here == {i \in DOMAIN answer : answer[i].here}
           items == {d \in ForPath(answer) : ~ d.technical}
           described == {Described(d) : d \in items}
           e == ElementOf(answer)
<1>1. IsSeq(answer) /\ \A d \in Range(answer) : IsSaid(d.is)
  BY AnswersAssumption
<1>2. here # {} => Min(here) \in here
  <2>1. here \in SUBSET Nat
    BY <1>1, SeqIn
  <2> HIDE DEF here
  <2>2. here # {} => \E m \in here : \A k \in here : m <= k
    BY <2>1, Smallest
  <2> QED BY <2>2 DEF Min
<1>3. ForPath(answer) = {} \/ \E d \in Range(answer) : ForPath(answer) = {d}
  <2>1. ForPath(answer) = IF here # {} THEN {answer[Min(here)]}
                          ELSE IF Len(answer) = 1 THEN {answer[1]} ELSE {}
    BY Zenon DEF ForPath
  <2>2. \A i \in DOMAIN answer : answer[i] \in Range(answer)
    BY DEF Range
  <2>3. here # {} => Min(here) \in DOMAIN answer
    BY <1>2
  <2>4. Len(answer) = 1 => 1 \in DOMAIN answer
    BY <1>1, SeqIn
  <2> HIDE DEF here
  <2> QED BY <2>1, <2>2, <2>3, <2>4
<1>4. e.said = described /\ e.rule = UNION {ToRule(r) : r \in described}
  BY DEF ElementOf
<1>5. CASE items = {}
  BY <1>4, <1>5 DEF IsElement
<1>6. ASSUME NEW d \in Range(answer), items = {d} PROVE IsElement(e)
  <2>1. IsSaid(d.is) /\ Validates(d.is)
    BY <1>1, <1>6 DEF ValidatesBlock, Validates
  <2>2. e.said = {Described(d)} /\ e.rule = ToRule(Described(d))
    BY <1>4, <1>6
  <2>3. \A rule \in ToRule(Described(d)) :
            rule = RuleOf(Described(d)) /\ ToRule(Described(d)) = {rule}
    BY DEF ToRule
  <2>4. Makes(Described(d), RuleOf(Described(d)))
    BY <2>1, BlockMakes
  <2> QED BY <2>2, <2>3, <2>4 DEF IsElement
<1>7. items = {} \/ \E d \in Range(answer) : items = {d}
  BY <1>3
<1> HIDE DEF items, e, described
<1> QED BY <1>5, <1>6, <1>7 DEF e

LEMMA ExtractionIInvNext == ExtractionIInv /\ [ExtractionNext]_extractionVars => ExtractionIInv'
<1> SUFFICES ASSUME ExtractionIInv, [ExtractionNext]_extractionVars PROVE ExtractionIInv'
  OBVIOUS
<1>1. CASE UNCHANGED extractionVars
  BY <1>1 DEF ExtractionIInv, extractionVars, OfItsKind, FoundFor
<1>2. ASSUME UNCHANGED <<said, rules, elements, traces, found>>, stage' \in {stage, "refused", "trace"}
      PROVE  ExtractionIInv'
  BY <1>2 DEF ExtractionIInv, OfItsKind, FoundFor
<1>3. AskAgain => ExtractionIInv'
  BY <1>2 DEF AskAgain
<1>4. CASE Extract
  <2>1. PICK answer \in Answers :
            IF \A r \in Range(answer) : Validates(r)
            THEN /\ said' = answer /\ rules' = RulesOf(answer)
                 /\ stage' = "describe" /\ retries' = 0
                 /\ UNCHANGED <<elements, traces, found>>
            ELSE AskAgain
    BY <1>4 DEF Extract
  <2>2. CASE \A r \in Range(answer) : Validates(r)
    <3>1. /\ said' = answer /\ rules' = RulesOf(answer) /\ stage' = "describe"
          /\ UNCHANGED elements
      BY <2>1, <2>2
    <3>2. \A i \in DOMAIN rules' : Makes(said'[rules'[i].of], rules'[i].is)
      BY <2>2, <3>1, RulesMade
    <3> QED BY <3>1, <3>2 DEF ExtractionIInv
  <2> QED BY <1>3, <2>1, <2>2
<1>5. ASSUME NEW e, IsElement(e), DescribedAs(e), stage = "describe" PROVE ExtractionIInv'
  <2>1. /\ elements' = Append(elements, e) /\ stage' \in {"describe", "trace"}
        /\ UNCHANGED <<said, rules>>
    BY <1>5 DEF DescribedAs
  <2>2. IsSeq(elements) /\ \A b \in DOMAIN elements : IsElement(elements[b])
    BY DEF ExtractionIInv
  <2> DEFINE S == ToSet(elements) \cup {e}
  <2>3. elements \in Seq(S) /\ e \in S /\ DOMAIN elements = 1 .. Len(elements)
    BY <2>2, SeqIn
  <2> HIDE DEF S
  <2>4. /\ elements' \in Seq(S)
        /\ \A b \in DOMAIN elements' : (b \in DOMAIN elements /\ elements'[b] = elements[b]) \/ elements'[b] = e
    BY <2>1, <2>3
  <2>5. IsSeq(elements') /\ \A b \in DOMAIN elements' : IsElement(elements'[b])
    BY <1>5, <2>2, <2>4, SeqIs
  <2> QED BY <2>1, <2>5 DEF ExtractionIInv
<1>6. CASE Describe
  <2>1. stage = "describe"
    BY <1>6 DEF Describe
  <2>2. CASE DescribedAs(Technical)
    <3>1. IsElement(Technical)
      BY DEF IsElement, Technical
    <3> QED BY <1>5, <2>1, <2>2, <3>1
  <2>3. ASSUME NEW answer \in BlockAnswers,
               IF \A d \in Range(answer) : ValidatesBlock(d)
               THEN DescribedAs(ElementOf(answer)) ELSE AskAgain
        PROVE  ExtractionIInv'
    BY <1>3, <1>5, <2>1, <2>3, ElementMade
  <2> QED BY <1>6, <2>2, <2>3 DEF Describe
<1>7. CASE LinkRules
  <2>1. PICK verdicts \in [DOMAIN rules -> [DOMAIN elements -> TraceVerdict]] :
            traces' = [i \in DOMAIN rules |-> Linked(rules[i].is, verdicts[i])]
    BY <1>7 DEF LinkRules
  <2>2. stage' = "compare" /\ UNCHANGED <<said, rules, elements>>
    BY <1>7 DEF LinkRules
  <2>3. IsSeq(elements)
    BY DEF ExtractionIInv
  <2>4. \A i \in DOMAIN rules : traces'[i] = 0 \/ OfItsKind(rules[i].is, traces'[i])
    BY <2>1, <2>3, LinkedToItsKind
  <2> QED BY <2>2, <2>4 DEF ExtractionIInv, OfItsKind
<1>8. CASE CompareRules
  <2>1. /\ stage = "compare" /\ stage' = "read" /\ UNCHANGED <<said, rules, elements, traces>>
        /\ found' = [i \in DOMAIN rules |-> FoundFor(rules[i].is, traces[i])]
    BY <1>8 DEF CompareRules
  <2> QED BY <2>1 DEF ExtractionIInv, OfItsKind, FoundFor
<1> QED BY <1>1, <1>4, <1>6, <1>7, <1>8 DEF ExtractionNext

\* What is found on a rule that is linked, is what the two answers do not say alike.
LEMMA ReadIsSaid == ExtractionIInv => ComparedAsSaid
<1> SUFFICES ASSUME ExtractionIInv, stage = "read", NEW i \in DOMAIN rules, traces[i] # 0,
                    NEW b \in elements[traces[i]].said,
                    CanBeCompared(said[rules[i].of]), CanBeCompared(b)
             PROVE  found[i] \subseteq {"low_confidence_extraction"} <=> SaysTheSame(said[rules[i].of], b)
  BY DEF ComparedAsSaid
<1> DEFINE a == said[rules[i].of]
           rule == rules[i].is
           block == traces[i]
           e == elements[block]
<1>1. Makes(a, rule) /\ found[i] = FoundFor(rule, block)
  BY DEF ExtractionIInv
<1>2. block \in DOMAIN elements /\ \E other \in e.rule : other.family = rule.family
  BY DEF ExtractionIInv, OfItsKind
<1>3. IsElement(e)
  BY <1>2 DEF ExtractionIInv
<1>4. PICK other \in e.rule : other.family = rule.family
  BY <1>2
<1>5. e.rule = {other} /\ Makes(b, other)
  BY <1>3, <1>4 DEF IsElement
<1>6. a.type = b.type
  BY <1>1, <1>4, <1>5 DEF Makes
<1>7. Differences(rule, other) = {} <=> SaysTheSame(a, b)
  BY <1>1, <1>5, <1>6, RulesComparedAsSaid
<1>8. FoundFor(rule, block) =
          (IF rule.confident THEN {} ELSE {"low_confidence_extraction"}) \cup Differences(rule, other)
  <2>1. FoundFor(rule, block) =
            (IF rule.confident THEN {} ELSE {"low_confidence_extraction"})
            \cup UNION {Differences(rule, o) : o \in e.rule}
    BY DEF FoundFor, Differences
  <2>2. UNION {Differences(rule, o) : o \in e.rule} = Differences(rule, other)
    BY <1>5
  <2> QED BY <2>1, <2>2
<1>9. "low_confidence_extraction" \notin Differences(rule, other)
  BY <1>1, DifferencesAreNamed
<1> QED BY <1>1, <1>7, <1>8, <1>9

\* A requirement linked to a block is found to differ from it exactly when what was said of
\* the one is not what was said of the other: for any answers, blocks, links and retries.
THEOREM FindingsAreWhatWasSaid == ExtractionSpec => []ComparedAsSaid
<1>1. ExtractionIInv /\ [ExtractionNext]_extractionVars => ExtractionIInv'
  BY ExtractionIInvNext
<1> QED BY <1>1, ExtractionIInvInit, ReadIsSaid, PTL DEF ExtractionSpec

=============================================================================
