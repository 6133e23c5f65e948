------------------------ MODULE Subsequences_proofs ------------------------
(***************************************************************************)
(* Facts about the sequences the models are built from: what joining,      *)
(* flattening and keeping make of sequences.  FlattenSeq is a recursive    *)
(* function, so that it has values at all is the first thing to prove.     *)
(***************************************************************************)
EXTENDS Subsequences, SequenceTheorems, WellFoundedInduction, TLAPS

\* The recursion of FlattenSeq is over the length: the first n of the sequences in a row.
FirstN(seqs, f, n) ==
    f = [i \in 1..n |-> IF i = 1 THEN seqs[i] ELSE f[i - 1] \o seqs[i]]

LEMMA FirstNExists ==
    ASSUME NEW seqs, NEW n \in Nat
    PROVE  \E f : FirstN(seqs, f, n)
<1> DEFINE Bad == {m \in Nat : ~\E f : FirstN(seqs, f, m)}
<1>1. SUFFICES ASSUME Bad # {} PROVE FALSE
  OBVIOUS
<1>2. PICK m \in Bad : \A k \in Bad : ~(<<k, m>> \in OpToRel(<, Nat))
  BY <1>1, NatLessThanWellFounded, WFMin
<1>3. m \in Nat /\ \A k \in Nat : k < m => \E f : FirstN(seqs, f, k)
  BY <1>2 DEF OpToRel
<1>4. CASE m = 0
  <2>1. FirstN(seqs, [i \in 1..0 |-> 0], m)
    BY <1>4 DEF FirstN
  <2> QED BY <2>1, <1>2
<1>5. CASE m # 0
  <2>1. m - 1 \in Nat /\ m - 1 < m
    BY <1>3, <1>5
  <2>2. PICK f : FirstN(seqs, f, m - 1)
    BY <1>3, <2>1
  <2> DEFINE g == [i \in 1..m |-> IF i = 1 THEN seqs[i] ELSE f[i - 1] \o seqs[i]]
  <2>3. \A i \in 1..(m - 1) : g[i] = f[i]
    <3>1. \A i \in 1..(m - 1) : i \in 1..m
      BY <1>3
    <3>2. \A i \in 1..(m - 1) : f[i] = IF i = 1 THEN seqs[i] ELSE f[i - 1] \o seqs[i]
      BY <2>2 DEF FirstN
    <3> QED BY <3>1, <3>2
  <2>4. \A i \in 1..m : i # 1 => i - 1 \in 1..(m - 1)
    BY <1>3
  <2>5. FirstN(seqs, g, m)
    BY <2>3, <2>4 DEF FirstN
  <2> QED BY <2>5, <1>2
<1> QED BY <1>4, <1>5

\* F has exactly the elements of the first m sequences.
Gathers(F, seqs, m, S) ==
    /\ F \in Seq(S)
    /\ \A i \in 1..m : \A j \in DOMAIN seqs[i] : \E k \in DOMAIN F : F[k] = seqs[i][j]
    /\ \A k \in DOMAIN F : \E i \in 1..m : \E j \in DOMAIN seqs[i] : F[k] = seqs[i][j]

LEMMA ConcatFacts ==
    ASSUME NEW S, NEW s \in Seq(S), NEW t \in Seq(S)
    PROVE  /\ s \o t \in Seq(S)
           /\ \A k \in DOMAIN s : k \in DOMAIN (s \o t) /\ (s \o t)[k] = s[k]
           /\ \A k \in DOMAIN t : \E j \in DOMAIN (s \o t) : (s \o t)[j] = t[k]
           /\ \A k \in DOMAIN (s \o t) :
                  (k \in DOMAIN s /\ (s \o t)[k] = s[k]) \/ \E j \in DOMAIN t : (s \o t)[k] = t[j]
<1>1. s \o t \in Seq(S) /\ DOMAIN s = 1..Len(s) /\ DOMAIN t = 1..Len(t)
      /\ DOMAIN (s \o t) = 1..(Len(s) + Len(t)) /\ Len(s) \in Nat /\ Len(t) \in Nat
  OBVIOUS
<1>2. \A k \in 1..Len(s) : k \in 1..(Len(s) + Len(t)) /\ (s \o t)[k] = s[k]
  OBVIOUS
<1>3. \A k \in 1..Len(t) : Len(s) + k \in 1..(Len(s) + Len(t)) /\ (s \o t)[Len(s) + k] = t[k]
  OBVIOUS
<1>4. \A a, b \in Nat : \A k \in 1..(a + b) : k \in 1..a \/ (k - a \in 1..b /\ k = a + (k - a))
  OBVIOUS
<1>5. \A k \in 1..(Len(s) + Len(t)) :
          k \in 1..Len(s) \/ (k - Len(s) \in 1..Len(t) /\ k = Len(s) + (k - Len(s)))
  BY <1>1, <1>4
<1>6. \A k \in 1..(Len(s) + Len(t)) :
          k \notin 1..Len(s) => \E j \in 1..Len(t) : (s \o t)[k] = t[j]
  BY <1>3, <1>5
<1> QED BY <1>1, <1>2, <1>3, <1>6, Zenon

LEMMA GatheredMore ==
    ASSUME NEW S, NEW seqs, NEW m \in Nat, NEW F, Gathers(F, seqs, m, S),
           seqs[m + 1] \in Seq(S)
    PROVE  Gathers(F \o seqs[m + 1], seqs, m + 1, S)
<1>1. \A i \in 1..(m + 1) : i \in 1..m \/ i = m + 1
  OBVIOUS
<1>2. (\A i \in 1..m : i \in 1..(m + 1)) /\ m + 1 \in 1..(m + 1)
  OBVIOUS
<1> DEFINE n == m + 1
           G == F \o seqs[n]
<1>3. /\ G \in Seq(S)
      /\ \A k \in DOMAIN F : k \in DOMAIN G /\ G[k] = F[k]
      /\ \A k \in DOMAIN seqs[n] : \E j \in DOMAIN G : G[j] = seqs[n][k]
      /\ \A k \in DOMAIN G : \/ k \in DOMAIN F /\ G[k] = F[k]
                             \/ \E j \in DOMAIN seqs[n] : G[k] = seqs[n][j]
  <2>1. F \in Seq(S) /\ seqs[n] \in Seq(S)
    BY DEF Gathers
  <2> DEFINE t == seqs[n]
  <2>2. t \in Seq(S)
    BY <2>1
  <2> HIDE DEF n, t
  <2>3. /\ F \o t \in Seq(S)
        /\ \A k \in DOMAIN F : k \in DOMAIN (F \o t) /\ (F \o t)[k] = F[k]
        /\ \A k \in DOMAIN t : \E j \in DOMAIN (F \o t) : (F \o t)[j] = t[k]
        /\ \A k \in DOMAIN (F \o t) : \/ k \in DOMAIN F /\ (F \o t)[k] = F[k]
                                      \/ \E j \in DOMAIN t : (F \o t)[k] = t[j]
    <3>1. F \o t \in Seq(S)
      BY <2>1, <2>2, ConcatFacts
    <3>2. \A k \in DOMAIN F : k \in DOMAIN (F \o t) /\ (F \o t)[k] = F[k]
      BY <2>1, <2>2, ConcatFacts
    <3>3. \A k \in DOMAIN t : \E j \in DOMAIN (F \o t) : (F \o t)[j] = t[k]
      <4> TAKE k \in DOMAIN t
      <4>1. DOMAIN t = 1..Len(t) /\ DOMAIN (F \o t) = 1..(Len(F) + Len(t))
            /\ Len(F) \in Nat /\ Len(t) \in Nat
        BY <2>1, <2>2
      <4>2. Len(F) + k \in 1..(Len(F) + Len(t)) /\ (F \o t)[Len(F) + k] = t[k]
        BY <2>1, <2>2, <4>1
      <4> QED BY <4>1, <4>2
    <3>4. \A k \in DOMAIN (F \o t) :
             \/ k \in DOMAIN F /\ (F \o t)[k] = F[k]
             \/ \E j \in DOMAIN t : (F \o t)[k] = t[j]
      BY <2>1, <2>2, ConcatFacts
    <3> QED BY <3>1, <3>2, <3>3, <3>4
  <2> QED BY <2>3 DEF t
<1>4. (\A i \in 1..n : i \in 1..m \/ i = n) /\ (\A i \in 1..m : i \in 1..n) /\ n \in 1..n
  BY <1>1, <1>2
<1> HIDE DEF n, G
<1>5. \A i \in 1..n : \A j \in DOMAIN seqs[i] : \E k \in DOMAIN G : G[k] = seqs[i][j]
  BY <1>3, <1>4 DEF Gathers
<1>6. \A k \in DOMAIN G : \E i \in 1..n : \E j \in DOMAIN seqs[i] : G[k] = seqs[i][j]
  <2>1. ASSUME NEW k \in DOMAIN F, G[k] = F[k]
        PROVE  \E i \in 1..n : \E j \in DOMAIN seqs[i] : G[k] = seqs[i][j]
    BY <2>1, <1>4 DEF Gathers
  <2>2. ASSUME NEW k \in DOMAIN G, NEW j \in DOMAIN seqs[n], G[k] = seqs[n][j]
        PROVE  \E i \in 1..n : \E l \in DOMAIN seqs[i] : G[k] = seqs[i][l]
    BY <2>2, <1>4
  <2> QED BY <2>1, <2>2, <1>3, Zenon
<1>7. Gathers(G, seqs, n, S)
  BY <1>3, <1>5, <1>6 DEF Gathers
<1> QED BY <1>7 DEF n, G

\* What FlattenSeq makes of sequences of elements of S: a sequence of elements of S, in
\* which exactly the elements of the sequences occur.
LEMMA FlattenFacts ==
    ASSUME NEW S, NEW seqs \in Seq(Seq(S))
    PROVE  /\ FlattenSeq(seqs) \in Seq(S)
           /\ \A i \in DOMAIN seqs : \A j \in DOMAIN seqs[i] :
                  \E k \in DOMAIN FlattenSeq(seqs) : FlattenSeq(seqs)[k] = seqs[i][j]
           /\ \A k \in DOMAIN FlattenSeq(seqs) :
                  \E i \in DOMAIN seqs : \E j \in DOMAIN seqs[i] : FlattenSeq(seqs)[k] = seqs[i][j]
<1>1. CASE seqs = <<>>
  BY <1>1 DEF FlattenSeq
<1>2. CASE seqs # <<>>
  <2> DEFINE n == Len(seqs)
             f == CHOOSE g : FirstN(seqs, g, n)
  <2>1. n \in Nat /\ n # 0 /\ DOMAIN seqs = 1..n /\ \A i \in 1..n : seqs[i] \in Seq(S)
    BY <1>2
  <2>2. FirstN(seqs, f, n)
    BY <2>1, FirstNExists
  <2>3. FlattenSeq(seqs) = f[n]
    BY <2>1 DEF FlattenSeq, FirstN
  <2> HIDE DEF f, n
  <2>4. 1 \in 1..n /\ 1 \in 1..1 /\ \A i \in 1..1 : i = 1
    BY <2>1
  <2>5. f[1] = seqs[1] /\ f[1] \in Seq(S)
    BY <2>1, <2>2, <2>4 DEF FirstN
  <2>6. Gathers(f[1], seqs, 1, S)
    BY <2>5, <2>4 DEF Gathers
  <2>7. ASSUME NEW m \in Nat, m \in 1..n, m + 1 \in 1..n, Gathers(f[m], seqs, m, S)
        PROVE  Gathers(f[m + 1], seqs, m + 1, S)
    <3>1. m + 1 # 1 /\ (m + 1) - 1 = m
      BY <2>7
    <3>2. f[m + 1] = f[m] \o seqs[m + 1]
      BY <2>2, <2>7, <3>1 DEF FirstN
    <3>3. Gathers(f[m] \o seqs[m + 1], seqs, m + 1, S)
      BY <2>1, <2>7, GatheredMore
    <3> QED BY <3>2, <3>3
  <2>8. \A m \in 1..n : Gathers(f[m], seqs, m, S)
    <3> DEFINE Bad == {m \in Nat : m \in 1..n /\ ~Gathers(f[m], seqs, m, S)}
    <3>0. \A m \in 1..n : m \in Nat
      BY <2>1
    <3>1. SUFFICES ASSUME Bad # {} PROVE FALSE
      BY <3>0, Zenon
    <3>2. PICK m \in Bad : \A k \in Bad : ~(<<k, m>> \in OpToRel(<, Nat))
      BY <3>1, NatLessThanWellFounded, WFMin
    <3>3. m \in Nat /\ m \in 1..n /\ ~Gathers(f[m], seqs, m, S)
          /\ \A k \in Nat : k < m /\ k \in 1..n => Gathers(f[k], seqs, k, S)
      BY <3>2 DEF OpToRel
    <3>4. m # 1
      BY <3>3, <2>6
    <3>5. m - 1 \in Nat /\ m - 1 < m /\ m - 1 \in 1..n /\ (m - 1) + 1 = m
      BY <3>3, <3>4, <2>1
    <3> QED BY <3>3, <3>5, <2>7
  <2>9. Gathers(f[n], seqs, n, S) /\ n \in 1..n
    BY <2>1, <2>8
  <2>10. ASSUME NEW F, Gathers(F, seqs, n, S)
         PROVE  /\ F \in Seq(S)
                /\ \A i \in DOMAIN seqs : \A j \in DOMAIN seqs[i] : \E k \in DOMAIN F : F[k] = seqs[i][j]
                /\ \A k \in DOMAIN F : \E i \in DOMAIN seqs : \E j \in DOMAIN seqs[i] : F[k] = seqs[i][j]
    BY <2>10, <2>1, Zenon DEF Gathers
  <2> QED BY <2>10, <2>9, <2>3, Zenon
<1> QED BY <1>1, <1>2

----------------------------------------------------------------------------
(* The same of sequences of anything *)

LEMMA SeqIn ==
    ASSUME NEW s, IsSeq(s)
    PROVE  s \in Seq(ToSet(s)) /\ DOMAIN s = 1..Len(s) /\ Len(s) \in Nat
<1>1. DOMAIN s = 1..Len(s) /\ Len(s) \in Nat
  BY DEF IsSeq
<1>2. s \in [1..Len(s) -> ToSet(s)]
  BY <1>1 DEF IsSeq, ToSet
<1> QED BY <1>1, <1>2, SeqDef

LEMMA SeqIs ==
    ASSUME NEW S, NEW s \in Seq(S)
    PROVE  IsSeq(s) /\ \A i \in DOMAIN s : s[i] \in S
BY DEF IsSeq

LEMMA ShortSeqs == IsSeq(<<>>) /\ \A x : IsSeq(<<x>>) /\ <<x>>[1] = x /\ DOMAIN <<x>> = {1}
BY DEF IsSeq

\* A function over the positions of a sequence is a sequence.
LEMMA AlongSeq ==
    ASSUME NEW s, IsSeq(s), NEW t, t = [i \in DOMAIN s |-> t[i]]
    PROVE  IsSeq(t) /\ DOMAIN t = DOMAIN s
<1>1. DOMAIN s = 1..Len(s) /\ Len(s) \in Nat
  BY SeqIn
<1>2. t \in [1..Len(s) -> ToSet(t)]
  BY <1>1 DEF ToSet
<1>3. t \in Seq(ToSet(t))
  BY <1>1, <1>2, SeqDef
<1> QED BY <1>3, SeqIs

LEMMA RestOfSeq ==
    ASSUME NEW s, IsSeq(s), s # <<>>
    PROVE  /\ IsSeq(Tail(s))
           /\ 1 \in DOMAIN s /\ Head(s) = s[1]
           /\ \A i \in DOMAIN s : s[i] = Head(s) \/ \E j \in DOMAIN Tail(s) : s[i] = Tail(s)[j]
           /\ \A j \in DOMAIN Tail(s) : \E i \in DOMAIN s : Tail(s)[j] = s[i]
<1> DEFINE S == ToSet(s)
<1>1. s \in Seq(S)
  BY SeqIn
<1> HIDE DEF S
<1>2. Tail(s) \in Seq(S) /\ Len(Tail(s)) = Len(s) - 1 /\ Len(s) \in Nat /\ Len(s) # 0
      /\ DOMAIN s = 1..Len(s) /\ DOMAIN Tail(s) = 1..(Len(s) - 1) /\ Head(s) = s[1]
      /\ \A j \in 1..(Len(s) - 1) : Tail(s)[j] = s[j + 1]
  BY <1>1
<1>3. \A i \in 1..Len(s) : i # 1 => i - 1 \in 1..(Len(s) - 1) /\ (i - 1) + 1 = i
  BY <1>2
<1>4. \A j \in 1..(Len(s) - 1) : j + 1 \in 1..Len(s)
  BY <1>2
<1>5. 1 \in 1..Len(s)
  BY <1>2
<1> QED BY <1>2, <1>3, <1>4, <1>5, SeqIs

LEMMA Flattened ==
    ASSUME NEW seqs, IsSeq(seqs), \A i \in DOMAIN seqs : IsSeq(seqs[i])
    PROVE  /\ IsSeq(FlattenSeq(seqs))
           /\ \A i \in DOMAIN seqs : \A j \in DOMAIN seqs[i] :
                  \E k \in DOMAIN FlattenSeq(seqs) : FlattenSeq(seqs)[k] = seqs[i][j]
           /\ \A k \in DOMAIN FlattenSeq(seqs) :
                  \E i \in DOMAIN seqs : \E j \in DOMAIN seqs[i] : FlattenSeq(seqs)[k] = seqs[i][j]
<1> DEFINE S == UNION {ToSet(seqs[i]) : i \in DOMAIN seqs}
<1>1. \A i \in DOMAIN seqs : seqs[i] \in Seq(S)
  <2> SUFFICES ASSUME NEW i \in DOMAIN seqs PROVE seqs[i] \in Seq(S)
    OBVIOUS
  <2>1. seqs[i] \in Seq(ToSet(seqs[i])) /\ ToSet(seqs[i]) \subseteq S
    BY SeqIn
  <2>2. \A A, B : A \subseteq B => \A q \in Seq(A) : q \in Seq(B)
    OBVIOUS
  <2> QED BY <2>1, <2>2
<1> HIDE DEF S
<1>2. seqs \in Seq(Seq(S))
  <2>1. DOMAIN seqs = 1..Len(seqs) /\ Len(seqs) \in Nat /\ seqs = [i \in 1..Len(seqs) |-> seqs[i]]
    BY SeqIn DEF IsSeq
  <2>2. seqs \in [1..Len(seqs) -> Seq(S)]
    BY <1>1, <2>1
  <2> QED BY <2>1, <2>2, SeqDef
<1>3. FlattenSeq(seqs) \in Seq(S)
  BY <1>2, FlattenFacts
<1> QED BY <1>2, <1>3, FlattenFacts, SeqIs

LEMMA KeptFacts ==
    ASSUME NEW s, IsSeq(s), NEW S
    PROVE  /\ IsSeq(Kept(s, S))
           /\ \A k \in DOMAIN Kept(s, S) :
                  Kept(s, S)[k] \in S /\ \E i \in DOMAIN s : Kept(s, S)[k] = s[i]
           /\ \A i \in DOMAIN s :
                  s[i] \in S => \E k \in DOMAIN Kept(s, S) : Kept(s, S)[k] = s[i]
<1> DEFINE t == [i \in DOMAIN s |-> IF s[i] \in S THEN <<s[i]>> ELSE <<>>]
           K == FlattenSeq(t)
<1>1. IsSeq(t) /\ DOMAIN t = DOMAIN s
  BY AlongSeq
<1>2. \A i \in DOMAIN s : /\ IsSeq(t[i])
                          /\ s[i] \in S => 1 \in DOMAIN t[i] /\ t[i][1] = s[i]
                          /\ \A j \in DOMAIN t[i] : s[i] \in S /\ t[i][j] = s[i]
  BY ShortSeqs
<1> HIDE DEF t
<1>3. /\ IsSeq(K)
      /\ \A i \in DOMAIN t : \A j \in DOMAIN t[i] : \E k \in DOMAIN K : K[k] = t[i][j]
      /\ \A k \in DOMAIN K : \E i \in DOMAIN t : \E j \in DOMAIN t[i] : K[k] = t[i][j]
  BY <1>1, <1>2, Flattened
<1>4. Kept(s, S) = K
  BY DEF Kept, t
<1> HIDE DEF K
<1>5. \A k \in DOMAIN K : K[k] \in S /\ \E i \in DOMAIN s : K[k] = s[i]
  BY <1>1, <1>2, <1>3
<1>6. \A i \in DOMAIN s : s[i] \in S => \E k \in DOMAIN K : K[k] = s[i]
  <2> SUFFICES ASSUME NEW i \in DOMAIN s, s[i] \in S PROVE \E k \in DOMAIN K : K[k] = s[i]
    OBVIOUS
  <2>1. i \in DOMAIN t /\ 1 \in DOMAIN t[i] /\ t[i][1] = s[i]
    BY <1>1, <1>2
  <2>2. \E k \in DOMAIN K : K[k] = t[i][1]
    BY <2>1, <1>3
  <2> QED BY <2>1, <2>2
<1> QED BY <1>3, <1>4, <1>5, <1>6

----------------------------------------------------------------------------
(* What occurs in a sequence, in terms of what it is made of *)

Occurs(x, s) == \E i \in DOMAIN s : s[i] = x

LEMMA OccursInShort == \A x : ~Occurs(x, <<>>) /\ \A y : Occurs(x, <<y>>) <=> x = y
BY ShortSeqs DEF Occurs

LEMMA OccursInJoined ==
    ASSUME NEW s, IsSeq(s), NEW t, IsSeq(t)
    PROVE  /\ IsSeq(s \o t)
           /\ \A k \in DOMAIN s : k \in DOMAIN (s \o t) /\ (s \o t)[k] = s[k]
           /\ \A x : Occurs(x, s \o t) <=> Occurs(x, s) \/ Occurs(x, t)
<1> DEFINE S == ToSet(s) \cup ToSet(t)
<1>1. s \in Seq(S) /\ t \in Seq(S)
  <2>1. s \in Seq(ToSet(s)) /\ t \in Seq(ToSet(t))
    BY SeqIn
  <2>2. \A A, B : A \subseteq B => \A q \in Seq(A) : q \in Seq(B)
    OBVIOUS
  <2> QED BY <2>1, <2>2
<1> HIDE DEF S
<1>2. s \o t \in Seq(S) /\ \A k \in DOMAIN s : k \in DOMAIN (s \o t) /\ (s \o t)[k] = s[k]
  BY <1>1, ConcatFacts
<1>3. ASSUME NEW x, Occurs(x, s) PROVE Occurs(x, s \o t)
  BY <1>2, <1>3 DEF Occurs
<1>4. ASSUME NEW x, Occurs(x, t) PROVE Occurs(x, s \o t)
  <2>1. PICK k \in DOMAIN t : t[k] = x
    BY <1>4 DEF Occurs
  <2>2. \E i \in DOMAIN (s \o t) : (s \o t)[i] = t[k]
    BY <1>1, ConcatFacts
  <2> QED BY <2>1, <2>2 DEF Occurs
<1>5. ASSUME NEW x, Occurs(x, s \o t) PROVE Occurs(x, s) \/ Occurs(x, t)
  <2>1. PICK k \in DOMAIN (s \o t) : (s \o t)[k] = x
    BY <1>5 DEF Occurs
  <2>2. (k \in DOMAIN s /\ (s \o t)[k] = s[k]) \/ \E i \in DOMAIN t : (s \o t)[k] = t[i]
    BY <1>1, ConcatFacts
  <2> QED BY <2>1, <2>2 DEF Occurs
<1>6. IsSeq(s \o t)
  BY <1>2, SeqIs
<1> QED BY <1>2, <1>3, <1>4, <1>5, <1>6

LEMMA OccursInTail ==
    ASSUME NEW s, IsSeq(s), s # <<>>
    PROVE  /\ IsSeq(Tail(s)) /\ Occurs(Head(s), s)
           /\ \A x : Occurs(x, s) <=> x = Head(s) \/ Occurs(x, Tail(s))
<1>1. ASSUME NEW h, NEW r, 1 \in DOMAIN s, h = s[1],
             \A i \in DOMAIN s : s[i] = h \/ \E j \in DOMAIN r : s[i] = r[j],
             \A j \in DOMAIN r : \E i \in DOMAIN s : r[j] = s[i]
      PROVE  Occurs(h, s) /\ \A x : Occurs(x, s) <=> x = h \/ Occurs(x, r)
  BY <1>1 DEF Occurs
<1>2. Occurs(Head(s), s) /\ \A x : Occurs(x, s) <=> x = Head(s) \/ Occurs(x, Tail(s))
  <2> DEFINE h == Head(s)
             r == Tail(s)
  <2>1. /\ 1 \in DOMAIN s /\ h = s[1]
        /\ \A i \in DOMAIN s : s[i] = h \/ \E j \in DOMAIN r : s[i] = r[j]
        /\ \A j \in DOMAIN r : \E i \in DOMAIN s : r[j] = s[i]
    BY RestOfSeq, Zenon
  <2> HIDE DEF h, r
  <2>2. Occurs(h, s) /\ \A x : Occurs(x, s) <=> x = h \/ Occurs(x, r)
    BY <1>1, <2>1
  <2> QED BY <2>2 DEF h, r
<1> QED BY <1>2, RestOfSeq

LEMMA OccursInFlattened ==
    ASSUME NEW seqs, IsSeq(seqs), \A i \in DOMAIN seqs : IsSeq(seqs[i])
    PROVE  /\ IsSeq(FlattenSeq(seqs))
           /\ \A x : Occurs(x, FlattenSeq(seqs)) <=> \E i \in DOMAIN seqs : Occurs(x, seqs[i])
<1>1. ASSUME NEW F,
             \A i \in DOMAIN seqs : \A j \in DOMAIN seqs[i] : \E k \in DOMAIN F : F[k] = seqs[i][j],
             \A k \in DOMAIN F : \E i \in DOMAIN seqs : \E j \in DOMAIN seqs[i] : F[k] = seqs[i][j]
      PROVE  \A x : Occurs(x, F) <=> \E i \in DOMAIN seqs : Occurs(x, seqs[i])
  BY <1>1 DEF Occurs
<1> QED BY <1>1, Flattened

LEMMA OccursInKept ==
    ASSUME NEW s, IsSeq(s), NEW S
    PROVE  IsSeq(Kept(s, S)) /\ \A x : Occurs(x, Kept(s, S)) <=> Occurs(x, s) /\ x \in S
<1>1. ASSUME NEW K,
             \A k \in DOMAIN K : K[k] \in S /\ \E i \in DOMAIN s : K[k] = s[i],
             \A i \in DOMAIN s : s[i] \in S => \E k \in DOMAIN K : K[k] = s[i]
      PROVE  \A x : Occurs(x, K) <=> Occurs(x, s) /\ x \in S
  BY <1>1 DEF Occurs
<1> QED BY <1>1, KeptFacts

LEMMA OccursAlong ==
    ASSUME NEW s, IsSeq(s), NEW t, t = [i \in DOMAIN s |-> t[i]]
    PROVE  IsSeq(t) /\ \A x : Occurs(x, t) <=> \E i \in DOMAIN s : x = t[i]
BY AlongSeq, Zenon DEF Occurs

LEMMA OccursInSet == \A s, x : Occurs(x, s) <=> x \in ToSet(s)
BY DEF Occurs, ToSet

\* A set of natural numbers that is not empty has a smallest member.
LEMMA Smallest ==
    ASSUME NEW S \in SUBSET Nat, S # {}
    PROVE  \E m \in S : \A k \in S : m <= k
<1>1. PICK m \in S : \A k \in S : ~(<<k, m>> \in OpToRel(<, Nat))
  BY NatLessThanWellFounded, WFMin
<1>2. \A k \in S : ~(k < m)
  BY <1>1 DEF OpToRel
<1> QED BY <1>2

\* What holds of nothing and goes from each number to the next.
LEMMA NumberByNumber ==
    ASSUME NEW n \in Nat, NEW S, 0 \in S, \A k \in 1 .. n : k - 1 \in S => k \in S
    PROVE  \A k \in 0 .. n : k \in S
<1> DEFINE Bad == {k \in 0 .. n : k \notin S}
<1>1. SUFFICES ASSUME Bad # {} PROVE FALSE
  OBVIOUS
<1>2. PICK m \in Bad : \A k \in Bad : m <= k
  <2>1. Bad \in SUBSET Nat
    OBVIOUS
  <2> HIDE DEF Bad
  <2> QED BY <1>1, <2>1, Smallest
<1>3. m \in 1 .. n /\ m - 1 \in 0 .. n /\ m - 1 < m
  BY <1>2
<1>4. m - 1 \in S
  BY <1>2, <1>3
<1> QED BY <1>2, <1>3, <1>4

----------------------------------------------------------------------------
(* The order of what is kept *)

Climbs(h, n) == \A k, l \in 1 .. n : k < l => h[k] < h[l]

\* Two ways up that meet the same numbers are one.
LEMMA SameClimb ==
    ASSUME NEW m \in Nat, NEW n \in Nat,
           NEW f \in [1 .. n -> Int], NEW h \in [1 .. m -> Int], Climbs(f, n), Climbs(h, m),
           \A k \in 1 .. n : \E p \in 1 .. m : f[k] = h[p],
           \A p \in 1 .. m : \E k \in 1 .. n : h[p] = f[k]
    PROVE  m = n /\ f = h
<1> DEFINE S == {k \in 0 .. n : \A j \in 1 .. k : j \in 1 .. m /\ f[j] = h[j]}
<1>1. 0 \in S
  OBVIOUS
<1>2. ASSUME NEW k \in 1 .. n, k - 1 \in S PROVE k \in S
  <2>1. \A j \in 1 .. (k - 1) : j \in 1 .. m /\ f[j] = h[j]
    BY <1>2
  <2>2. PICK p \in 1 .. m : f[k] = h[p]
    OBVIOUS
  <2>3. p >= k
    <3> SUFFICES ASSUME p < k PROVE FALSE
      OBVIOUS
    <3>1. p \in 1 .. (k - 1) /\ p \in 1 .. n
      OBVIOUS
    <3>2. f[p] = h[p] /\ f[p] < f[k]
      BY <2>1, <3>1 DEF Climbs
    <3> QED BY <2>2, <3>1, <3>2
  <2>4. k \in 1 .. m
    BY <2>3
  <2>5. PICK q \in 1 .. n : h[k] = f[q]
    BY <2>4
  <2>6. q >= k
    <3> SUFFICES ASSUME q < k PROVE FALSE
      OBVIOUS
    <3>1. q \in 1 .. (k - 1) /\ q \in 1 .. m
      BY <2>4
    <3>2. f[q] = h[q] /\ h[q] < h[k]
      BY <2>1, <3>1, <2>4 DEF Climbs
    <3> QED BY <2>4, <2>5, <3>1, <3>2
  <2>7. h[k] <= h[p] /\ f[k] <= f[q]
    <3>1. k = p \/ h[k] < h[p]
      BY <2>3, <2>4 DEF Climbs
    <3>2. k = q \/ f[k] < f[q]
      BY <2>6 DEF Climbs
    <3>3. h[k] \in Int /\ h[p] \in Int /\ f[k] \in Int /\ f[q] \in Int
      BY <2>4
    <3>4. \A a, b \in Int : a = b \/ a < b => a <= b
      OBVIOUS
    <3>5. (h[k] = h[p] \/ h[k] < h[p]) /\ (f[k] = f[q] \/ f[k] < f[q])
      BY <3>1, <3>2, Zenon
    <3>6. h[k] <= h[p]
      BY <3>3, <3>4, <3>5, Zenon
    <3>7. f[k] <= f[q]
      BY <3>3, <3>4, <3>5, Zenon
    <3> QED BY <3>6, <3>7
  <2>8. f[k] = h[k]
    <3>1. h[k] \in Int /\ f[k] \in Int
      BY <2>4
    <3> QED BY <2>2, <2>5, <2>7, <3>1
  <2>9. \A j \in 1 .. k : j = k \/ j \in 1 .. (k - 1)
    OBVIOUS
  <2>10. \A j \in 1 .. k : j \in 1 .. m /\ f[j] = h[j]
    BY <2>1, <2>4, <2>8, <2>9
  <2>11. k \in 0 .. n
    OBVIOUS
  <2> QED BY <2>10, <2>11
<1> HIDE DEF S
<1>3. n \in S
  <2>1. \A k \in 0 .. n : k \in S
    BY <1>1, <1>2, NumberByNumber
  <2> QED BY <2>1
<1>4. \A j \in 1 .. n : j \in 1 .. m /\ f[j] = h[j]
  BY <1>3 DEF S
<1>5. m = n
  <2>1. n <= m
    <3>1. CASE n = 0
      BY <3>1
    <3>2. CASE n # 0
      <4>1. n \in 1 .. n
        BY <3>2
      <4>2. n \in 1 .. m
        BY <4>1, <1>4
      <4> QED BY <4>2
    <3> QED BY <3>1, <3>2
  <2> SUFFICES ASSUME n < m PROVE FALSE
    BY <2>1
  <2>2. m \in 1 .. m
    OBVIOUS
  <2>3. PICK q \in 1 .. n : h[m] = f[q]
    BY <2>2
  <2>4. q \in 1 .. m /\ f[q] = h[q] /\ q < m
    BY <1>4
  <2>5. h[q] < h[m] /\ h[m] \in Int
    BY <2>2, <2>4 DEF Climbs
  <2> QED BY <2>3, <2>4, <2>5
<1> QED BY <1>4, <1>5

\* The places of s the elements of K come from, in order: those of its first n that are in S.
KeepsBy(h, K, s, S, n) ==
    /\ IsSeq(K) /\ h \in [1 .. Len(K) -> 1 .. n] /\ Climbs(h, Len(K))
    /\ \A k \in 1 .. Len(K) : K[k] = s[h[k]] /\ K[k] \in S
    /\ \A i \in 1 .. n : s[i] \in S => \E k \in 1 .. Len(K) : h[k] = i

LEMMA KeptOneMore ==
    ASSUME NEW s, NEW S, NEW X, NEW m \in Nat, s[m + 1] \in X, NEW K \in Seq(X),
           NEW h, KeepsBy(h, K, s, S, m)
    PROVE  \E g : KeepsBy(g, K \o (IF s[m + 1] \in S THEN <<s[m + 1]>> ELSE <<>>), s, S, m + 1)
<1> DEFINE n == Len(K)
           x == s[m + 1]
<1>1. n \in Nat /\ IsSeq(K) /\ K = [k \in 1 .. n |-> K[k]]
  BY SeqIn, SeqIs
<1>2. h \in [1 .. n -> 1 .. m] /\ Climbs(h, n) /\ (\A k \in 1 .. n : K[k] = s[h[k]] /\ K[k] \in S)
      /\ \A i \in 1 .. m : s[i] \in S => \E k \in 1 .. n : h[k] = i
  BY DEF KeepsBy
<1>3. CASE x \notin S
  <2>1. K \o <<>> = K
    OBVIOUS
  <2>2. h \in [1 .. n -> 1 .. (m + 1)]
    BY <1>2
  <2>3. \A i \in 1 .. (m + 1) : i \in 1 .. m \/ i = m + 1
    OBVIOUS
  <2>4. \A i \in 1 .. (m + 1) : s[i] \in S => \E k \in 1 .. n : h[k] = i
    BY <1>2, <1>3, <2>3
  <2>5. KeepsBy(h, K, s, S, m + 1)
    BY <1>1, <1>2, <2>2, <2>4 DEF KeepsBy
  <2> QED BY <1>3, <2>1, <2>5
<1>4. CASE x \in S
  <2> DEFINE L == K \o <<x>>
             g == [k \in 1 .. (n + 1) |-> IF k = n + 1 THEN m + 1 ELSE h[k]]
  <2>1. L \in Seq(X) /\ Len(L) = n + 1 /\ L[n + 1] = x /\ \A k \in 1 .. n : L[k] = K[k]
    OBVIOUS
  <2>2. IsSeq(L)
    BY <2>1, SeqIs
  <2> HIDE DEF n, L, x
  <2>3. \A k \in 1 .. (n + 1) : k = n + 1 \/ (k \in 1 .. n /\ k # n + 1)
    BY <1>1
  <2>4. g \in [1 .. (n + 1) -> 1 .. (m + 1)] /\ n + 1 \in 1 .. (n + 1)
    BY <1>1, <1>2, <2>3
  <2>5. g[n + 1] = m + 1 /\ \A k \in 1 .. n : k \in 1 .. (n + 1) /\ g[k] = h[k]
    BY <1>1
  <2>6. Climbs(g, n + 1)
    <3> SUFFICES ASSUME NEW k \in 1 .. (n + 1), NEW l \in 1 .. (n + 1), k < l PROVE g[k] < g[l]
      BY DEF Climbs
    <3>1. k \in 1 .. n /\ g[k] = h[k] /\ h[k] \in 1 .. m
      BY <1>1, <1>2, <2>3, <2>5
    <3>2. CASE l = n + 1
      BY <3>1, <3>2, <2>5
    <3>3. CASE l \in 1 .. n
      BY <3>1, <3>3, <2>5, <1>2 DEF Climbs
    <3> QED BY <3>2, <3>3, <2>3
  <2>7. \A k \in 1 .. (n + 1) : L[k] = s[g[k]] /\ L[k] \in S
    BY <1>2, <1>4, <2>1, <2>3, <2>5 DEF x
  <2>8. \A i \in 1 .. (m + 1) : s[i] \in S => \E k \in 1 .. (n + 1) : g[k] = i
    <3> SUFFICES ASSUME NEW i \in 1 .. (m + 1), s[i] \in S PROVE \E k \in 1 .. (n + 1) : g[k] = i
      OBVIOUS
    <3>1. CASE i = m + 1
      BY <3>1, <2>4, <2>5
    <3>2. CASE i \in 1 .. m
      BY <3>2, <1>2, <2>5
    <3> QED BY <3>1, <3>2
  <2> HIDE DEF g
  <2>9. KeepsBy(g, L, s, S, m + 1)
    BY <2>1, <2>2, <2>4, <2>6, <2>7, <2>8 DEF KeepsBy
  <2> QED BY <1>4, <2>9 DEF L, x
<1> QED BY <1>3, <1>4

LEMMA KeptInOrder ==
    ASSUME NEW s, IsSeq(s), NEW S
    PROVE  \E h : KeepsBy(h, Kept(s, S), s, S, Len(s))
<1> DEFINE X == ToSet(s)
           n == Len(s)
           t == [i \in DOMAIN s |-> IF s[i] \in S THEN <<s[i]>> ELSE <<>>]
           f == CHOOSE g : FirstN(t, g, n)
           F(m) == IF m = 0 THEN <<>> ELSE f[m]
           R == {m \in 0 .. n : F(m) \in Seq(X) /\ \E h : KeepsBy(h, F(m), s, S, m)}
<1>1. n \in Nat /\ DOMAIN s = 1 .. n /\ \A i \in 1 .. n : s[i] \in X
  BY SeqIn DEF ToSet
<1>2. DOMAIN t = 1 .. n /\ Len(t) = n
  <2>1. IsSeq(t) /\ DOMAIN t = DOMAIN s
    BY AlongSeq
  <2>2. DOMAIN t = 1 .. Len(t) /\ Len(t) \in Nat
    BY <2>1, SeqIn
  <2> QED BY <1>1, <2>1, <2>2
<1>3. FirstN(t, f, n)
  BY <1>1, FirstNExists
<1>4. Kept(s, S) = F(n)
  <2>1. CASE n = 0
    <3>1. t = <<>>
      BY <1>2, <2>1
    <3> QED BY <2>1, <3>1, <1>2 DEF Kept, FlattenSeq
  <2>2. CASE n # 0
    <3>1. FlattenSeq(t) = f[n]
      BY <1>2, <2>2 DEF FlattenSeq, FirstN
    <3> QED BY <2>2, <3>1 DEF Kept
  <2> QED BY <2>1, <2>2
<1>5. \A i \in 1 .. n : t[i] = IF s[i] \in S THEN <<s[i]>> ELSE <<>>
  BY <1>1
<1> HIDE DEF f, t, X, n
<1>6. \A m \in 1 .. n : F(m) = F(m - 1) \o t[m] /\ (m - 1) + 1 = m /\ m - 1 \in Nat
  <2> SUFFICES ASSUME NEW m \in 1 .. n
               PROVE  F(m) = F(m - 1) \o t[m] /\ (m - 1) + 1 = m /\ m - 1 \in Nat
    OBVIOUS
  <2>1. m # 0 /\ (m - 1) + 1 = m /\ m - 1 \in Nat /\ (m = 1 <=> m - 1 = 0)
    BY <1>1
  <2>2. f[m] = IF m = 1 THEN t[m] ELSE f[m - 1] \o t[m]
    BY <1>3 DEF FirstN
  <2>3. <<>> \o t[m] = t[m]
    BY <1>1, <1>5
  <2> QED BY <2>1, <2>2, <2>3
<1>7. 0 \in R
  <2>1. F(0) = <<>> /\ F(0) \in Seq(X)
    OBVIOUS
  <2>2. KeepsBy([k \in 1 .. 0 |-> 0], <<>>, s, S, 0)
    BY ShortSeqs DEF KeepsBy, Climbs
  <2> QED BY <1>1, <2>1, <2>2
<1>8. ASSUME NEW m \in 1 .. n, m - 1 \in R PROVE m \in R
  <2> DEFINE K == F(m - 1)
             l == m - 1
  <2>1. K \in Seq(X) /\ \E h : KeepsBy(h, K, s, S, l)
    BY <1>8
  <2>2. l \in Nat /\ l + 1 = m /\ F(m) = K \o t[l + 1] /\ s[l + 1] \in X
        /\ t[l + 1] = IF s[l + 1] \in S THEN <<s[l + 1]>> ELSE <<>>
    BY <1>1, <1>5, <1>6
  <2> HIDE DEF K, l
  <2>3. \E g : KeepsBy(g, K \o (IF s[l + 1] \in S THEN <<s[l + 1]>> ELSE <<>>), s, S, l + 1)
    BY <2>1, <2>2, KeptOneMore
  <2>4. K \o t[l + 1] \in Seq(X)
    BY <2>1, <2>2
  <2>5. F(m) \in Seq(X) /\ \E g : KeepsBy(g, F(m), s, S, m)
    BY <2>2, <2>3, <2>4
  <2> QED BY <2>5
<1> HIDE DEF R
<1>9. \A k \in 0 .. n : k \in R
  BY <1>1, <1>7, <1>8, NumberByNumber
<1>10. n \in R
  BY <1>1, <1>9
<1> QED BY <1>4, <1>10 DEF R, n

LEMMA KeptIs ==
    ASSUME NEW s, IsSeq(s), NEW S, NEW K, NEW g, KeepsBy(g, K, s, S, Len(s))
    PROVE  Kept(s, S) = K
<1> DEFINE L == Kept(s, S)
<1>1. PICK h : KeepsBy(h, L, s, S, Len(s))
  BY KeptInOrder
<1> HIDE DEF L
<1>2. IsSeq(K) /\ IsSeq(L) /\ Len(K) \in Nat /\ Len(L) \in Nat /\ Len(s) \in Nat
  BY <1>1 DEF KeepsBy, IsSeq
<1>3. g \in [1 .. Len(K) -> Int] /\ h \in [1 .. Len(L) -> Int]
  BY <1>1, <1>2 DEF KeepsBy
<1>4. \A k \in 1 .. Len(K) : \E p \in 1 .. Len(L) : g[k] = h[p]
  <2> SUFFICES ASSUME NEW k \in 1 .. Len(K) PROVE \E p \in 1 .. Len(L) : g[k] = h[p]
    OBVIOUS
  <2>1. g[k] \in 1 .. Len(s) /\ s[g[k]] \in S
    BY DEF KeepsBy
  <2> QED BY <1>1, <2>1 DEF KeepsBy
<1>5. \A p \in 1 .. Len(L) : \E k \in 1 .. Len(K) : h[p] = g[k]
  <2> SUFFICES ASSUME NEW p \in 1 .. Len(L) PROVE \E k \in 1 .. Len(K) : h[p] = g[k]
    OBVIOUS
  <2>1. h[p] \in 1 .. Len(s) /\ s[h[p]] \in S
    BY <1>1 DEF KeepsBy
  <2> QED BY <2>1 DEF KeepsBy
<1>6. Climbs(g, Len(K)) /\ Climbs(h, Len(L))
  BY <1>1 DEF KeepsBy
<1>7. Len(L) = Len(K) /\ g = h
  BY <1>2, <1>3, <1>4, <1>5, <1>6, SameClimb
<1>8. \A k \in 1 .. Len(K) : L[k] = K[k]
  BY <1>1, <1>7 DEF KeepsBy
<1>9. K = [k \in 1 .. Len(K) |-> K[k]] /\ L = [k \in 1 .. Len(K) |-> L[k]]
  BY <1>2, <1>7 DEF IsSeq
<1>10. L = K
  BY <1>8, <1>9
<1> QED BY <1>10 DEF L

LEMMA KeptWhole ==
    ASSUME NEW s, IsSeq(s), NEW S, \A i \in 1 .. Len(s) : s[i] \in S
    PROVE  Kept(s, S) = s
<1> DEFINE g == [k \in 1 .. Len(s) |-> k]
<1>1. Len(s) \in Nat
  BY SeqIn
<1>2. KeepsBy(g, s, s, S, Len(s))
  BY <1>1 DEF KeepsBy, Climbs
<1> HIDE DEF g
<1> QED BY <1>2, KeptIs
=============================================================================
