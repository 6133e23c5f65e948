---------------------------- MODULE Subsequences ----------------------------
(***************************************************************************)
(* The comprehensions the code writes over lists: what a list keeps of the *)
(* elements of a set, in order and as often as they occur.                 *)
(***************************************************************************)
EXTENDS Naturals, Sequences, SequencesExt

IsSeq(s) == Len(s) \in Nat /\ s = [i \in 1..Len(s) |-> s[i]]

Kept(s, S) == FlattenSeq([i \in DOMAIN s |-> IF s[i] \in S THEN <<s[i]>> ELSE <<>>])
=============================================================================
