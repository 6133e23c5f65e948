---------------------------- MODULE MCSubmission ----------------------------
(* Small instances of Submission, with the symmetry of their runs and files. *)
EXTENDS Submission, TLC

Symmetry == Permutations(Runs) \cup Permutations(Contents)
=============================================================================
