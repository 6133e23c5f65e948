----------------------------- MODULE MCPipeline -----------------------------
(* Small instances of Pipeline, with the symmetry of their documents. *)
EXTENDS Pipeline, TLC

Symmetry == Permutations(Requirements) \cup Permutations(Elements)
=============================================================================
