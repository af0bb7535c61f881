----------------------------- MODULE MCPipeline -----------------------------
(* Instances of Pipeline for TLC. *)
EXTENDS Pipeline, TLC

\* Nothing tells two messages apart.
Symmetry == Permutations(Ids)
=============================================================================
