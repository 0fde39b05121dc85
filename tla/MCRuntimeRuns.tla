--------------------------- MODULE MCRuntimeRuns ---------------------------
(* Model checking of RuntimeRuns on small instances. *)
EXTENDS RuntimeRuns, TLC

Symmetry == Permutations(Workers) \cup Permutations(Configs)

=============================================================================
