-------------------------- MODULE MCOrderExecution --------------------------
(* Model checking of OrderExecution on small instances. *)
EXTENDS OrderExecution, TLC

CONSTANTS r1, r2, s1, s2, t1

Both == (s1 :> t1) @@ (s2 :> t1)
FirstOnly == (s1 :> t1) @@ (s2 :> Rejected)

\* The risk context of r1 may change between two attempts; that of r2 may not.
TwoRuns == (r1 :> {Both, FirstOnly}) @@ (r2 :> {FirstOnly})

=============================================================================
