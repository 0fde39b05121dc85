--------------------------- MODULE MCBarHistory ---------------------------
(* Model checking of BarHistory on small instances. *)
EXTENDS BarHistory, TLC

CONSTANTS p1, p2, MaxPending

\* Two sessions, instants up to two after the last close
TwoSessions == 1 .. 2
ClosesAt1And2 == (1 :> 1) @@ (2 :> 2)
FourInstants == 0 .. 4

Symmetry == Permutations(Payloads) \cup Permutations(Sources)

BoundedPending == Cardinality(pending) <= MaxPending

===========================================================================
