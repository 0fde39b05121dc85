-------------------------- MODULE MCRunDiscovery --------------------------
(* Model checking of RunDiscovery on a small instance. *)
EXTENDS RunDiscovery, TLC

CONSTANTS k1, k2

\* Two sessions on two days
OneADay == (k1 :> 1) @@ (k2 :> 2)

===========================================================================
