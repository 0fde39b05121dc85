----------------------- MODULE MCDecisionInvocation -----------------------
(* Model checking of DecisionInvocation on small instances. *)
EXTENDS DecisionInvocation, TLC

CONSTANTS r1, r2, f1

\* The request of a run is frozen before it is first presented.  Processes that
\* take turns present one run; threads that share the journal present two runs
\* whose frozen requests are the same.
OneRunOrTwo ==
  [s \in BOOLEAN |-> (r1 :> {f1}) @@ (r2 :> IF s THEN {f1} ELSE {})]

===========================================================================
