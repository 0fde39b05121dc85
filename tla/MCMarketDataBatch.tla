-------------------------- MODULE MCMarketDataBatch --------------------------
(* Model checking of MarketDataBatch on small instances. *)
EXTENDS MarketDataBatch, TLC

Symmetry == Permutations(Workers) \cup Permutations(Days)

=============================================================================
