------------------------------ MODULE MCMetrics ------------------------------
(***************************************************************************)
(* The instance of the metrics registry for TLC.  Calls, the pairs of      *)
(* provider and model, and reasons are only told apart.                    *)
(***************************************************************************)
EXTENDS MetricsRegistry, TLC

Symmetry ==
  Permutations(Calls) \union Permutations(Keys) \union Permutations(Reasons)
=============================================================================
