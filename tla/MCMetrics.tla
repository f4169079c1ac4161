----------------------------- MODULE MCMetrics -----------------------------
(* MetricsAggregator for TLC: bots are interchangeable, and exporters too. *)
EXTENDS MetricsAggregator, TLC

Symmetry == Permutations(Bots) \cup Permutations(Exporters)
============================================================================
