---------------------------- MODULE MCTelemetry ----------------------------
(* Telemetry for TLC.  No symmetry among the streams: a liveness property *)
(* is checked with the safety properties.                                 *)
EXTENDS Telemetry

============================================================================
