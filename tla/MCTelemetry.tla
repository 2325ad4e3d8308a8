----------------------------- MODULE MCTelemetry ------------------------------
(* Instances of Telemetry for TLC.                                         *)
EXTENDS Telemetry, TLC
===============================================================================
