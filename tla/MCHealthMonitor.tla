--------------------------- MODULE MCHealthMonitor ---------------------------
(* A small instance of HealthMonitor for TLC. *)
EXTENDS HealthMonitor
=============================================================================
