-------------------------- MODULE MCCircuitBreaker --------------------------
(* Instances of CircuitBreaker, with its health reports, for TLC. *)
EXTENDS HealthReport

CONSTANTS c1, c2

MCCallers == {c1, c2}
MCConfigurations == {{}, Parts}
=============================================================================
