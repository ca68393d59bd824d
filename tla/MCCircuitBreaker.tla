-------------------------- MODULE MCCircuitBreaker --------------------------
(***************************************************************************)
(* Instances of CircuitBreaker for TLC: three callers against two probes,  *)
(* so that the probe limit and stale results both occur.                   *)
(***************************************************************************)
EXTENDS CircuitBreaker
=============================================================================
