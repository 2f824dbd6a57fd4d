-------------------------- MODULE MCCircuitBreaker --------------------------
(* A small instance of the circuit breaker for TLC. *)
EXTENDS CircuitBreaker
=============================================================================
