-------------------------- MODULE MCCircuitBreaker --------------------------
(* The circuit breaker for TLC: four interchangeable calls. *)
EXTENDS CircuitBreaker, TLC

CONSTANTS c1, c2, c3, c4

MCCalls == {c1, c2, c3, c4}
Symmetry == Permutations(MCCalls)
=============================================================================
