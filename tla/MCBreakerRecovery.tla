-------------------------- MODULE MCBreakerRecovery --------------------------
(* The breaker and its dependency for TLC.  No symmetry: liveness is checked. *)
EXTENDS BreakerRecovery

CONSTANTS c1, c2, c3, c4

MCCalls == {c1, c2, c3, c4}
=============================================================================
