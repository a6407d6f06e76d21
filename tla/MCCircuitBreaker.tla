-------------------------- MODULE MCCircuitBreaker --------------------------
(***************************************************************************)
(* CircuitBreaker with enough calls for two to be left over from before    *)
(* the breaker opened while it is half-open.                               *)
(***************************************************************************)
EXTENDS CircuitBreaker

CONSTANTS a, b, c, d

=============================================================================
