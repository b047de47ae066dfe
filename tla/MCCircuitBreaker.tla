-------------------------- MODULE MCCircuitBreaker --------------------------
(* Instances of CircuitBreaker for TLC. *)
EXTENDS CircuitBreaker, TLC

CONSTANTS r1, r2, m1

MCRetryCallers == {r1, r2}
MCMutatingCallers == {m1}
NoCallers == {}
Symmetry == Permutations(MCRetryCallers)
=============================================================================
