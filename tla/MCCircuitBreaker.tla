-------------------------- MODULE MCCircuitBreaker --------------------------
(* CircuitBreaker for TLC: the requests are model values and the safety    *)
(* runs identify states that differ only in which request is which.        *)
EXTENDS CircuitBreaker, TLC

Symmetry == Permutations(Tasks)
=============================================================================
