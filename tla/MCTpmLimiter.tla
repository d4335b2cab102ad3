---------------------------- MODULE MCTpmLimiter ----------------------------
(* TpmLimiter for TLC: the requests are model values, interchangeable in   *)
(* the runs that check invariants only.                                    *)
EXTENDS TpmLimiter, TLC

Symmetry == Permutations(Tasks)
=============================================================================
