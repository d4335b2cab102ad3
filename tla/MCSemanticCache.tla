-------------------------- MODULE MCSemanticCache --------------------------
(* SemanticCache for TLC: three prompts and two signatures. *)
EXTENDS SemanticCache, TLC

CONSTANTS c1, c2

(* Prompt 1 is exactly similar enough to prompt 3, and closer to prompt 2; *)
(* prompts 2 and 3 are too far apart.                                      *)
SomeRequests == {<<1, "s">>, <<2, "s">>, <<3, "s">>, <<1, "other">>}

SomeSimilarity ==
  [pair \in (1 .. 3) \X (1 .. 3) |->
     CASE pair[1] = pair[2]    -> 100
       [] {pair[1], pair[2]} = {1, 2} -> 97
       [] {pair[1], pair[2]} = {1, 3} -> 96
       [] OTHER                -> 10]

Symmetry == Permutations(Callers)
=============================================================================
