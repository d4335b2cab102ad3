----------------------------- MODULE MCGateway -----------------------------
(* Gateway for TLC: the kinds of request clients make in each run. *)
EXTENDS Gateway, TLC

Symmetry == Permutations(Requests)

Request(handler, stream, temperature) ==
  [ handler |-> handler, stream |-> stream, temperature |-> temperature,
    payload |-> "p1", cost |-> 1 ]

MixedKinds ==
  {Request("chat", FALSE, 0), Request("chat", TRUE, 0), Request("embeddings", FALSE, 0)}
CachedKinds == {Request("chat", FALSE, 0)}
=============================================================================
