-------------------------- MODULE MCQueryPipeline --------------------------
(* Instances of QueryPipeline for TLC. *)
EXTENDS QueryPipeline, TLC

CONSTANTS c1, c2

TwoClients == {c1, c2}
ClientSymmetry == Permutations(TwoClients)
=============================================================================
