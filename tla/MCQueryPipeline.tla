-------------------------- MODULE MCQueryPipeline --------------------------
(* Small instances of QueryPipeline for TLC.                               *)
EXTENDS QueryPipeline, TLC

CONSTANT n1

HashOne == {n1 :> 1}
HashAny == {n1 :> 0, n1 :> 1}

Symmetric == Permutations(Workers)
=============================================================================
