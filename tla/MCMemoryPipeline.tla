-------------------------- MODULE MCMemoryPipeline --------------------------
(* Instances of MemoryPipeline for TLC: two pipeline runs, one of them in a *)
(* session that is itself writing thread 2.                                 *)
EXTENDS MemoryPipeline, TLC

CONSTANTS w1, w2

MCWorkers == {w1, w2}
MCThreads == {1, 2}
MCOneThread == {1}
MCTokens == 1..3
MCOwnThread == [w \in {w1, w2} |-> IF w = w2 THEN 2 ELSE None]
WorkerSymmetry == Permutations({w1, w2})
MCNoOwnThread == [w \in {w1, w2} |-> None]
=============================================================================
