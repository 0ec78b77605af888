-------------------- MODULE MC_StageFetchRefillProofs --------------------
(* The instance of MC_StageFetch, with the strengthenings of the proofs  *)
(* (StageFetchRefillProofs, StageFetchHostProofs) in scope.             *)
EXTENDS StageFetchRefillProofs, StageFetchHostProofs

CONSTANTS w1, w2, s1

MCWorkers == {w1, w2}
MCStages == {s1}
MCNCache == 2

=============================================================================
