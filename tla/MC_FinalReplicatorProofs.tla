---------------------- MODULE MC_FinalReplicatorProofs ----------------------
(* The instance of MC_FinalReplicator for the passing run; it extends   *)
(* FinalReplicatorProofs so that TLC evaluates its assumptions.          *)
EXTENDS FinalReplicatorProofs

CONSTANTS w1, w2, s1, s2

MCWorkers == {w1, w2}
MCStages == {s1, s2}

=============================================================================
