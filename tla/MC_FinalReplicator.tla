------------------------- MODULE MC_FinalReplicator -------------------------
(* Model-checking instance of FinalReplicator: two workers and two stages, *)
(* so that two workers can replicate the same stage or different ones.     *)
EXTENDS FinalReplicator

CONSTANTS w1, w2, s1, s2

MCWorkers == {w1, w2}
MCStages == {s1, s2}

=============================================================================
