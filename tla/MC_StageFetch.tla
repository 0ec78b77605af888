--------------------------- MODULE MC_StageFetch ---------------------------
(* Model-checking instance of StageFetch: two workers fetching the same   *)
(* stage through two cache tiers.                                          *)
EXTENDS StageFetch

CONSTANTS w1, w2, s1

MCWorkers == {w1, w2}
MCStages == {s1}
MCNCache == 2

=============================================================================
