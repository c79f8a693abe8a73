---------------------------- MODULE MCKeySearch ----------------------------
(* Two workers, difficulties on both sides of both thresholds.   *)
EXTENDS KeySearch

CONSTANTS w1, w2

MCWorkers == {w1, w2}
MCMeasures == {0, 8, 10, 14, 15}
MCMinDifficulty == 8
MCDifficulty == 14
=============================================================================
