-------------------------- MODULE MCSourceDeletion --------------------------
(* One source, connected or uploaded, and the World compiled from it.        *)
EXTENDS SourceDeletion, TLC

CONSTANTS s1, w1, w2

SweeperSymmetry == Permutations(Sweepers)
=============================================================================
