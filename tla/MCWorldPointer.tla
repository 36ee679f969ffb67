---------------------------- MODULE MCWorldPointer ----------------------------
(* Two candidates, four operations and two administrators.                 *)
EXTENDS WorldPointer, TLC

WorldSymmetry ==
  Permutations(Digests) \union Permutations(Operations) \union Permutations(Actors)
=============================================================================
