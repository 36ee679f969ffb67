--------------------------- MODULE MCSourceBinding ---------------------------
(* Two importers race on one logical source with three provider revisions.  *)
EXTENDS SourceBinding, TLC

ImporterSymmetry == Permutations(Importers)
=============================================================================
