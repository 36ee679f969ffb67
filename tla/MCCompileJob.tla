----------------------------- MODULE MCCompileJob -----------------------------
(* Two turns over one job of two documents.                                  *)
EXTENDS CompileJob, TLC

CompileSymmetry == Permutations(Workers) \union Permutations(Documents)
=============================================================================
