--------------------------- MODULE MCWorldPromotion ---------------------------
(* Two sources, an importer, two promotions of candidates that share both    *)
(* sources.                                                                  *)
EXTENDS WorldPromotion, TLC

CONSTANTS d1, d2

(* The candidates a compile of {1, 2} can have read. *)
MCDocuments == (d1 :> {<<1, 1>>, <<2, 1>>}) @@ (d2 :> {<<1, 2>>, <<2, 1>>})

(* Bound: the provider revises the first source only, and one thing at most  *)
(* goes wrong around the promotions: a source is deleted, the member's role  *)
(* changes, or the connection is switched off.                               *)
OneDisturbance ==
  /\ current[2] = 1
  /\ Cardinality(tombstoned)
     + Cardinality({a \in Actors : members[a].authorization > 1})
     + (IF connectionActive THEN 0 ELSE 1) <= 1

PromotionSymmetry == Permutations(Promotions) \union Permutations(Operations)
=============================================================================
