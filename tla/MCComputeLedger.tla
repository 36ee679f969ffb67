-------------------------- MODULE MCComputeLedger --------------------------
(* Two documents of different sizes and two months of one plan, or of two.   *)
EXTENDS ComputeLedger

CONSTANTS d1, d2, s1, s2

MCReserved == [d \in Documents |-> IF d = d1 THEN 1 ELSE 2]
MCMaximum == [d \in Documents |-> IF d = d1 THEN 2 ELSE 3]
MCGrant == [s \in Sales |-> IF s = s1 THEN 2 ELSE 3]
MCOffer == [s \in Sales |-> IF s = s1 THEN "observer" ELSE "studio"]
=============================================================================
