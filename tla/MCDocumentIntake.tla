-------------------------- MODULE MCDocumentIntake --------------------------
(* Documents that each set aside two credits of a workspace that has three.  *)
EXTENDS DocumentIntake

CONSTANT d1

MCReserved == [d \in Documents |-> 2]
MCMaximum == [d \in Documents |-> 3]
MCGrant == [s \in Sales |-> 0]
MCOffer == [s \in Sales |-> "observer"]
=============================================================================
