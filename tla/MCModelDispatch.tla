--------------------------- MODULE MCModelDispatch ---------------------------
(* Two requests of one tenant, two calls at a time.                          *)
EXTENDS ModelDispatch, TLC

CONSTANTS r1, r2, t1

MCTenantOf == [r \in Requests |-> t1]
MCReserved == [r \in Requests |-> IF r = r1 THEN 2 ELSE 1]

WorkerSymmetry == Permutations(Workers)
=============================================================================
