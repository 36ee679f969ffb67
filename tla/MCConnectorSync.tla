--------------------------- MODULE MCConnectorSync ---------------------------
(* A feed of two pages in which a file is removed and restored.              *)
EXTENDS ConnectorSync, TLC

CONSTANTS f1, f2, f3

Change(f, k) == [file |-> f, kind |-> k]

MCFeed ==
  <<Change(f1, "file"), Change(f2, "file"), Change(f1, "removal"),
    Change(f3, "unsupported"), Change(f1, "file")>>

WorkerSymmetry == Permutations(Workers)
=============================================================================
