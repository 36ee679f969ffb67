SPECIFICATION WorldSpec
CONSTANTS
  Digests = {d1, d2}
  Operations = {o1, o2, o3, o4}
  Actors = {a1, a2}
  MaxMembership = 3
  None = None
SYMMETRY WorldSymmetry
CHECK_DEADLOCK FALSE
INVARIANTS
  WorldTypeOK
  PointerNamesTheActiveVersion
  AuditChain
  RollbackIsHistorical
  InvalidatedStaysDown
  AnswersAgree
