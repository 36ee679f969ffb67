SPECIFICATION Spec
CONSTANTS
  Sources = {1, 2}
  Importers = {w1}
  MaxRevision = 2
  MaxInstant = 2
  d1 = d1
  d2 = d2
  Digests = {d1, d2}
  Operations = {o1, o2}
  Actors = {a1}
  MaxMembership = 2
  None = None
  Promotions = {p1, p2}
  Documents <- MCDocuments
CONSTRAINT OneDisturbance
SYMMETRY PromotionSymmetry
INVARIANTS
  NoLockCycle
PROPERTY PublishesNewest
