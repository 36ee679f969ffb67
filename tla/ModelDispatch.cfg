SPECIFICATION Spec
CONSTANTS
  r1 = r1
  r2 = r2
  t1 = t1
  Requests = {r1, r2}
  Tenants = {t1}
  TenantOf <- MCTenantOf
  Reserved <- MCReserved
  Budget = 3
  TenantBudget = 2
  Slots = 2
  TenantSlots = 1
  Workers = {w1, w2}
  Threshold = 2
  MaxRevision = 4
  MaxFaults = 1
SYMMETRY WorkerSymmetry
CHECK_DEADLOCK FALSE
INVARIANTS
  BudgetHolds
  CallsAreAccounted
  OneProbe
PROPERTIES
  ClosesOnProof
  DispatchPaysOnce
