SPECIFICATION Spec
CONSTANTS
  Documents = {d1, d2}
  Workers = {w1, w2}
  MaxEvents = 2
SYMMETRY CompileSymmetry
CHECK_DEADLOCK FALSE
INVARIANTS
  PackagesAreNamed
  NothingLeftOutUnasked
PROPERTIES
  JobOnlyAdvances
  CandidateIsPermanent
