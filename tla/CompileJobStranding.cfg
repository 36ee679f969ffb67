SPECIFICATION FairSpec
CONSTANTS
  Documents = {d1}
  Workers = {w1}
  MaxEvents = 1
CHECK_DEADLOCK FALSE
PROPERTY DeadWorkersStrandNothing
