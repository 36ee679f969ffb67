SPECIFICATION FairSpec
CONSTANTS
  f1 = f1
  f2 = f2
  f3 = f3
  Files = {f1, f2, f3}
  MaxFeed = 5
  Feed <- MCFeed
  Jobs = {j1}
  Workers = {w1, w2}
  PageSize = 2
  ImportLimit = 1
  MaxAttempts = 2
  MaxFaults = 1
CHECK_DEADLOCK FALSE
PROPERTY JobsEnd
