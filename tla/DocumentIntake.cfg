SPECIFICATION FairIntakeSpec
CONSTANTS
  d1 = d1
  Documents = {d1}
  Sales = {}
  Reserved <- MCReserved
  Maximum <- MCMaximum
  Grant <- MCGrant
  Offer <- MCOffer
  Actuals = {0, 2}
  TrialUnits = 2
  DailyUnits = 2
  Ranges = 2
  Deferrals = 1
  MaxDeliveries = 3
  FileLimit = 1
  Funds = 3
  MaxFaults = 2
CHECK_DEADLOCK FALSE
INVARIANTS
  IntakeTypeOK
  ChargedAsRecorded
  AcknowledgedIsDone
  RejectedCostNothing
PROPERTIES
  StoredIsAnsweredFor
