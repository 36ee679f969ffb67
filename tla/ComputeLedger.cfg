SPECIFICATION Spec
CONSTANTS
  d1 = d1
  d2 = d2
  s1 = s1
  s2 = s2
  Documents = {d1, d2}
  Sales = {s1, s2}
  Reserved <- MCReserved
  Maximum <- MCMaximum
  Grant <- MCGrant
  Offer <- MCOffer
  Actuals = {0, 1, 3}
  TrialUnits = 2
  DailyUnits = 4
INVARIANTS
  TypeOK
  CreditsConserved
  TrialStaysBounded
