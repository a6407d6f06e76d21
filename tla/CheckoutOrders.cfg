SPECIFICATION FairSpec
CONSTANTS
  c1 = c1
  c2 = c2
  p1 = p1
  p2 = p2
  d1 = d1
  d2 = d2
  k1 = k1
  k2 = k2
  NoCart = NoCart
  Checkouts = {c1, c2}
  Guests = {c1}
  Payments = {p1, p2}
  PreferenceOf <- MCPreferenceOf
  Moves <- MCImmediateMoves
  Surcharges = {}
  Payloads = {"full"}
  Handlers = {d1, d2}
  Products = {k1}
  Contents <- MCContents
  Cost <- MCCost
  SumAnswers = {"accepts", "refuses"}
  InitialStock = 2
  Faults = {"timeout", "duplicate", "hide"}
  MaxFaults = 1
PROPERTIES
  ApprovedReachesOrder
CHECK_DEADLOCK FALSE
