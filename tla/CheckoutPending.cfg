SPECIFICATION FairSpec
CONSTANTS
  c1 = c1
  c2 = c2
  p1 = p1
  p2 = p2
  d1 = d1
  d2 = d2
  k1 = k1
  k2 = k2
  NoCart = NoCart
  Checkouts = {c1}
  Guests = {c1}
  Payments = {p1}
  PreferenceOf <- MCSamePreference
  Moves <- MCDeferredMoves
  Surcharges = {}
  Payloads = {"full"}
  Handlers = {d1}
  Products = {k1}
  Contents <- MCContents
  Cost <- MCCost
  SumAnswers = {"accepts"}
  InitialStock = 1
  Faults = {}
  MaxFaults = 0
PROPERTIES
  ApprovedGetsOrder
CHECK_DEADLOCK FALSE
