SPECIFICATION Spec
CONSTANTS
  c1 = c1
  c2 = c2
  p1 = p1
  p2 = p2
  d1 = d1
  d2 = d2
  k1 = k1
  k2 = k2
  NoCart = NoCart
  Checkouts = {c1}
  Guests = {c1}
  Payments = {p1, p2}
  PreferenceOf <- MCSamePreference
  Moves <- MCReversibleMoves
  Surcharges = {1}
  Payloads = {"full"}
  Handlers = {d1, d2}
  Products = {k1, k2}
  Contents <- MCContents
  Cost <- MCCost
  SumAnswers = {"accepts"}
  InitialStock = 1
  Faults = {"crash", "call", "timeout", "duplicate", "redis", "expiry", "amount", "hide"}
  MaxFaults = 1
SYMMETRY MCSymmetry
INVARIANTS
  TypeOK
  ClaimExclusive
  OrderMatchesPayment
  OneOutcome
PROPERTIES
  SettlesOnce
CHECK_DEADLOCK FALSE
