SPECIFICATION FairSpec
CONSTANTS
  a = a
  b = b
  c = c
  d = d
  Calls = {a, b, c, d}
  FailureThreshold = 2
  HalfOpenMaxCalls = 2
  MaxAttempts = 2
  MaxFailures = 3
INVARIANTS
  TypeOK
  ClosedBelowThreshold
  ProbesCounted
PROPERTIES
  OpenHoldsOff
  HalfOpenEnds
