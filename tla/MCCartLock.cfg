SPECIFICATION Spec
CONSTANTS
  c1 = c1
  c2 = c2
  c3 = c3
  guest = guest
  user = user
  almonds = almonds
  Calls = {c1, c2, c3}
  Carts = {guest, user}
  Products = {almonds}
  Requests <- MCRequests
  Opening <- MCOpening
  LockRetries = 2
  MaxFaults = 1
INVARIANTS
  TypeOK
  LockExclusive
  NoLockLeftBehind
PROPERTIES
  EditsApplyOnce
  CallsEnd
CHECK_DEADLOCK FALSE
