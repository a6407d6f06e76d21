SPECIFICATION Spec
CONSTANTS
  c1 = c1
  c2 = c2
  c3 = c3
  c4 = c4
  c5 = c5
  ana = ana
  luz = luz
  p = p
  q = q
  r = r
  NoAccount = NoAccount
  Calls = {c1, c2, c3, c4, c5}
  Users = {ana, luz}
  Passwords = {p, q, r}
  Tokens = {1, 2, 3, 4}
  Requests <- MCRequests
  Opening <- MCOpening
  MaxFaults = 1
INVARIANTS
  TypeOK
  OneLifePerSession
  TheftBranchDead
PROPERTIES
  EndedStaysEnded
  PasswordsProven
CHECK_DEADLOCK FALSE
