SPECIFICATION Spec
CONSTANTS
  k1 = k1
  k2 = k2
  o1 = o1
  o2 = o2
  m1 = m1
  m2 = m2
  m3 = m3
  m4 = m4
  p1 = p1
  p2 = p2
  s1 = s1
  s2 = s2
  Keys = {k1, k2}
  Orders = {o1, o2}
  Items <- MCItems
  PaymentOf <- MCPaymentOf
  Sellable = {k1, k2}
  Opening <- MCOpening
  Manual = {m1}
  Movement <- MCMovement
  Staff = {s1, s2}
  SumAnswers = {"accepts", "refuses"}
  MaxQuantity = 2
PROPERTY
  TerminalIsFinal
CHECK_DEADLOCK FALSE
