SPECIFICATION Spec
CONSTANTS
  Readers = {r1, r2}
  Writers = {w1, w2}
  None = None
INVARIANTS
  TypeOK
  StaleHasCause
PROPERTIES
  StaleEnds
CHECK_DEADLOCK FALSE
