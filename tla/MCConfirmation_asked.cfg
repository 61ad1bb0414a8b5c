SPECIFICATION Spec
CONSTANTS
  c1 = c1  c2 = c2  c3 = c3  u1 = u1  u2 = u2
  None = None
  Calls = {c1, c2}
  Ids = {u1, u2}
  ReviewRequired = TRUE
INVARIANTS AskedOnce SpentIsJustified
PROPERTIES ImplementsOneUse
CHECK_DEADLOCK FALSE
