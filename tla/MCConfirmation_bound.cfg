SPECIFICATION FairSpec
CONSTANTS
  c1 = c1  c2 = c2  c3 = c3  u1 = u1  u2 = u2
  None = None
  Calls = {c1, c2}
  Ids = {u1}
  ReviewRequired = TRUE
PROPERTIES BoundIsCreated
CHECK_DEADLOCK FALSE
