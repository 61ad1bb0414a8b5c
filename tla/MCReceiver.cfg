SPECIFICATION Spec
CONSTANTS
  m1 = m1  r1 = r1  r2 = r2
  None = None
  Messages = {m1}
  Pulled = {}
  Replicas = {r1, r2}
  MaxDelivery = 2
INVARIANTS ProcessedOnce
CHECK_DEADLOCK FALSE
