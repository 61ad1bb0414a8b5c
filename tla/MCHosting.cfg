SPECIFICATION HostingSpec
CONSTANTS
  p1 = p1  p2 = p2  a = a  b = b  q1 = q1  q2 = q2
  c1 = c1  c2 = c2  f1 = f1  f2 = f2
  None = None
  Operators = {p1, p2}
  Contents = {a, b}
  Chunks = 2
  Requests = {q1, q2}
  Commands = {c1, c2}
  Attempts = {f1, f2}
  MaxVersions = 2
  Opens = {1, 2}
  MaxEdits = 1
INVARIANTS InvalidForGood CreatedOnce OpenIsServed
PROPERTIES ImplementsDecision GateOpens RouteFixedOnce EditIsShown
CHECK_DEADLOCK FALSE
