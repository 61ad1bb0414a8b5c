SPECIFICATION FairSpec
CONSTANTS
  c1 = c1  c2 = c2  c3 = c3  n1 = n1  i1 = i1  i2 = i2
  None = None
  Calls = {c1, c2}
  Nonce = n1
  Intents = {i1}
  Intent <- SameIntent
  Native = TRUE
INVARIANTS NotifiedOnce DecisionIsResponse
PROPERTIES ResponseLands
CHECK_DEADLOCK FALSE
