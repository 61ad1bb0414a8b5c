SPECIFICATION PilotSpec
CONSTANTS
  m1 = m1  m2 = m2  r1 = r1  r2 = r2
  None = None
  Receipts = {1, 2}
  Poisoned = {1}
  Required = TRUE
  Messages = {m1, m2}
  Pulled = {m1}
  Replicas = {r1, r2}
  MaxDelivery = 2
  Contents = {1, 2}
  Observed = {1, 2}
  MaxFaults = 2
INVARIANTS PermittedIsRecorded NoMessageLost SucceededIsAuthorized
PROPERTIES PendingIsDelivered DownstreamOnProof Recovers
CHECK_DEADLOCK FALSE
