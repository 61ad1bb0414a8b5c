SPECIFICATION Spec
CONSTANTS
  a1 = a1  a2 = a2  a3 = a3  a4 = a4  o1 = o1  i1 = i1  i2 = i2  s1 = s1  s2 = s2  s3 = s3
  None = None
  Attempts = {a1, a2, a3, a4}
  Operators = {}
  Inputs = {i1, i2}
  Input <- MixedInput
  Safes = {s1, s2}
  Decision <- Varies
  ApprovalMode = "deferred"
  ReviewAlways = TRUE
  Trigger = "escalate"
  OperationsRequired = FALSE
  MaxAdmission = 0
INVARIANTS PostIsLinked PostIsAuthorized ConsentSpentAfterReservation
PROPERTIES NeverReopened AbandonedForGood
SYMMETRY AttemptSymmetry
CHECK_DEADLOCK FALSE
