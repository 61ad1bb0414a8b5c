SPECIFICATION Spec
CONSTANTS
  a1 = a1  a2 = a2  a3 = a3  a4 = a4  o1 = o1  i1 = i1  i2 = i2  s1 = s1  s2 = s2  s3 = s3
  None = None
  Attempts = {a1, a2}
  Operators = {o1}
  Inputs = {i1}
  Input <- SameInput
  Safes = {s1, s2, s3}
  Decision <- Varies
  ApprovalMode = "inline"
  ReviewAlways = TRUE
  Trigger = "none"
  OperationsRequired = TRUE
  MaxAdmission = 1
INVARIANTS AtMostOnePost
CHECK_DEADLOCK FALSE
