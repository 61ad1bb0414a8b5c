SPECIFICATION FairSpec
CONSTANTS
  a1 = a1  a2 = a2  a3 = a3  a4 = a4  o1 = o1  i1 = i1  i2 = i2  s1 = s1  s2 = s2  s3 = s3
  None = None
  Attempts = {a1, a2}
  Operators = {o1}
  Inputs = {i1}
  Input <- SameInput
  Safes = {s1}
  Decision <- Allows
  ApprovalMode = "none"
  ReviewAlways = FALSE
  Trigger = "none"
  OperationsRequired = TRUE
  MaxAdmission = 3
INVARIANTS OutcomeIsTrue AnswersAreTrue
PROPERTIES StopBars ImplementsOperation LinkedIsResolved
CHECK_DEADLOCK FALSE
