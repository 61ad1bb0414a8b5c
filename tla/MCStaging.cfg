SPECIFICATION StagingSpec
CONSTANTS
  c1 = c1  c2 = c2  c3 = c3  r1 = r1  r2 = r2
  None = None
  Operator = Operator
  Calls = {c1, c2}
  CIRuns = {r1, r2}
INVARIANTS EffectWasDispatched ReportIsTrue EvidenceIsOfOneDeployment StoppedStaysStopped
PROPERTIES ImplementsPromotion
SYMMETRY StagingSymmetry
CHECK_DEADLOCK FALSE
