SPECIFICATION Spec
CONSTANTS
  Contents = {1, 2}
  Observed = {1, 2}
  MaxFaults = 2
INVARIANTS RerunReachesDownstream
