SPECIFICATION FairSpec
CONSTANTS
  Workers = {w1}
  MaxCycles = 2
  MaxNow = 3
  ResponseTarget = 1
  ResolutionTargets = {1}
  ConfirmWindow = 1
  Enabled = {"create", "change", "note", "sweep"}
  FailAt = {"notice"}
PROPERTY BreachReported
