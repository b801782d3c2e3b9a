SPECIFICATION Spec
CONSTANTS
  Workers = {w1, w2}
  MaxCycles = 2
  MaxNow = 0
  ResponseTarget = 0
  ResolutionTargets = {1}
  ConfirmWindow = 0
  Enabled = {"create", "change", "close"}
  FailAt = {}
SYMMETRY Symmetry
PROPERTY ClosedIsFinal
CHECK_DEADLOCK FALSE
