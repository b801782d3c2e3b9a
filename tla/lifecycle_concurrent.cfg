SPECIFICATION Spec
CONSTANTS
  Workers = {w1, w2}
  MaxCycles = 3
  MaxNow = 2
  ResponseTarget = 0
  ResolutionTargets = {2}
  ConfirmWindow = 2
  Enabled = {"create", "change", "close", "reply", "note"}
  FailAt = {"insertCycle", "findOpen", "findLatest"}
SYMMETRY Symmetry
INVARIANT OnlyLatestOpen
PROPERTIES CloseFromResolved AutoCloseEarned
