SPECIFICATION Spec
CONSTANTS
  Workers = {w1}
  MaxCycles = 2
  MaxNow = 3
  ResponseTarget = 1
  ResolutionTargets = {1, 2}
  ConfirmWindow = 1
  Enabled = {"create", "change", "close", "reply", "note", "patch", "sweep"}
  FailAt = {"notice"}
INVARIANTS TypeOK OpenIffWorking MirrorMatches NoFalseBreach RecordedOnce
