SPECIFICATION Spec
CONSTANTS
  DayLength = 4
  WeekLength = 3
  Zones <- MCZones
  Horizon = 24
  LoadAhead = 6
  Policies <- MCPolicies
  Begins <- MCBegins
  MaxNow = 44
INVARIANT ClockExact
CHECK_DEADLOCK FALSE
