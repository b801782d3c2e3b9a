SPECIFICATION FairSpec
CONSTANTS
  Agents = {1, 2, 3}
  Admins = {1}
  Teams = {1, 2}
  Tickets = {1, 2, 3}
  Urgent = {2}
  Workers = {1, 2}
  Operations = {"remote", "groups", "rebalance", "arrive", "take", "assign", "regroup", "leave", "accounts", "presence", "progress"}
  Starts <- AllStarts
  MaxSessions = 2
  MaxGroups = 2
  MaxRows = 4
  Skill <- Bars
  Bar <- Bars
  Boost <- Bars
  Routed <- Bars
  Origin <- Bars
  Preferred <- Bars
  Aged = {1}
  Cap = 2
  Threshold = 2
  MaxMoves = 1
  Movers = {2}
INVARIANTS TypeOK TrailTells UrgentKept
PROPERTIES LedStaysLed BalanceReached LeavesEmptyHanded
CHECK_DEADLOCK FALSE
