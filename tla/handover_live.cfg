SPECIFICATION FairSpec
CONSTANTS
  Agents = {a1, a2}
  Null = Null
  Tickets = {t1, t2}
  Workers = {w1}
  MaxRequests = 2
  Limits = {1}
  Enabled = {"create", "answer", "cancel", "presence"}
  Movers = {a1}
  MayFail = FALSE
PROPERTIES PendingEnds QueueMoves
