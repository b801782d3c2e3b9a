SPECIFICATION Spec
CONSTANTS
  Agents = {a1, a2, a3}
  Null = Null
  Tickets = {t1, t2}
  Workers = {w1}
  MaxRequests = 2
  Limits = {1}
  Enabled = {"create", "answer", "cancel", "resolve", "reassign", "presence"}
  Movers = {a1}
  MayFail = FALSE
SYMMETRY Symmetry
VIEW View
INVARIANTS NoStrandedQueue PausedWhileAway NoOfferOnFinished
