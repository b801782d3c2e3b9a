SPECIFICATION Spec
CONSTANTS
  Agents = {a1, a2, a3}
  Null = Null
  Tickets = {t1}
  Workers = {w1, w2}
  MaxRequests = 2
  Limits = {1}
  Enabled = {"create", "answer", "cancel", "resolve", "deactivate", "delete"}
  Movers = {a1}
  MayFail = FALSE
SYMMETRY Symmetry
VIEW View
INVARIANTS AnsweredOnce
PROPERTIES AnswersFinal OfferKept
