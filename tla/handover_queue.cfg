SPECIFICATION Spec
CONSTANTS
  Agents = {a1, a2, a3}
  Null = Null
  Tickets = {t1, t2, t3}
  Workers = {w1}
  MaxRequests = 3
  Limits = {1, 2}
  Enabled = {"create", "cancel", "deactivate"}
  Movers = {a1}
  MayFail = TRUE
SYMMETRY Symmetry
VIEW View
INVARIANTS TypeOK OneOffer
PROPERTIES SlotLimit FifoPromotion
