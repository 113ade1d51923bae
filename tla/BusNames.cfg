CONSTANTS
  Conn = {c1, c2}
  Wrapper = {w1, w2}
  NULL = NULL
  MaxHeld = 1
  Name = {n}
  MaxNews = 2
SPECIFICATION BusSpec
INVARIANTS BusTypeOK NewsSettles
PROPERTIES LostByConsent Heard
