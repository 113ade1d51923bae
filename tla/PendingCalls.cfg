CONSTANTS
  Call = {c1, c2}
  Data = {d1, d2}
  Endless = {}
  NULL = NULL
  UsesPop = TRUE
SPECIFICATION Spec
SYMMETRY Symmetry
INVARIANTS TypeOK RefsExact NotifiedOnce
PROPERTY AnchoringImplemented
CHECK_DEADLOCK FALSE
