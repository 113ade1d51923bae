CONSTANTS
  Conn = {c1, c2}
  Wrapper = {w1, w2}
  NULL = NULL
  MaxHeld = 1
  Data = {d1, d2, d3}
  MaxIncoming = 1
SPECIFICATION CallbackSpec
SYMMETRY Symmetry
INVARIANTS
  CallbackTypeOK RefsExact ClosedBeforeFreed NeverCutOff
  
PROPERTIES OwnershipImplemented AnchoringImplemented
