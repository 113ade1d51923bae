CONSTANTS
  Message = {m1, m2, m3}
  Wrapper = {w1, w2}
  Iter = {i1, i2, i3}
  NULL = NULL
  MaxHeld = 2
  DistinctSub = TRUE
SPECIFICATION Spec
SYMMETRY Symmetry
INVARIANTS TypeOK RefsExact CursorOwned NoMisuse
PROPERTY OwnershipImplemented
