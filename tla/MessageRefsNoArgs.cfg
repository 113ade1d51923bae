CONSTANTS
  Message = {m1, m2}
  Wrapper = {w1, w2}
  Iter = {i1, i2}
  NULL = NULL
  MaxHeld = 1
  DistinctSub = TRUE
SPECIFICATION Spec
SYMMETRY Symmetry
INVARIANT NullOnlyIfUninitialized
