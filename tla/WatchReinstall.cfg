CONSTANTS
  Source = {s1, s2}
  Data = {d1, d2}
  Handle = {h1, h2, h3}
  NULL = NULL
  Kind = "watch"
  PassToggle = FALSE
  Reinstall = TRUE
  Faults = {}
SPECIFICATION Spec
SYMMETRY Symmetry
INVARIANT NoDanglingHandle
