CONSTANTS
  Source = {s1, s2}
  Data = {d1, d2}
  Handle = {h1, h2}
  NULL = NULL
  Kind = "watch"
  PassToggle = TRUE
  Reinstall = FALSE
  Faults = {}
SPECIFICATION Spec
SYMMETRY Symmetry
INVARIANT ToggleSeen
