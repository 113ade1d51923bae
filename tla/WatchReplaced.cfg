CONSTANTS
  Source = {s1, s2}
  Data = {d1, d2}
  Handle = {h1, h2, h3}
  NULL = NULL
  Kind = "watch"
  PassToggle = TRUE
  Reinstall = TRUE
  Faults = {"error", "memory"}
SPECIFICATION Spec
SYMMETRY Symmetry
INVARIANTS RegistrySound
PROPERTY AnchoringImplemented
