CONSTANTS
  Source = {s1, s2}
  Data = {d1, d2}
  Handle = {h1, h2}
  NULL = NULL
  Kind = "timeout"
  PassToggle = TRUE
  Reinstall = FALSE
  Faults = {}
SPECIFICATION FairSpec
INVARIANTS TypeOK NoDanglingHandle RegistryExact LoopExact ToggleSeen
PROPERTY Served
