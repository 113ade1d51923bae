CONSTANTS
  Call = {c1, c2}
  Data = {d1}
  Endless = {c2}
  NULL = NULL
  UsesPop = FALSE
SPECIFICATION FairSpec
PROPERTIES Completes Notifies Reclaimed
CHECK_DEADLOCK FALSE
