CONSTANTS
  Path <- MCPath
  Up <- MCUp
  Data = {d1, d2, d3}
  Foreign = {d3}
  NULL = NULL
  MaxStack = 2
  MaxQueue = 2
  Faults = {"error", "memory"}
SPECIFICATION FairSpec
INVARIANTS TypeOK MostSpecificFirst
PROPERTIES AnchoringImplemented NoStaleHandler Drains
