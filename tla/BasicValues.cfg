CONSTANTS
  Byte = 2
  LittleEndian = TRUE
  Exact = 32
  LuaInteger <- AllIntegers
  Halves <- SomeHalves
  String = {s1}
SPECIFICATION Spec
INVARIANTS TypeOK InRangeKept LowBitsKept
CHECK_DEADLOCK FALSE
