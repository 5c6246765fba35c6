SPECIFICATION Spec
CONSTANTS
  Cpu = {c1, c2}
  NoCpu = none
  HeapRange <- OneRange
  Bytes = {8}
  Alignment = {16}
INVARIANTS
  SameRangeNeverFails
CHECK_DEADLOCK FALSE
