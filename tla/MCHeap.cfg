SPECIFICATION Spec
CONSTANTS
  Cpu = {c1, c2}
  NoCpu = none
  HeapRange <- MCRange
  Bytes = {0, 5, 16}
  Alignment = {8, 32}
INVARIANTS
  TypeOK
  ListSound
  PointersValid
  LockMatches
PROPERTIES
  NullOnlyWhenFull
  ImplementsAllocator
CHECK_DEADLOCK FALSE
