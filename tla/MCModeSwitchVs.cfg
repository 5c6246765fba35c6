SPECIFICATION Spec
CONSTANTS
  MaxContextSaves = 5
  GiveUp = {"VS"}
INVARIANTS
  CallerContextRestored
CHECK_DEADLOCK FALSE
