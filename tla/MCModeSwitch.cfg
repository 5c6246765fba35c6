SPECIFICATION Spec
CONSTANTS
  MaxContextSaves = 4
  GiveUp = {"M", "S", "VS", "U", "VU"}
INVARIANTS
  TypeOK
  CountMatchesPointer
  ContextsNeeded
  RegistersRight
  ModeTracked
CHECK_DEADLOCK FALSE
