SPECIFICATION FairSpec
CONSTANTS
  Cpu <- MCCpu
  ActiveMask <- MCActive
  PrimaryCpuId = 1
  MainReturn <- MCReturn
  Rounds = 2
INVARIANTS
  TypeOK
  PassMeansAllPassed
PROPERTIES
  VerdictIsFinal
  CheckedStaysChecked
  VerdictUnlessStranded
CHECK_DEADLOCK FALSE
