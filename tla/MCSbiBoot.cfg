SPECIFICATION FairSpec
CONSTANTS
  Cpu <- MCCpu
  ActiveMask <- MCActive
  PrimaryCpuId = 1
  MainReturn <- MCReturn
  BootCpus <- MCCpu
INVARIANTS
  TypeOK
  BootNeverFails
  PassMeansAllPassed
PROPERTIES
  LoopEnds
  VerdictUnlessNotStarted
CHECK_DEADLOCK FALSE
