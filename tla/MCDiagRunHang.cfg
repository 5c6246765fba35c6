SPECIFICATION FairSpec
CONSTANTS
  Cpu <- MCCpu
  ActiveMask <- MCActive
  PrimaryCpuId = 1
  MainReturn = {0, 1}
  Rounds = 1
PROPERTIES
  FailureEndsSimulation
CHECK_DEADLOCK FALSE
