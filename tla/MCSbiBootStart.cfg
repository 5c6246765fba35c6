SPECIFICATION FairSpec
CONSTANTS
  Cpu <- MCCpu
  ActiveMask <- MCActive
  PrimaryCpuId = 1
  MainReturn = {0, 1}
  BootCpus = {0}
PROPERTIES
  EveryActiveCpuStarts
CHECK_DEADLOCK FALSE
