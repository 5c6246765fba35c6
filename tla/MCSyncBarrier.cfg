SPECIFICATION FairSpec
CONSTANTS
  Cpu <- MCCpu
  SyncPoint <- MCSyncPoint
  MaskAt <- MCMaskAt
  Program <- MCProgram
CHECK_DEADLOCK FALSE
INVARIANTS
  TypeOK
  NobodyLeavesEarly
  NoSpuriousFail
PROPERTIES
  ImplementsBarrier
  EveryCallReturns
