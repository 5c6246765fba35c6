SPECIFICATION Spec
CONSTANTS
  None = None
  VpnBits = 3
  PaBits = 14
  Xlen = 18
  NumSaveRegisters = 3
  MaxContextSaves = 2
  Inputs <- MCInputs
  DefaultAttributes <- MCDefaultAttributes
  JumpstartSections <- MCJumpstartSections
INVARIANTS
  TypeOK
  AcceptedMapSound
  TablesTile
  WalkMatchesMap
  TablesReadable
  SectionsSound
  ImageMatches
  CpuAreasRight
PROPERTIES
  PteNeverChanges
