SPECIFICATION FairSpec
CONSTANTS
  N = 3
  Jobs = 2
  Expectations <- MCExpectations
INVARIANTS
  TypeOK
  RegistryMatches
  NothingOutlives
  ExitStatusTruthful
PROPERTIES
  EndsUnlessStuck
CHECK_DEADLOCK FALSE
