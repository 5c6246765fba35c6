SPECIFICATION Spec
CONSTANTS
  N = 2
  Jobs = 2
  Expectations <- MCExpectations
PROPERTIES
  SingleInterruptKillsAll
CHECK_DEADLOCK FALSE
