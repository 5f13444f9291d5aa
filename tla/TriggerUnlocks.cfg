SPECIFICATION Spec
CONSTANTS
  Devices = {mic}
  SecondStages = {"kwd"}
  Scenarios <- MCUnlockScenarios
  None = None
PROPERTIES
  UnlocksOwnMutex
CHECK_DEADLOCK FALSE
