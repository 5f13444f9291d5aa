SPECIFICATION FairSpec
CONSTANTS
  Devices = {d1, d2}
  Scenarios <- MCScenarios
  None = None
INVARIANTS
  DevicesFollow AsAsked PausedMeansQuiet
PROPERTIES
  CallsReturn
CHECK_DEADLOCK FALSE
