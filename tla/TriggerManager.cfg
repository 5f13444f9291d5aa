SPECIFICATION FairSpec
CONSTANTS
  Devices = {mic}
  SecondStages = {}
  Scenarios <- MCManagerScenarios
  None = None
INVARIANTS
  AsAsked
PROPERTIES
  CallsReturn
CHECK_DEADLOCK FALSE
