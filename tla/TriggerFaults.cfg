SPECIFICATION Spec
CONSTANTS
  Devices = {mic}
  SecondStages = {"kwd"}
  Scenarios <- MCFaultScenarios
  None = None
INVARIANTS
  DeviceFollowsState
CHECK_DEADLOCK FALSE
