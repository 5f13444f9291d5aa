CONSTANTS
  s1 = s1
  s2 = s2
  Streams = {s1, s2}
  Offload = {s1}
  Scenarios <- AllScenarios
  MaxCalls = 5
  MaxRequests = 2
  MaxFaults = 1
  Overlaps = {}
SPECIFICATION Spec
INVARIANTS
  DevicesRight
  LeavesQuietly
  BackWhereAsked
  PauseKept
