SPECIFICATION FairSpec
CONSTANTS
  Devices = {mic}
  Streams = {s1, s2}
  Contexts = {c1, c2}
  s1 = s1
  s2 = s2
  c1 = c1
  c2 = c2
  ModelOf <- MCModelOf
  Thresholds = {1, 2}
  Scenarios <- MCScenarios
  None = None
INVARIANTS
  DeviceFollowsState AsAsked
PROPERTIES
  OneCallPerStart EventsReachClient CallsReturn
CHECK_DEADLOCK FALSE
