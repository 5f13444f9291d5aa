SPECIFICATION Spec
CONSTANTS
  Streams = {s1, s2}
  Devices = {d1, d2}
  Callers = {c1}
  Writers = {w1}
  Scenarios <- SafetyScenarios
  MaxQueue = 3
  None = None
  s1 = s1
  s2 = s2
  d1 = d1
  d2 = d2
INVARIANTS
  DevicesRight StreamAsAsked
CHECK_DEADLOCK FALSE
