SPECIFICATION FairSpec
CONSTANTS
  Streams = {s1}
  Devices = {d1}
  Callers = {c1}
  Writers = {w1}
  Scenarios <- ReturnScenarios
  MaxQueue = 3
  None = None
  s1 = s1
  s2 = s2
  d1 = d1
  d2 = d2
PROPERTIES
  CallsReturn
CHECK_DEADLOCK FALSE
