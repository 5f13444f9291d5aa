SPECIFICATION FairSpec
CONSTANTS
  Devices = {mic}
  SecondStages = {"kwd"}
  Scenarios <- MCDetectScenarios
  None = None
INVARIANTS
  PausedMeansQuiet AwakeAsNeeded
PROPERTIES
  ToldWhenAsked VerdictComes
CHECK_DEADLOCK FALSE
