SPECIFICATION FairSpec
CONSTANTS
  Devices = {d1, d2}
  Scenarios <- MCScenarios
  MaxQueue = 1
  MaxLeft = 1
  None = None
  d1 = d1
  d2 = d2
INVARIANTS
  SoundAsAsked WorkerHasStream NothingLeft
PROPERTIES
  DrainReadyMeansDrained AnswersCome CallsReturn
CHECK_DEADLOCK FALSE
