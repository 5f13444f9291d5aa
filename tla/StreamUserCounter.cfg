SPECIFICATION FairSpec
CONSTANTS
  Clients = {c1, c2, c3}
  Ssr = ssr
  Streams = {s1, s2}
  NoStream = NoStream
  NoThread = NoThread
INVARIANTS
  TypeOK UsersKeepStreamAlive NeverBlocksHoldingMutex CloserIsAlone
PROPERTIES
  FreshCounterUsable CloseCompletes KeepsLifetime
