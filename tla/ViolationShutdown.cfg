\* As Supervisor, with page builds that need not return.
SPECIFICATION SupFairSpec
CONSTANTS
  Views = {1}
  Profiles = {p1}
  PipeDepth = 1
  MaxCommands = 4
  QueueDepth = 1
  MaxGeneration = 1
  EventQueueDepth = 2
  ByteBudget = 3
  WireBytes <- MCWireBytes
  PeerKinds = {}
PROPERTIES
  ShutdownReturns
CHECK_DEADLOCK FALSE
