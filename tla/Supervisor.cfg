\* One view, four commands besides Shutdown, the smallest queues that still
\* let both producers of the worker queue compete.
SPECIFICATION SupFairSpec
CONSTANTS
  Views = {1}
  Profiles = {p1}
  PipeDepth = 1
  MaxCommands = 4
  QueueDepth = 1
  MaxGeneration = 1
  EventQueueDepth = 1
  ByteBudget = 3
  WireBytes <- MCWireBytes
  PeerKinds = {}
INVARIANTS
  SupInv
PROPERTIES
  CommandsAreRead
  ReapIsBounded
  LoadsSettle
CHECK_DEADLOCK FALSE
