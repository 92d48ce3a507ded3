\* Channel of two events and three bytes, five envelopes written.
SPECIFICATION IngressFairSpec
CONSTANTS
  Views = {1}
  Profiles = {p1}
  PipeDepth = 2
  MaxCommands = 5
  EventQueueDepth = 2
  ByteBudget = 3
  WireBytes <- MCWireBytes
  PeerKinds = {"UrlChanged", "Error", "Idle", "Torn"}
INVARIANTS
  IngressInv
PROPERTIES
  ImplementsEventStream
  EndIsHeard
CHECK_DEADLOCK FALSE
