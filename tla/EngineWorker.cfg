\* Two views and five commands: enough to close a view, create it again and
\* navigate it while its first fetch is still running.
SPECIFICATION Spec
CONSTANTS
  Views = {1, 2}
  Profiles = {p1}
  PipeDepth = 1
  MaxCommands = 5
  QueueDepth = 1
  MaxGeneration = 2
INVARIANTS
  TypeOK
  AnnouncedMatchesActive
  NoStaleCommit
  SlotCountExact
PROPERTIES
  ImplementsViewProtocol
CHECK_DEADLOCK FALSE
