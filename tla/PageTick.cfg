\* Three callbacks and one timer a tick; a socket, an event source, a fetch; two
\* layout observers of two elements; two performance observers and an entry.
SPECIFICATION TickSpec
CONSTANTS
  Delays = {0, 1}
  Budget = 1
  MaxCallbacks = 3
  MaxTime = 2
  Sockets = {w}
  Sources = {e}
  MaxFetches = 1
  MaxTexts = 1
  MaxCalls = 3
  Resizers = {r}
  Onlookers = {i}
  Clockers = {c, d}
  Watched = {a, b}
  Boxes <- MCBoxes
  ViewHeight = 2
  Marks <- MCMarks
  Wishes <- MCWishes
  MaxMoves = 2
  MaxObserves = 3
  MaxAsks = 4
  MaxEntries = 1
INVARIANTS
  TimersInv
  ChannelsInv
  FrameObserversInv
PROPERTIES
  StartsInTurn
  TimeoutsRun
  ArrivalsAreHeard
CHECK_DEADLOCK FALSE
