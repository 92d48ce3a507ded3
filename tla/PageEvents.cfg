\* A document of two nodes, two callbacks, five steps of scripts and inputs; or
\* three documents, each with one frame, three messages, a store of one target
\* that is full at two messages.
SPECIFICATION EventsSpec
CONSTANTS
  Elements = {0, 1}
  Window = Window
  NoTarget = NoTarget
  f = f
  g = g
  FirstParent <- MCFirstParent
  Adds <- MCAdds
  Removes <- MCRemoves
  Sends <- MCSends
  Moves <- MCMoves
  Gestures <- MCGestures
  MaxSteps = 5
  MaxEvents = 2
  Origins = {"a"}
  Owners = {o1}
  MaxFrameMessages = 2
  MaxFrameTargets = 1
  MaxTotalMessages = 2
  MaxContexts = 3
  MaxPosts = 3
INVARIANTS
  DispatchInv
  HubInv
  OnlyItsOrigin
PROPERTIES
  HeardOnceUntilStopped
CHECK_DEADLOCK FALSE
