\* A style element and two links to one address, two edits.
SPECIFICATION ResourcesFairSpec
CONSTANTS
  Tree <- MCTree
  Links <- MCLinks
  Pages <- MCPages
  Urls = {"a", "b"}
  MaxSources = 2
  MaxPreloads = 1
  MaxEdits = 2
INVARIANTS
  ResourcesInv
  ChangesAreNoticed
PROPERTIES
  StyledAtLast
CHECK_DEADLOCK FALSE
