\* Two levels of documents with two iframes each, a cap of two frames and
\* one permit.
SPECIFICATION FairSpec
CONSTANTS
  OwnerCount = 2
  Sources = {"a", "b"}
  Pages <- MCPages
  MaxDepth = 2
  MaxFrames = 2
  MaxJobs = 1
  Word = 8
  MaxChanges = 1
INVARIANTS
  FramesInv
PROPERTIES
  FramesSettle
CHECK_DEADLOCK FALSE
