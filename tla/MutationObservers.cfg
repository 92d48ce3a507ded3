\* Scripts, observers and form edits on one small document.
SPECIFICATION Spec
CONSTANTS
    Kind <- MCKind
    Document = 0
    NoNode = NoNode
    A = A
    B = B
    Observer = {A, B}
    FirstObservers <- MCFirstObservers
    FirstTarget = 1
    FirstTrees <- MCFirstTrees
    Parsed <- MCParsed
    Targets = {3}
    MaxSteps = 2
    NoObserver = NoObserver
INVARIANTS
  ObserversInv
  ReadersNotice
  RecordsReplay
CHECK_DEADLOCK FALSE
