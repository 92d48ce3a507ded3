\* Two buffers, so that both are soon busy; two changes and two resizes.
SPECIFICATION FrameSpec
CONSTANTS
  BufferCount = 2
  PreseedCount = 1
  UpdateCount = 3
  MaxChanges = 2
  MaxResizes = 2
INVARIANTS
  FrameInv
PROPERTIES
  BusyNotWritten
  FrameComes
CHECK_DEADLOCK FALSE
