SPECIFICATION Spec
CONSTANTS
  MaxContexts = 1
  MaxPackets = 4
  Sizes = {1, 2}
  FirstSize = 1
  MaxAttempts = 3
  LoopLen = 1
  LoopCount = 1
  Options <- MCTrims
INVARIANTS TrimsAreWritten
CHECK_DEADLOCK FALSE
