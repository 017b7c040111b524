SPECIFICATION Spec
CONSTANTS
  MaxContexts = 2
  MaxPackets = 5
  Sizes = {1}
  FirstSize = 1
  MaxAttempts = 1
  LoopLen = 1
  LoopCount = 1
  Options <- MCOptions
PROPERTIES CallsLand
CHECK_DEADLOCK FALSE
