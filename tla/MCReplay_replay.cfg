SPECIFICATION Spec
CONSTANTS
  MaxContexts = 2
  MaxPackets = 5
  Sizes = {1, 2}
  FirstSize = 1
  MaxAttempts = 2
  LoopLen = 1
  LoopCount = 1
  Options <- MCOptions
INVARIANTS FollowsTrace LoopsAreRight
PROPERTIES PacketsWait ReplayEnds
CHECK_DEADLOCK FALSE
