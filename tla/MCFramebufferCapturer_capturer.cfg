SPECIFICATION Spec
CONSTANTS
  NumBufs = 2
  cMaxBufs = 4
  Sizes = {"small", "large"}
  UINT32_MAX = 7
  MaxFrames = 4
  Strikes <- OutsideWindows
  GLFails = TRUE
INVARIANTS RingInv FramesInOrder ReleasedIsFlushed
CHECK_DEADLOCK FALSE
