SPECIFICATION Spec
CONSTANTS
  t1 = t1
  t2 = t2
  Threads = {t1, t2}
  NoThread = NoThread
  MaxFrames = 1
  UINT32_MAX = 9
  MaxRequests = 2
  MaxCalls = 2
  Exits = {"atexit"}
  Faults = {"snapshot", "open"}
  FullStream = TRUE
INVARIANTS IdleHasNoFrames CaptureEnds NoStalePacket FramesBounded CallsFollow NoCircularWait
PROPERTIES SessionSpec
SYMMETRY Symmetry
CHECK_DEADLOCK FALSE
