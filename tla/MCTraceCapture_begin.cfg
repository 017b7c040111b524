SPECIFICATION Spec
CONSTANTS
  t1 = t1
  t2 = t2
  Threads = {t1, t2}
  NoThread = NoThread
  MaxFrames = 1
  UINT32_MAX = 9
  MaxRequests = 1
  MaxCalls = 2
  Exits = {}
  Faults = {}
  FullStream = FALSE
INVARIANTS EndHasBegin
