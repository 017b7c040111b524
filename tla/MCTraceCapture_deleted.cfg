SPECIFICATION Spec
CONSTANTS
  t1 = t1
  t2 = t2
  Threads = {t1}
  NoThread = NoThread
  MaxFrames = 1
  UINT32_MAX = 9
  MaxRequests = 1
  MaxCalls = 2
  Exits = {}
  Faults = {"write_snapshot"}
  FullStream = FALSE
INVARIANTS FailureNotNamed
