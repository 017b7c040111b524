SPECIFICATION Spec
CONSTANTS
  t1 = t1
  t2 = t2
  Threads = {t1}
  NoThread = NoThread
  MaxFrames = 2
  UINT32_MAX = 9
  MaxRequests = 2
  MaxCalls = 4
  Exits = {"signal", "atexit", "_exit", "exit_after_x_frames"}
  Faults = {"snapshot", "open", "write_snapshot", "write", "close"}
  FullStream = TRUE
INVARIANTS TypeOK LocksMatchPlaces ExactFrames ExitClosesTrace
CHECK_DEADLOCK FALSE
