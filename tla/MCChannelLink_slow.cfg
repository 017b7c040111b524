SPECIFICATION SlowSpec
CONSTANTS
  MaxMsgs = 4
  QCap = 2
  WireCap = 3
  Tries = 2
  Backlog = 1
  MaxResets = 0
  MaxLeaves = 0
INVARIANTS StreamIsRight
CHECK_DEADLOCK FALSE
