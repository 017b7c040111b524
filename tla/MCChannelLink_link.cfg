SPECIFICATION Spec
CONSTANTS
  MaxMsgs = 5
  QCap = 2
  WireCap = 4
  Tries = 2
  Backlog = 1
  MaxResets = 3
  MaxLeaves = 2
INVARIANTS StreamIsRight
PROPERTIES StreamRecovers
CHECK_DEADLOCK FALSE
