SPECIFICATION Spec
CONSTANTS
  p1 = p1
  p2 = p2
  c1 = c1
  c2 = c2
  Producers = {p1, p2}
  Consumers = {c1}
  nElementCount = 2
  MaxRetries = 1
  MaxMessages = 3
  MallocFails = TRUE
INVARIANTS PurgeFreesQueued
CHECK_DEADLOCK FALSE
