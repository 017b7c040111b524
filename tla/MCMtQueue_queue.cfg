SPECIFICATION FairSpec
CONSTANTS
  p1 = p1
  p2 = p2
  c1 = c1
  c2 = c2
  Producers = {p1, p2}
  Consumers = {c1, c2}
  nElementCount = 2
  MaxRetries = 2
  MaxMessages = 5
  MallocFails = TRUE
INVARIANTS RingHoldsMessages
PROPERTIES FifoSpec Delivered
CHECK_DEADLOCK FALSE
