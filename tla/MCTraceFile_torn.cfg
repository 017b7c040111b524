SPECIFICATION Spec
CONSTANTS
  MaxPackets = 2
  Faults = {"full", "room"}
INVARIANTS SuccessIsReadable
CHECK_DEADLOCK FALSE
