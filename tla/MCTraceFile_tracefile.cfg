SPECIFICATION Spec
CONSTANTS
  MaxPackets = 3
  Faults = {"kill", "full"}
INVARIANTS ArchiveIsWhole PlaceIsKnown CallsAreRight
PROPERTIES CallsReturn
CHECK_DEADLOCK FALSE
