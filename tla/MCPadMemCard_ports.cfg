SPECIFICATION Spec
CONSTANTS
  Bauds = {0, 1}
  Bits = 2
  DsrDuration = 2
  Targets = {1}
  Never = 100
  MaxSince = 2
INVARIANTS
  PadInsideReply
  RepliesInOrder
  ProtocolNeverPanics
PROPERTIES
  LatchesInterrupt
CHECK_DEADLOCK FALSE
