SPECIFICATION SystemSpec
CONSTANTS
  Peripherals = {"timer", "gpu"}
  Deltas <- MCDeltas
  GpuDeltas <- MCGpuDeltas
  Ticks <- MCTicks
  MaxNow = 6
  Never = 100
  Wrap = 3
  Frac = 2
  Divider = 2
  HSyncs <- MCHSyncs
INVARIANTS
  CacheIsEarliest
  OneInstructionLate
  InterruptPunctual
PROPERTIES
  RefinesIdeal
CHECK_DEADLOCK FALSE
