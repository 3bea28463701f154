SPECIFICATION GpuSpec
CONSTANTS
  Timings <- SmallTimings
  Ratio = 3
  Frac = 2
  ResetRange <- Middle
  MaxTick = 2
  Never = 60
  Ranges <- Usual
  Words <- EveryWord
  VramSize = 6
  MaxVertices = 2
  Lefts <- SomeLefts
  Tops <- SomeTops
  Widths <- EveryWidth
  Heights <- SomeHeights
INVARIANTS
  PhaseWithinPeriod
