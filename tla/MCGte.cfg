SPECIFICATION Spec
CONSTANTS
  Half = 6
  Byte = 3
  Frac = 4
  Coord = 4
  Irgb = 2
  Registers <- SomeRegisters
  Commands <- SomeCommands
  Writes <- SomeWrites
  MaxSteps = 2
  Divisors <- EveryDivisor
  Numerators <- SomeNumerators
INVARIANTS
  SaveRestoreIsIdentity
  QuotientAccurate

  
CHECK_DEADLOCK FALSE
