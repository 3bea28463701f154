SPECIFICATION Spec
CONSTANTS
  Commands <- MCReads
  HasDisc = TRUE
  StepDelay <- MCStepDelay
  AsyncDelay <- MCAsyncDelay
  AsyncRxDelay <- MCAsyncRxDelay
  SectorCycles = 6
  Ticks <- MCTicks
  Others <- MCOthers
  Never = 1000
  Polite = TRUE
  MaxParams = 3
  MaxSince = 4
  Size = 2
  Values = {0, 1}
PROPERTIES
  CommandRetiredByItsIrq
CHECK_DEADLOCK FALSE
