SPECIFICATION Spec
CONSTANTS
  Commands <- MCAny
  HasDisc = TRUE
  StepDelay <- MCStepDelay
  AsyncDelay <- MCAsyncDelay
  AsyncRxDelay <- MCAsyncRxDelay
  SectorCycles = 6
  Ticks <- MCTicks
  Others <- MCOthers
  Never = 1000
  Polite = FALSE
  MaxParams = 2
  MaxSince = 4
  Size = 2
  Values = {0, 1}
INVARIANTS
  FifoIsQueue
  AssertionsHold
  
  ResponseIsFresh
CHECK_DEADLOCK FALSE
