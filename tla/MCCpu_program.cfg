SPECIFICATION FairSpec
CONSTANTS
  UserWords = 3
  Texts <- CarefulTexts
  InitRegs <- Aligned
  WildTexts <- AnyTexts
  WildRegs <- Unaligned
  DebugOnBreak = FALSE
INVARIANTS
  ModeStackIsAStack
PROPERTIES
  RefinesIsa
  HandlerReturns
