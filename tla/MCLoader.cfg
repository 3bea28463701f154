SPECIFICATION LoaderSpec
CONSTANTS
  Tags = {0, 1}
  Lines = {0, 1}
  Vals <- Words
  Zero <- ZeroWord
  Written <- NoWritten
  Files <- SomeFiles
  Caches <- SomeCaches
  Controls <- SomeControls
  BiosSr <- SomeSr
  BiosSp <- StackTop
  AnimationHook <- Hook
  MaxText = 16
INVARIANTS
  Coherent
  CodeMeansSource
  ExecutableInPlace
  EntryFetchesText
PROPERTY
  LoaderEnters
