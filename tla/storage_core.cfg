SPECIFICATION StorageSpec
CONSTANTS
  CharIsSigned = TRUE
  ReadMayFail = TRUE
  DelimChoices = {0, 10, 44}
  InputChoices <- Inputs
  SizeMax = 17
  PointerSize = 2
  BufferSizes = {0, 3}
  InputCapacity = 1
  FixedArgs <- Fixed
  Placeholders <- PlaceholderChoices
INVARIANTS
  ItemsRejoin
  DelimiterSplits
  ArgumentsSurvive
  LinesReplaced
  StaysWithinMemory
