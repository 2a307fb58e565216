CONSTANTS
  Child = {c1, c2, c3}
  Inherited = {}
  ExitCodes = {0, 1, 126}
  ProcsChoices = {0, 1}
  ChildMaxChoices <- Indeterminate
  DefaultCapacity = 1
  MaxSignals = 1
  NDEBUG = FALSE
  TokenLengths = {1}
  EnvLength = 1
  FixedLength = 2
  FixedCount = 1
  OptionChoices <- Placeholder
  ArgMax = 12
  ArgMaxHeadroom = 0
  DefaultMaxLength = 9
  MaxTokens = 4
  InputErrors = {FALSE, TRUE}
  PlaceholderLength = 1
  PlaceholderUses = 1
  FileItems = 3
  BufferItems = 2
SPECIFICATION ProgramSpec
SYMMETRY ChildSymmetry
INVARIANTS
  InputReadOnce
  SuccessMeansRun
  OnePromptAtATime
