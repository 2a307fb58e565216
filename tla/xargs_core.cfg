CONSTANTS
  Child = {c1, c2, c3}
  Inherited = {}
  ExitCodes = {0, 255}
  ProcsChoices = {1, 2}
  ChildMaxChoices <- Indeterminate
  DefaultCapacity = 1
  MaxSignals = 0
  NDEBUG = FALSE
  TokenLengths = {0, 2}
  EnvLength = 2
  FixedLength = 1
  FixedCount = 2
  OptionChoices <- AllOptions
  ArgMax = 12
  ArgMaxHeadroom = 0
  DefaultMaxLength = 9
  MaxTokens = 3
  InputErrors = {FALSE, TRUE}
  PlaceholderLength = 1
  PlaceholderUses = 2
SPECIFICATION FairXargsSpec
INVARIANTS
  ModeTypeOK
  NothingLost
  CommandsWithinLimits
  CommandsHoldWholeLines
  CommandsAreMaximal
  OneCommandPerLine
  LinesInOrder
PROPERTIES
  Exits
  KeepsXargsPromise
