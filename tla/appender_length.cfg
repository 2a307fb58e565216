CONSTANTS
  Child = {c1, c2, c3}
  Inherited = {}
  ExitCodes = {0}
  ProcsChoices = {1}
  ChildMaxChoices <- Indeterminate
  DefaultCapacity = 1
  MaxSignals = 0
  NDEBUG = FALSE
  TokenLengths = {0, 3}
  EnvLength = 2
  FixedLength = 1
  FixedCount = 0
  OptionChoices <- SizedOnly
  ArgMax = 12
  ArgMaxHeadroom = 0
  DefaultMaxLength = 9
  MaxTokens = 3
  InputErrors = {FALSE, TRUE}
  PlaceholderLength = 1
  PlaceholderUses = 2
SPECIFICATION XargsSpec
INVARIANT LengthLimitHolds
