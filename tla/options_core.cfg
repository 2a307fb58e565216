SPECIFICATION Spec
CONSTANTS
  NULL = NULL
  NUL = NUL
  Newline = Newline
  Invalid = Invalid
  Names <- OneName
  Chars <- SomeChars
  ChildMax = 2
  OptionLists <- ShortAndLongLists
INVARIANTS
  TypeOK
  ProcsWithinLimits
  HandsOverConfigured
  LastLimitWins
  SplitsAsAsked
