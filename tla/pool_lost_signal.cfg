CONSTANTS
  Child = {c1, c2}
  Inherited = {}
  ExitCodes = {0}
  ProcsChoices = {1}
  ChildMaxChoices <- Indeterminate
  DefaultCapacity = 1
  MaxSignals = 2
  NDEBUG = FALSE
SPECIFICATION Spec
INVARIANT EverySignalCounts
