CONSTANTS
  Child = {i1, c1}
  Inherited = {i1}
  ExitCodes = {0}
  ProcsChoices = {1}
  ChildMaxChoices <- Indeterminate
  DefaultCapacity = 1
  MaxSignals = 0
  NDEBUG = FALSE
SPECIFICATION Spec
INVARIANT AssertHolds
