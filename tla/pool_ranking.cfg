CONSTANTS
  Child = {c1, c2}
  Inherited = {}
  ExitCodes = {0, 1, 127}
  ProcsChoices = {1}
  ChildMaxChoices <- Indeterminate
  DefaultCapacity = 1
  MaxSignals = 0
  NDEBUG = FALSE
SPECIFICATION Spec
INVARIANT StatusAsDocumented
