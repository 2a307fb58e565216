CONSTANTS
  Child = {i1, c1, c2, c3}
  Inherited = {i1}
  ExitCodes = {0, 127, 255}
  ProcsChoices = {0, 1, 2}
  ChildMaxChoices <- TwoOrIndeterminate
  DefaultCapacity = 1
  MaxSignals = 2
  NDEBUG = FALSE
SPECIFICATION Spec
SYMMETRY ChildSymmetry
INVARIANTS
  TypeOK
  PidsTrackChildren
  CapacityCoversPids
  StatusIsMostSevere
  LimitInRange
  LimitNeverOverCounts
  WaitHasChild
  DrainedWhenDone
PROPERTIES
  NoLaunchAfterHalt
  LaunchWithinLimit
  KeepsPromise
