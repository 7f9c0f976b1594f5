SPECIFICATION FairSpec
CONSTANTS
  CachedFiles = {a, b, c}
  Nil = Nil
  Goroutines = {g1, g2}
  NoOne = NoOne
  MaxOpened = 2
  MaxCalls = 3
  OpenMayFail = TRUE
INVARIANTS ListOK OpenedExact
PROPERTIES ImplementsLru CallReturns
CHECK_DEADLOCK FALSE
