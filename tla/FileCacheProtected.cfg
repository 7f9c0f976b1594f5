SPECIFICATION Spec
CONSTANTS
  CachedFiles = {a, b}
  Nil = Nil
  Goroutines = {g1, g2}
  NoOne = NoOne
  MaxOpened = 1
  MaxCalls = 1
  OpenMayFail = FALSE
PROPERTIES FileProtected
CHECK_DEADLOCK FALSE
