SPECIFICATION Spec
CONSTANTS
  Files = {f1, f2, f3}
  NoFile = NoFile
  NoWrite = NoWrite
  MaxOps = 2
  MaxEvents = 1
  NumBlocks = 3
  MaxCaptures = 4
  BlocksPerFile = 2
  Failures = {"write", "submit", "open", "close", "index"}
  InOrderIO = FALSE
SYMMETRY FileSymmetry
INVARIANTS OffsetsFit WriteHoldsBlock IndexAccurate CleanExit
CHECK_DEADLOCK FALSE
