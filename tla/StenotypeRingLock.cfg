SPECIFICATION FairSpec
CONSTANTS
  Files = {f1, f2}
  NoFile = NoFile
  NoWrite = NoWrite
  MaxOps = 2
  MaxEvents = 2
  NumBlocks = 2
  MaxCaptures = 3
  BlocksPerFile = 3
  Failures = {}
  InOrderIO = TRUE
PROPERTIES NextBlockReturns
CHECK_DEADLOCK FALSE
