SPECIFICATION FairSpec
CONSTANTS
  Files = {f1, f2}
  NoFile = NoFile
  MaxOps = 2
  MaxEvents = 2
  MaxBlocks = 1
  Failures = {}
PROPERTIES FlushReturns
CHECK_DEADLOCK FALSE
