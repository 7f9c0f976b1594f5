SPECIFICATION FairSpec
CONSTANTS
  Files = {f1, f2, f3}
  NoFile = NoFile
  NoWrite = NoWrite
  MaxOps = 2
  MaxEvents = 2
  NumBlocks = 3
  MaxCaptures = 3
  BlocksPerFile = 2
  Failures = {}
  InOrderIO = TRUE
PROPERTIES RotatedPublished ShutdownEnds IndexFlushed
CHECK_DEADLOCK FALSE
