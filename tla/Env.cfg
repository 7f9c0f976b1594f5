SPECIFICATION EnvFairSpec
CONSTANTS
  Names = {1, 2}
  Size <- FileSizes
  MaxDirectoryFiles = 1
  Queries = {}
  Debugged = {}
  MaxRestarts = 1
  DirErrors = TRUE
PROPERTIES NoPairBroken StartsClean 
CHECK_DEADLOCK FALSE
