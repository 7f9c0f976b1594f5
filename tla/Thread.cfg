SPECIFICATION FairSpec
CONSTANTS
  Names = {1, 2, 3}
  Size <- FileSizes
  MaxDirectoryFiles = 2
  Queries = {q1}
  Debugged = {1}
INVARIANTS TypeOK LookupsOpen WithinLimit
PROPERTIES OldestGoFirst PruneFreesEnough SyncReturns FilesFound
CHECK_DEADLOCK FALSE
