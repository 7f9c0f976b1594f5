SPECIFICATION FairSpec
CONSTANTS
  Files = {f1, f2, f3}
  NoFile = NoFile
  MaxOps = 2
  MaxEvents = 4
  MaxBlocks = 2
  Failures = {"write", "submit", "open", "fallocate", "close"}
INVARIANTS TypeOK LiveWrites SlotBound PublishedIntact PublishedLength
PROPERTIES PublishedForever WriteReturns BusyFlushReturns
CHECK_DEADLOCK FALSE
