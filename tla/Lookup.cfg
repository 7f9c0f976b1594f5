SPECIFICATION FairSpec
CONSTANTS
  Threads = {1, 2}
  Files = {1, 2}
  Removed = {2}
  Time <- Stamps
  Requests <- MCRequests
  ChanSize = 1
  InputsSize = 1
  Faults = TRUE
  Minute = 4
  None = None
INVARIANTS TypeOK
PROPERTIES ImplementsAnswer NothingLeftRunning FilesFreed AnswerKeepsComing
CHECK_DEADLOCK FALSE
