SPECIFICATION RingSpec
CONSTANTS
  NumBlocks = 3
  MaxCaptures = 7
INVARIANTS NothingOverrun
PROPERTIES InOrderDelivery HeldBlockStable
CHECK_DEADLOCK FALSE
