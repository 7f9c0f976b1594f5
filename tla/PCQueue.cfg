SPECIFICATION FairSpec
CONSTANTS
  Producers = {p1, p2}
  Consumers = {c1, c2}
  Closer = closer
  Null = Null
  Pending = Pending
  NoThread = NoThread
  MaxPuts = 2
PROPERTIES ImplementsChannel ValueTaken CloseStopsAll
CHECK_DEADLOCK FALSE
