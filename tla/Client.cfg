SPECIFICATION FairSpec
CONSTANTS
  p1 = p1
  p2 = p2
  t1 = t1
  t2 = t2
  None = None
  Callers = {p1, p2}
  Types = {t1}
  AppId = 1
  MaxConns = 2
  MaxDeinits = 1
  MaxPackets = 2
  QueueMax = 2
  MaxFaults = 1
  Beyond = FALSE
INVARIANTS
  TypeOK
  DescriptorOwned
  HandledInOrder
  TablesAgree
PROPERTIES
  DueHandled
  ReaderEnds
CHECK_DEADLOCK FALSE
