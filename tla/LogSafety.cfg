SPECIFICATION Spec
CONSTANTS
  p1 = p1
  p2 = p2
  c1 = c1
  c2 = c2
  None = None
  Printers = {p1, p2}
  Cyclers = {c1, c2}
  MaxLines = 4
  LineLen <- OneTooLong
  LineMax = 2
  CacheSize = 4
  FileSize = 1
  FileNum = 2
  StartLines = 1
  DefaultLevel = 15
  DebugLevel = 8
  Levels = {15}
  Seconds = {0, 1}
  MaxFd = 3
  MaxDeinits = 1
  MaxFaults = 1
SYMMETRY Symmetry
INVARIANTS
  TypeOK
  StoredInOrder
  OverrunByLongLine
CHECK_DEADLOCK FALSE
