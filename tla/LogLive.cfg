SPECIFICATION FairSpec
CONSTANTS
  p1 = p1
  c1 = c1
  None = None
  Printers = {p1}
  Cyclers = {c1}
  MaxLines = 6
  LineLen <- TwoLengths
  LineMax = 2
  CacheSize = 4
  FileSize = 1
  FileNum = 2
  StartLines = 2
  DefaultLevel = 15
  DebugLevel = 8
  Levels = {15}
  Seconds = {0}
  MaxFd = 3
  MaxDeinits = 0
  MaxFaults = 1
INVARIANTS
  NoGap
  BakHasPost
PROPERTIES
  CachedLineLeaves
  BakTaken
CHECK_DEADLOCK FALSE
