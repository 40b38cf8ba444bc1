SPECIFICATION FairSpec
CONSTANTS
  t1 = t1
  t2 = t2
  c1 = c1
  j1 = j1
  j2 = j2
  None = None
  Threads = {t1, t2}
  Callers = {c1}
  Jobs = {j1, j2}
  ThreadPoolNumMax = 3
  MaxCreateFails = 0
  MaxDeinits = 2
PROPERTIES
  EveryJobRuns
  WorkersEndAfterDeinit
  CallsReturn
