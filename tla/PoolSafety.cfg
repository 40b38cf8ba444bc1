SPECIFICATION Spec
CONSTANTS
  t1 = t1
  t2 = t2
  t3 = t3
  c1 = c1
  c2 = c2
  j1 = j1
  j2 = j2
  None = None
  Threads = {t1, t2, t3}
  Callers = {c1, c2}
  Jobs = {j1, j2}
  ThreadPoolNumMax = 3
  MaxCreateFails = 1
  MaxDeinits = 2
SYMMETRY Symmetry
INVARIANTS
  TypeOK
  TokensMatchJobs
  CountMatchesList
  IdleCoversWaiting
  JobsAccounted
  ExitTokensSuffice
PROPERTIES
  ImplementsJobQueue
