SPECIFICATION Spec
CONSTANTS
  p1 = p1
  p2 = p2
  b1 = b1
  b2 = b2
  h = h
  hb = hb
  None = None
  Callers = {p1, p2}
  Handler = h
  Callbacks = {b1, b2}
  Heartbeat = hb
  MaxFd = 3
  EventNumMax = 2
  StartTimes = {0, 2}
  MaxNow = 2
  MaxInits = 2
  MaxFaults = 0
  CallbackCalls = TRUE
SYMMETRY Symmetry
INVARIANTS
  TypeOK
  TableOwnsTimers
  NoTimerLeaked
  CallbackOfTimer
CHECK_DEADLOCK FALSE
