SPECIFICATION FairSpec
CONSTANTS
  p1 = p1
  b1 = b1
  b2 = b2
  h = h
  hb = hb
  None = None
  Callers = {p1}
  Handler = h
  Callbacks = {b1, b2}
  Heartbeat = hb
  MaxFd = 2
  EventNumMax = 1
  StartTimes = {0, 1}
  MaxNow = 2
  MaxInits = 2
  MaxFaults = 1
  CallbackCalls = FALSE
PROPERTIES
  ExpiryHandled
  CallsReturn
