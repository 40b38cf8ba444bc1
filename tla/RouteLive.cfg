SPECIFICATION FairSpec
CONSTANTS
  c1 = c1
  c2 = c2
  t1 = t1
  m1 = m1
  m2 = m2
  w1 = w1
  w2 = w2
  None = None
  Processes = {c1}
  AppOf <- OneApp
  MaxAppId = 3
  Types = {t1}
  Messages = {m1, m2}
  Workers = {w1, w2}
  MaxFd = 1
  InboxMax = 1
  OutboxMax = 1
  Early = FALSE
  MaxFaults = 1
PROPERTIES
  EveryMessageHandled
