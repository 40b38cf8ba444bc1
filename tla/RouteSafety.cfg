SPECIFICATION Spec
CONSTANTS
  c1 = c1
  c2 = c2
  t1 = t1
  m1 = m1
  m2 = m2
  w1 = w1
  None = None
  Processes = {c1, c2}
  AppOf <- TwoApps
  MaxAppId = 3
  Types = {t1}
  Messages = {m1, m2}
  Workers = {w1}
  MaxFd = 2
  InboxMax = 1
  OutboxMax = 1
  Early = FALSE
  MaxFaults = 0
SYMMETRY Symmetry
INVARIANTS
  TypeOK
  TableNamesLiveClients
  FlagsMatchRequests
  SubscribersServed
PROPERTIES
  SendsToSubscriber
