SPECIFICATION FairSpec
CONSTANTS
  s1 = s1
  s2 = s2
  g = g
  n1 = n1
  n2 = n2
  n3 = n3
  None = None
  Servers = {s1, s2}
  Callers = {g}
  Conns = {n1, n2}
  ConnectTimeout = TRUE
INVARIANTS
  TypeOK
  EveryConnectionOwned
  ErrorIsGenuine
  AnsweredByAll
PROPERTIES
  BroadcastEnds
