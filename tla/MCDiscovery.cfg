SPECIFICATION FairSpec
CONSTANTS
  c1 = c1
  c2 = c2
  Servers = {1, 2}
  Expiry = 3
  Period = 1
  Late = 1
  Horizon = 6
  Clients = {c1, c2}
  UpdateTimeout = 2
  Delay = 1
  Wait = 1
  FirstIndices = {3}
INVARIANTS
  TypeOK
  HandedOutIsRecent
  TurnsAreFair
PROPERTIES
  NeverDropsBeating
  BeatingGetsListed
