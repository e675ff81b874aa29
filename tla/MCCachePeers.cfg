SPECIFICATION FairSpec
CONSTANTS
  a = a
  b = b
  c = c
  spaced = spaced
  plus = plus
  User = User
  Err = Err
  None = None
  Nodes = {a, b, c}
  Keys = {plus}
  Replicas = 2
  PathKey <- MCPathKey
  PeerLists <- MCPeerLists
  Hash <- MCHash
INVARIANTS
  TypeOK
  OneHop
PROPERTIES
  GetReturns
