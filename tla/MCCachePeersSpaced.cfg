SPECIFICATION Spec
CONSTANTS
  a = a
  b = b
  c = c
  spaced = spaced
  plus = plus
  User = User
  Err = Err
  None = None
  Nodes = {a, b}
  Keys = {spaced, plus}
  Replicas = 1
  PathKey <- MCPathKey
  PeerLists <- MCTwoNodes
  Hash <- MCHash
INVARIANTS
  GetsThatKey
