SPECIFICATION Spec
SYMMETRY GoSymmetry
CONSTANTS
  a = a
  g = g
  h = h
  ca = ca
  cg = cg
  None = None
  Receiver = Receiver
  Calls = {a, g, h}
  SyncCalls = {a}
  Deadlined = {a}
  Chans <- MCChans
  ChanOf <- MCChanOf
  CapOf <- MCCapOne
INVARIANTS
  TypeOK
  SignalledAtMostOnce
  ReplyMatchesRequest
  NoOrphan
  DoneHasRoom
PROPERTIES
  KeepsPromise
