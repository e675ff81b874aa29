SPECIFICATION StalledPeerSpec
CONSTANTS
  a = a
  g = g
  h = h
  ca = ca
  cg = cg
  None = None
  Receiver = Receiver
  Calls = {a}
  SyncCalls = {a}
  Deadlined = {a}
  Chans <- MCChans
  ChanOf <- MCChanOf
  CapOf <- MCCapOne
PROPERTIES
  DeadlineCoversSend
