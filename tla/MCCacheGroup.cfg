SPECIFICATION FairSpec
CONSTANTS
  p1 = p1
  p2 = p2
  o1 = o1
  o2 = o2
  Procs = {p1, p2}
  Keys = {"k", "l"}
  Remote = {"l"}
  MaxVersion = 1
  Values = {0, 1, Err}
  Err = Err
  Nil = Nil
  Objects = {o1, o2}
  KeyLen <- MCKeyLen
  ValLen <- MCValLen
  MaxBytes = 3
INVARIANTS
  TypeOK
  OneInFlight
PROPERTIES
  CacheOnlyGetsNewer
  MonotonicReads
  GetReturns
