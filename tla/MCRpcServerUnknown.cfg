SPECIFICATION Spec
CONSTANTS
  r1 = r1
  r2 = r2
  r3 = r3
  Loop = Loop
  None = None
  Reqs = {r1, r2}
  Known = {r1}
  BadBody = {}
  Timeout = TRUE
  Eager = FALSE
INVARIANTS
  LoopOutlivesBadRequests
