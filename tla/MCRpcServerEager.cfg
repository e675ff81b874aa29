SPECIFICATION ReturningSpec
CONSTANTS
  r1 = r1
  r2 = r2
  r3 = r3
  Loop = Loop
  None = None
  Reqs = {r1}
  Known = {r1}
  BadBody = {}
  Timeout = FALSE
  Eager = TRUE
PROPERTIES
  RequestsBehindOptionAnswered
