SPECIFICATION FairSpec
CONSTANTS
  r1 = r1
  r2 = r2
  r3 = r3
  Loop = Loop
  None = None
  Reqs = {r1, r2, r3}
  Known = {r1, r2}
  BadBody = {r3}
  Timeout = TRUE
  Eager = TRUE
INVARIANTS
  TypeOK
  OneWholeResponse
  OnlyTimeoutsLeak
PROPERTIES
  AnsweredBeforeClose
  AcceptedIsAnswered
  HangUpEndsServing
