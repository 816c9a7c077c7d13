SPECIFICATION Spec
CONSTANTS
  Req = {r1, r2, r3}
  NoReq = NoReq
  MaxRounds = 3
  Overlaps = TRUE
  Closes = TRUE
INVARIANT WaiterKnown
INVARIANT PointerOwned
CHECK_DEADLOCK FALSE
