SPECIFICATION FairSpec
CONSTANTS
  Caller = {c1, c2}
  NoCaller = NoCaller
  Deinits = TRUE
  SharedClose = FALSE
  Overlaps = FALSE
INVARIANT RequestOnce
INVARIANT ResultTrue
INVARIANT NoUseAfterFree
PROPERTY CallsReturn
CHECK_DEADLOCK FALSE
