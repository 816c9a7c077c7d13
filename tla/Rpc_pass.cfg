SPECIFICATION FairSpec
CONSTANTS
  Call = {1, 2, 3}
  NoCall = 0
  Signal = 99
  Pairs <- AllPairs
  ExpandCount = 1
  MaxRounds = 1
  Stops = TRUE
  SidEnd = 3
  Cancels = TRUE
  StaleReuse = FALSE
INVARIANT AnswerIsOwn
INVARIANT RefsAgree
INVARIANT PollSticks
INVARIANT ChainExact
INVARIANT HookRunsOnce
PROPERTY CallsReturn
CHECK_DEADLOCK FALSE
