SPECIFICATION FairSpec
CONSTANTS
  Req = {r1, r2}
  NoReq = NoReq
  Sid = {s1, s2}
  Signal = Signal
  PoolSize = 2
  Func = {f1}
  NoFunc = NoFunc
  MaxRounds = 2
  SyncIo = TRUE
  DeleteInOnClosed = TRUE
  FreeWhilePolled = FALSE
  PollBySignal = FALSE
INVARIANT TypeOK
INVARIANT RefCountExact
INVARIANT NoUseAfterFree
INVARIANT OneContinuation
INVARIANT RepliesCorrect
INVARIANT ResultsReleased
PROPERTY Served
CHECK_DEADLOCK FALSE
