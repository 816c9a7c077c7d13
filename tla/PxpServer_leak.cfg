SPECIFICATION Spec
CONSTANTS
  Req = {r1}
  NoReq = NoReq
  Sid = {s1, s2}
  Signal = Signal
  PoolSize = 2
  Func = {f1, f2}
  NoFunc = NoFunc
  MaxRounds = 2
  SyncIo = FALSE
  DeleteInOnClosed = TRUE
  FreeWhilePolled = FALSE
  PollBySignal = FALSE
INVARIANT NoLeakAtRest
SYMMETRY Perms
CHECK_DEADLOCK FALSE
